------------------------- MODULE CoreCountersProofs -------------------------
(***************************************************************************)
(* Proofs about CoreCounters, for any number of cores and sockets, any     *)
(* width of the counters and any number of samples.                        *)
(*                                                                         *)
(* A sample of a socket or of the system is a sum over cores, so the first *)
(* part is about sums over finite sets.                                    *)
(***************************************************************************)
EXTENDS CoreCounters, TLAPS, FiniteSetTheorems

-----------------------------------------------------------------------------
(* Sums.  F is the table of the sums of f over all subsets of I.           *)

IsSum(F, f, I) ==
    /\ F \in [SUBSET I -> Int] /\ F[{}] = 0
    /\ \A T \in SUBSET I, x \in I : x \notin T => F[T \cup {x}] = F[T] + f[x]

Sum(f, T) == (CHOOSE F : IsSum(F, f, Online))[T]

\* Being a smaller subset of a finite set is a well-founded relation.
LEMMA SubsetsWellFounded ==
    ASSUME NEW I, IsFiniteSet(I)
    PROVE  IsWellFoundedOn(StrictSubsetOrdering(I), SUBSET I)
  BY FS_StrictSubsetOrderingWellFounded, FS_FiniteSubsetsOfFinite

\* Induction over the subsets of a finite set, for a set G of subsets: a set
\* that contains T whenever it contains all smaller sets contains everything.
LEMMA StrongInduction ==
    ASSUME NEW I, IsFiniteSet(I), NEW G,
           \A T \in SUBSET I : (\A U \in SUBSET T : U # T => U \in G) => T \in G
    PROVE  \A T \in SUBSET I : T \in G
<1> DEFINE Bad == {T \in SUBSET I : T \notin G}
<1> SUFFICES ASSUME Bad # {} PROVE FALSE  OBVIOUS
<1>1. IsWellFoundedOn(StrictSubsetOrdering(I), SUBSET I)  BY SubsetsWellFounded
<1>2. PICK T \in Bad : \A U \in Bad : <<U, T>> \notin StrictSubsetOrdering(I)
  <2> HIDE DEF Bad
  <2>1. Bad \subseteq SUBSET I  BY DEF Bad
  <2> QED BY <1>1, <2>1, WFMin
<1>3. ASSUME NEW U \in SUBSET T, U # T PROVE U \in G
  <2>1. <<U, T>> \in StrictSubsetOrdering(I)  BY <1>3 DEF StrictSubsetOrdering
  <2> QED BY <1>2, <2>1
<1> QED BY <1>3

\* The same one element at a time.
LEMMA SubsetInduction ==
    ASSUME NEW I, IsFiniteSet(I), NEW G, {} \in G,
           \A T \in SUBSET I, x \in I : T \in G /\ x \notin T => T \cup {x} \in G
    PROVE  \A T \in SUBSET I : T \in G
<1>1. ASSUME NEW T \in SUBSET I, \A U \in SUBSET T : U # T => U \in G PROVE T \in G
  <2>1. CASE T = {}  BY <2>1
  <2>2. CASE T # {}
    <3>1. PICK x \in T : TRUE  BY <2>2
    <3>2. T \ {x} \in G  BY <1>1, <3>1
    <3>3. (T \ {x}) \cup {x} = T /\ T \ {x} \in SUBSET I /\ x \in I  BY <3>1
    <3> QED BY <3>2, <3>3
  <2> QED BY <2>1, <2>2
<1> QED BY <1>1, StrongInduction

\* Every function of the cores has a sum: the table grows by one core at a time.
LEMMA SumExists ==
    ASSUME NEW f \in [Online -> Int]
    PROVE  \E F : IsSum(F, f, Online)
<1> DEFINE G == {I \in SUBSET Online : \E F : IsSum(F, f, I)}
<1>1. {} \in G
  <2> DEFINE F == [T \in SUBSET {} |-> 0]
  <2>1. IsSum(F, f, {})  BY DEF IsSum
  <2> QED BY <2>1
<1>2. ASSUME NEW I \in SUBSET Online, NEW y \in Online, I \in G, y \notin I
      PROVE  I \cup {y} \in G
  <2>1. PICK F : IsSum(F, f, I)  BY <1>2
  <2> DEFINE J == I \cup {y}
             H == [T \in SUBSET J |-> IF y \in T THEN F[T \ {y}] + f[y] ELSE F[T]]
  <2>2. H \in [SUBSET J -> Int]
    <3> SUFFICES ASSUME NEW T \in SUBSET J
                 PROVE  (IF y \in T THEN F[T \ {y}] + f[y] ELSE F[T]) \in Int
      OBVIOUS
    <3>1. T \ {y} \in SUBSET I /\ (y \notin T => T \in SUBSET I)  OBVIOUS
    <3>2. F[T \ {y}] \in Int /\ (y \notin T => F[T] \in Int)  BY <2>1, <3>1 DEF IsSum
    <3> QED BY <3>2
  <2>3. H[{}] = 0  BY <2>1 DEF IsSum
  <2>4. ASSUME NEW T \in SUBSET J, NEW x \in J, x \notin T
        PROVE  H[T \cup {x}] = H[T] + f[x]
    <3>1. CASE x = y
      <4>1. (T \cup {x}) \ {y} = T /\ T \in SUBSET I  BY <2>4, <3>1
      <4> QED BY <2>4, <3>1, <4>1
    <3>2. CASE x # y /\ y \in T
      <4>1. (T \cup {x}) \ {y} = (T \ {y}) \cup {x}  BY <3>2
      <4>2. T \ {y} \in SUBSET I /\ x \in I /\ x \notin T \ {y}  BY <2>4, <3>2
      <4>3. F[(T \ {y}) \cup {x}] = F[T \ {y}] + f[x]  BY <2>1, <4>2 DEF IsSum
      <4>4. F[T \ {y}] \in Int /\ f[x] \in Int /\ f[y] \in Int  BY <2>1, <4>2 DEF IsSum
      <4>5. H[T \cup {x}] = F[(T \ {y}) \cup {x}] + f[y]  BY <3>2, <4>1
      <4>6. H[T] = F[T \ {y}] + f[y]  BY <3>2
      <4> HIDE DEF H
      <4> QED BY <4>3, <4>4, <4>5, <4>6
    <3>3. CASE x # y /\ y \notin T
      <4>1. T \in SUBSET I /\ x \in I  BY <2>4, <3>3
      <4> QED BY <2>1, <2>4, <3>3, <4>1 DEF IsSum
    <3> QED BY <3>1, <3>2, <3>3
  <2>5. IsSum(H, f, J)  BY <2>2, <2>3, <2>4 DEF IsSum
  <2> HIDE DEF H
  <2> QED BY <2>5
<1>3. IsFiniteSet(Online)  BY FS_Subset, ConstantsAssumption
<1>4. Online \in G
  <2> HIDE DEF G
  <2> QED BY <1>1, <1>2, <1>3, SubsetInduction
<1> QED BY <1>4

\* The three facts all others about sums are derived from.
LEMMA SumFacts ==
    ASSUME NEW f \in [Online -> Int]
    PROVE  /\ Sum(f, {}) = 0
           /\ \A T \in SUBSET Online : Sum(f, T) \in Int
           /\ \A T \in SUBSET Online, x \in Online :
                 x \notin T => Sum(f, T \cup {x}) = Sum(f, T) + f[x]
<1>1. PICK F : F = CHOOSE G : IsSum(G, f, Online)  OBVIOUS
<1>2. IsSum(F, f, Online)  BY <1>1, SumExists
<1>3. \A T : Sum(f, T) = F[T]  BY <1>1 DEF Sum
<1> QED BY <1>2, <1>3 DEF IsSum

\* There are finitely many online cores.
LEMMA OnlineFinite == IsFiniteSet(Online)
  BY FS_Subset, ConstantsAssumption

\* The sum of sums.
LEMMA SumLinear ==
    ASSUME NEW f \in [Online -> Int], NEW g \in [Online -> Int], NEW h \in [Online -> Int],
           \A c \in Online : h[c] = f[c] + g[c]
    PROVE  \A T \in SUBSET Online : Sum(h, T) = Sum(f, T) + Sum(g, T)
<1> DEFINE G == {T \in SUBSET Online : Sum(h, T) = Sum(f, T) + Sum(g, T)}
<1>1. {} \in G  BY SumFacts
<1>2. ASSUME NEW T \in SUBSET Online, NEW x \in Online, T \in G, x \notin T
      PROVE  T \cup {x} \in G
  <2>1. Sum(h, T \cup {x}) = Sum(h, T) + h[x]  BY <1>2, SumFacts
  <2>2. Sum(f, T \cup {x}) = Sum(f, T) + f[x]  BY <1>2, SumFacts
  <2>3. Sum(g, T \cup {x}) = Sum(g, T) + g[x]  BY <1>2, SumFacts
  <2>4. Sum(f, T) \in Int /\ Sum(g, T) \in Int /\ Sum(h, T) \in Int  BY SumFacts
  <2>5. f[x] \in Int /\ g[x] \in Int /\ h[x] = f[x] + g[x]  OBVIOUS
  <2>6. Sum(h, T) = Sum(f, T) + Sum(g, T)  BY <1>2
  <2>7. Sum(h, T \cup {x}) = Sum(f, T \cup {x}) + Sum(g, T \cup {x})
    BY <2>1, <2>2, <2>3, <2>4, <2>5, <2>6
  <2> QED BY <2>7
<1> HIDE DEF G
<1>3. \A T \in SUBSET Online : T \in G  BY <1>1, <1>2, OnlineFinite, SubsetInduction
<1> QED BY <1>3 DEF G

\* Only the cores that contribute count.
LEMMA SumSupport ==
    ASSUME NEW f \in [Online -> Int], NEW S \in SUBSET Online,
           \A c \in Online \ S : f[c] = 0
    PROVE  Sum(f, Online) = Sum(f, S)
<1> DEFINE G == {T \in SUBSET Online : Sum(f, S \cup T) = Sum(f, S)}
<1>1. {} \in G
  <2>1. S \cup {} = S  OBVIOUS
  <2> QED BY <2>1
<1>2. ASSUME NEW T \in SUBSET Online, NEW x \in Online, T \in G, x \notin T
      PROVE  T \cup {x} \in G
  <2>1. CASE x \in S
    <3>1. S \cup (T \cup {x}) = S \cup T  BY <2>1
    <3> QED BY <1>2, <3>1
  <2>2. CASE x \notin S
    <3>1. S \cup (T \cup {x}) = (S \cup T) \cup {x} /\ x \notin S \cup T  BY <1>2, <2>2
    <3>2. Sum(f, (S \cup T) \cup {x}) = Sum(f, S \cup T) + f[x]  BY <3>1, SumFacts
    <3>3. Sum(f, S \cup T) \in Int /\ f[x] = 0  BY <2>2, SumFacts
    <3>4. Sum(f, S \cup T) = Sum(f, S)  BY <1>2
    <3>5. Sum(f, (S \cup T) \cup {x}) = Sum(f, S)  BY <3>2, <3>3, <3>4
    <3> QED BY <3>1, <3>5
  <2> QED BY <2>1, <2>2
<1> HIDE DEF G
<1>3. \A T \in SUBSET Online : T \in G  BY <1>1, <1>2, OnlineFinite, SubsetInduction
<1>4. S \cup Online = Online  OBVIOUS
<1> QED BY <1>3, <1>4 DEF G

\* One core alone.
LEMMA SumSingle ==
    ASSUME NEW f \in [Online -> Int], NEW c \in Online,
           \A d \in Online \ {c} : f[d] = 0
    PROVE  Sum(f, Online) = f[c]
<1>1. Sum(f, Online) = Sum(f, {c})  BY SumSupport
<1>2. {} \cup {c} = {c}  OBVIOUS
<1>3. Sum(f, {} \cup {c}) = Sum(f, {}) + f[c]  BY SumFacts
<1>4. Sum(f, {}) = 0 /\ f[c] \in Int  BY SumFacts
<1> QED BY <1>1, <1>2, <1>3, <1>4

\* n terms of at most B each.
LEMMA SumBound ==
    ASSUME NEW f \in [Online -> Int], NEW B \in Nat, \A c \in Online : f[c] \in 0 .. B
    PROVE  \A T \in SUBSET Online : Sum(f, T) \in 0 .. Cardinality(T) * B
<1> DEFINE G == {T \in SUBSET Online : Sum(f, T) \in 0 .. Cardinality(T) * B}
<1>1. {} \in G
  <2>1. Cardinality({}) * B = 0  BY FS_EmptySet
  <2>2. Sum(f, {}) \in 0 .. Cardinality({}) * B  BY <2>1, SumFacts
  <2> QED BY <2>2
<1>2. ASSUME NEW T \in SUBSET Online, NEW x \in Online, T \in G, x \notin T
      PROVE  T \cup {x} \in G
  <2>1. Sum(f, T \cup {x}) = Sum(f, T) + f[x]  BY <1>2, SumFacts
  <2>2. IsFiniteSet(T)  BY FS_Subset, OnlineFinite
  <2>3. Cardinality(T \cup {x}) = Cardinality(T) + 1 /\ Cardinality(T) \in Nat
    BY <1>2, <2>2, FS_AddElement, FS_CardinalityType
  <2>4. ASSUME NEW n \in Nat PROVE (n + 1) * B = n * B + B /\ n * B \in Nat
    OBVIOUS
  <2>5. Cardinality(T \cup {x}) * B = Cardinality(T) * B + B
    BY <2>3, <2>4
  <2>6. Cardinality(T) * B \in Nat  BY <2>3, <2>4
  <2>7. Sum(f, T) \in 0 .. Cardinality(T) * B /\ f[x] \in 0 .. B  BY <1>2
  <2>8. Sum(f, T \cup {x}) \in 0 .. Cardinality(T \cup {x}) * B
    BY <2>1, <2>5, <2>6, <2>7
  <2> QED BY <2>8
<1> HIDE DEF G
<1>3. \A T \in SUBSET Online : T \in G  BY <1>1, <1>2, OnlineFinite, SubsetInduction
<1> QED BY <1>3 DEF G

\* A sum grows with its terms.
LEMMA SumMono ==
    ASSUME NEW f \in [Online -> Int], NEW g \in [Online -> Int],
           \A c \in Online : f[c] <= g[c]
    PROVE  Sum(f, Online) <= Sum(g, Online)
<1> DEFINE G == {T \in SUBSET Online : Sum(f, T) <= Sum(g, T)}
<1>1. {} \in G  BY SumFacts
<1>2. ASSUME NEW T \in SUBSET Online, NEW x \in Online, T \in G, x \notin T
      PROVE  T \cup {x} \in G
  <2>1. Sum(f, T \cup {x}) = Sum(f, T) + f[x]  BY <1>2, SumFacts
  <2>2. Sum(g, T \cup {x}) = Sum(g, T) + g[x]  BY <1>2, SumFacts
  <2>3. Sum(f, T) \in Int /\ Sum(g, T) \in Int  BY SumFacts
  <2>4. f[x] \in Int /\ g[x] \in Int /\ f[x] <= g[x]  OBVIOUS
  <2>5. Sum(f, T) <= Sum(g, T)  BY <1>2
  <2>6. Sum(f, T \cup {x}) <= Sum(g, T \cup {x})  BY <2>1, <2>2, <2>3, <2>4, <2>5
  <2> QED BY <2>6
<1> HIDE DEF G
<1>3. \A T \in SUBSET Online : T \in G  BY <1>1, <1>2, OnlineFinite, SubsetInduction
<1> QED BY <1>3 DEF G

\* Multiplication by a constant.
LEMMA SumScale ==
    ASSUME NEW f \in [Online -> Int], NEW g \in [Online -> Int], NEW B \in Int,
           \A c \in Online : g[c] = f[c] * B
    PROVE  Sum(g, Online) = Sum(f, Online) * B
<1> DEFINE G == {T \in SUBSET Online : Sum(g, T) = Sum(f, T) * B}
<1>1. {} \in G  BY SumFacts
<1>2. ASSUME NEW T \in SUBSET Online, NEW x \in Online, T \in G, x \notin T
      PROVE  T \cup {x} \in G
  <2>1. Sum(f, T \cup {x}) = Sum(f, T) + f[x]  BY <1>2, SumFacts
  <2>2. Sum(g, T \cup {x}) = Sum(g, T) + g[x]  BY <1>2, SumFacts
  <2>3. Sum(f, T) \in Int /\ f[x] \in Int  BY SumFacts
  <2>4. \A i, j \in Int : (i + j) * B = i * B + j * B  OBVIOUS
  <2>5. (Sum(f, T) + f[x]) * B = Sum(f, T) * B + f[x] * B  BY <2>3, <2>4
  <2>6. Sum(g, T) = Sum(f, T) * B /\ g[x] = f[x] * B  BY <1>2
  <2>7. Sum(g, T \cup {x}) = Sum(f, T \cup {x}) * B  BY <2>1, <2>2, <2>5, <2>6
  <2> QED BY <2>7
<1> HIDE DEF G
<1>3. \A T \in SUBSET Online : T \in G  BY <1>1, <1>2, OnlineFinite, SubsetInduction
<1> QED BY <1>3 DEF G

\* A sum of natural numbers is one.
LEMMA SumNat ==
    ASSUME NEW f \in [Online -> Nat]
    PROVE  Sum(f, Online) \in Nat
<1> DEFINE z == [c \in Online |-> 0]
<1>1. z \in [Online -> Int] /\ f \in [Online -> Int]  OBVIOUS
<1>2. \A c \in Online : z[c] = 0 /\ z[c] <= f[c]  OBVIOUS
<1> HIDE DEF z
<1>3. Sum(z, Online) <= Sum(f, Online)  BY <1>1, <1>2, SumMono
<1>4. Sum(z, Online) = Sum(z, {})  BY <1>1, <1>2, SumSupport
<1>5. Sum(z, {}) = 0 /\ Sum(f, Online) \in Int  BY <1>1, SumFacts
<1> QED BY <1>3, <1>4, <1>5

-----------------------------------------------------------------------------
(* Arithmetic modulo the width of a register.                              *)

\* Modulo w, and numbers that are small enough.
LEMMA ModRange ==
    ASSUME NEW x \in Int, NEW w \in Nat \ {0}
    PROVE  /\ x % w \in 0 .. w - 1
           /\ x \in 0 .. w - 1 => x % w = x
  OBVIOUS

\* Quotient and remainder.
LEMMA ModSplit ==
    ASSUME NEW x \in Int, NEW w \in Nat \ {0}
    PROVE  \E q \in Int, r \in 0 .. w - 1 : r = x % w /\ w * q \in Int /\ x = w * q + r
<1>1. PICK q \in Int : q = x \div w  OBVIOUS
<1>2. PICK r \in 0 .. w - 1 : r = x % w  BY ModRange
<1>3. PICK m \in Int : m = w * q  OBVIOUS
<1>4. r = x - m  BY <1>1, <1>2, <1>3
<1>5. x = m + r  BY <1>4
<1> QED BY <1>2, <1>3, <1>5

\* There is one remainder.
LEMMA ModUnique ==
    ASSUME NEW w \in Nat \ {0}, NEW q \in Int, NEW r \in 0 .. w - 1
    PROVE  (w * q + r) % w = r
<1>1. PICK m \in Int : m = w * q  OBVIOUS
<1>2. PICK x \in Int : x = m + r  OBVIOUS
<1>3. PICK p \in Int, s \in 0 .. w - 1 : s = x % w /\ x = w * p + s
  <2>1. \E p \in Int, s \in 0 .. w - 1 : s = x % w /\ w * p \in Int /\ x = w * p + s
    BY ModSplit
  <2> QED BY <2>1
<1>4. PICK n \in Int : n = w * p  OBVIOUS
<1>5. x = n + s  BY <1>3, <1>4
<1>6. PICK d \in Int : d = p - q  OBVIOUS
<1>7. w * d = n - m  BY <1>1, <1>4, <1>6
<1>8. n - m = r - s  BY <1>2, <1>5
<1>9. w * d < w /\ w * d > -w  BY <1>7, <1>8
<1>10. d = 0
  <2>1. ASSUME d >= 1 PROVE FALSE
    <3>1. w * d >= w  BY <2>1
    <3> QED BY <1>9, <3>1
  <2>2. ASSUME d <= -1 PROVE FALSE
    <3>1. w * d <= -w  BY <2>2
    <3> QED BY <1>9, <3>1
  <2> QED BY <2>1, <2>2
<1>11. r = s  BY <1>7, <1>8, <1>10
<1>12. x = w * q + r  BY <1>1, <1>2
<1> QED BY <1>3, <1>11, <1>12

\* Whole periods do not matter.
LEMMA ModShift ==
    ASSUME NEW w \in Nat \ {0}, NEW q \in Int, NEW x \in Int
    PROVE  (w * q + x) % w = x % w
<1>1. PICK p \in Int, r \in 0 .. w - 1 : r = x % w /\ x = w * p + r BY ModSplit
<1>2. PICK m \in Int : m = w * q  OBVIOUS
<1>3. PICK n \in Int : n = w * p  OBVIOUS
<1>4. w * (q + p) = m + n  BY <1>2, <1>3
<1>5. x = n + r  BY <1>1, <1>3
<1>6. m + x = (m + n) + r  BY <1>5
<1>7. (w * (q + p) + r) % w = r  BY ModUnique
<1>8. w * q + x = w * (q + p) + r  BY <1>2, <1>4, <1>6
<1> QED BY <1>1, <1>7, <1>8

\* Remainders may be taken before or after adding and subtracting.
LEMMA ModSum ==
    ASSUME NEW w \in Nat \ {0}, NEW x \in Int, NEW y \in Int
    PROVE  /\ ((x % w) + y) % w = (x + y) % w
           /\ ((x % w) + (y % w)) % w = (x + y) % w
           /\ ((x % w) - (y % w)) % w = (x - y) % w
<1>1. PICK p \in Int, a \in 0 .. w - 1 : a = x % w /\ x = w * p + a BY ModSplit
<1>2. PICK q \in Int, b \in 0 .. w - 1 : b = y % w /\ y = w * q + b BY ModSplit
<1>3. PICK m \in Int : m = w * p  OBVIOUS
<1>4. PICK n \in Int : n = w * q  OBVIOUS
<1>5. x = m + a /\ y = n + b  BY <1>1, <1>2, <1>3, <1>4
<1>6. PICK u \in Int : u = a + y  OBVIOUS
<1>7. PICK v \in Int : v = a + b  OBVIOUS
<1>8. PICK d \in Int : d = a - b  OBVIOUS
<1>9. PICK e \in Int : e = p - q  OBVIOUS
<1>10. (w * p + u) % w = u % w /\ (w * q + v) % w = v % w /\ (w * e + d) % w = d % w
    BY ModShift
<1>11. w * e = m - n  BY <1>3, <1>4, <1>9
<1>12. x + y = w * p + u /\ u = w * q + v  BY <1>3, <1>4, <1>5, <1>6, <1>7
<1>13. x - y = w * e + d  BY <1>5, <1>8, <1>11
<1>14. (x + y) % w = u % w /\ u % w = v % w  BY <1>10, <1>12
<1>15. (x - y) % w = d % w  BY <1>10, <1>13
<1>16. u = (x % w) + y /\ v = (x % w) + (y % w) /\ d = (x % w) - (y % w)
    BY <1>1, <1>2, <1>6, <1>7, <1>8
<1> QED BY <1>14, <1>15, <1>16
-----------------------------------------------------------------------------
(* Totals.  X[c][n] is something the n-th reading of core c has returned,  *)
(* and q says which reading of each core is meant; a 0-th reading, all     *)
(* zeros, stands for a core that has not been read.                        *)

Column(X, q) == [c \in Online |-> X[c][q[c]]]
Total(X, q) == Sum(Column(X, q), Online)

Readings == [Online -> [Nat -> Nat]]
Numbers == [Online -> Nat]

\* The readings that q names, one of each core.
LEMMA ColumnType ==
    ASSUME NEW X \in Readings, NEW q \in Numbers
    PROVE  /\ Column(X, q) \in [Online -> Nat]
           /\ Column(X, q) \in [Online -> Int]
           /\ \A c \in Online : Column(X, q)[c] = X[c][q[c]]
  BY DEF Column, Readings, Numbers

\* The total of natural numbers is one.
LEMMA TotalType ==
    ASSUME NEW X \in Readings, NEW q \in Numbers
    PROVE  Total(X, q) \in Nat
  BY ColumnType, SumNat DEF Total

\* A total only depends on the readings it is made of.
LEMMA TotalSame ==
    ASSUME NEW X, NEW Y, NEW q, \A c \in Online : X[c][q[c]] = Y[c][q[c]]
    PROVE  Total(X, q) = Total(Y, q)
<1>1. Column(X, q) = Column(Y, q)  BY DEF Column
<1> QED BY <1>1 DEF Total

\* A reading of one core.
LEMMA TotalSingle ==
    ASSUME NEW X \in Readings, NEW q \in Numbers, NEW c \in Online,
           \A d \in Online : X[d][0] = 0,
           \A d \in Online \ {c} : q[d] = 0
    PROVE  Total(X, q) = X[c][q[c]]
<1>1. \A d \in Online \ {c} : Column(X, q)[d] = 0  BY ColumnType
<1> QED BY <1>1, ColumnType, SumSingle DEF Total

\* Samples of different cores are put together.
LEMMA TotalAdd ==
    ASSUME NEW X \in Readings, NEW p \in Numbers, NEW q \in Numbers, NEW r \in Numbers,
           \A d \in Online : X[d][0] = 0,
           \A d \in Online : (p[d] = 0 \/ q[d] = 0) /\ r[d] = p[d] + q[d]
    PROVE  Total(X, r) = Total(X, p) + Total(X, q)
<1>1. ASSUME NEW d \in Online
      PROVE  Column(X, r)[d] = Column(X, p)[d] + Column(X, q)[d]
  <2>1. p[d] \in Nat /\ q[d] \in Nat /\ X[d] \in [Nat -> Nat]  BY DEF Numbers, Readings
  <2>2. X[d][r[d]] = X[d][p[d]] + X[d][q[d]]
    <3>1. X[d][p[d]] \in Nat /\ X[d][q[d]] \in Nat  BY <2>1
    <3>2. CASE p[d] = 0
      <4>1. r[d] = q[d] /\ X[d][p[d]] = 0  BY <2>1, <3>2
      <4> QED BY <3>1, <4>1
    <3>3. CASE q[d] = 0
      <4>1. r[d] = p[d] /\ X[d][q[d]] = 0  BY <2>1, <3>3
      <4> QED BY <3>1, <4>1
    <3> QED BY <3>2, <3>3
  <2> QED BY <2>2, ColumnType
<1> QED BY <1>1, ColumnType, SumLinear DEF Total

\* Nothing has been read.
LEMMA TotalZero ==
    ASSUME NEW X \in Readings, NEW q \in Numbers,
           \A d \in Online : X[d][0] = 0 /\ q[d] = 0
    PROVE  Total(X, q) = 0
<1>1. \A d \in Online \ {} : Column(X, q)[d] = 0  BY ColumnType
<1>2. Total(X, q) = Sum(Column(X, q), {})  BY <1>1, ColumnType, SumSupport DEF Total
<1> QED BY <1>2, ColumnType, SumFacts

\* A total grows with its readings.
LEMMA TotalMono ==
    ASSUME NEW X \in Readings, NEW p \in Numbers, NEW Y \in Readings, NEW q \in Numbers,
           \A d \in Online : X[d][p[d]] <= Y[d][q[d]]
    PROVE  Total(X, p) <= Total(Y, q)
<1>1. \A d \in Online : Column(X, p)[d] <= Column(Y, q)[d]  BY ColumnType
<1> QED BY <1>1, ColumnType, SumMono DEF Total

\* The cores in S contribute at most B each, the others nothing.
LEMMA TotalBound ==
    ASSUME NEW X \in Readings, NEW q \in Numbers, NEW S \in SUBSET Online, NEW B \in Nat,
           \A d \in Online : X[d][0] = 0 /\ X[d][q[d]] <= B,
           \A d \in Online \ S : q[d] = 0
    PROVE  Total(X, q) \in 0 .. Cardinality(S) * B
<1>1. \A d \in Online : Column(X, q)[d] \in 0 .. B  BY ColumnType
<1>2. \A d \in Online \ S : Column(X, q)[d] = 0  BY ColumnType
<1>3. Total(X, q) = Sum(Column(X, q), S)  BY <1>2, ColumnType, SumSupport DEF Total
<1> QED BY <1>1, <1>3, ColumnType, SumBound

-----------------------------------------------------------------------------
(* Samples.  tab is the table of all readings of all cores.                *)

Tables ==
    [data : [Counters -> Readings], ovf : [Counters -> Readings],
     true : [Counters -> Readings], marked : [Online -> [Nat -> BOOLEAN]]]

TableOK(tab) ==
    /\ tab \in Tables
    /\ \A k \in Counters, c \in Online :
          tab.data[k][c][0] = 0 /\ tab.ovf[k][c][0] = 0 /\ tab.true[k][c][0] = 0
    /\ \A c \in Online : ~tab.marked[c][0]
    /\ \A k \in Overflowing, c \in Online, n \in Nat : tab.data[k][c][n] < Modulus

Samples ==
    [data : [Counters -> Nat], overflows : [Counters -> Nat], marked : BOOLEAN,
     true : [Counters -> Nat], seq : Numbers]

\* The sample s is made of the readings that s.seq names.
OfTable(tab, s) ==
    /\ \A k \in Overflowing : /\ s.data[k] = Total(tab.data[k], s.seq)
                              /\ s.overflows[k] = Total(tab.ovf[k], s.seq)
    /\ \A k \in Counters : s.true[k] = Total(tab.true[k], s.seq)
    /\ s.data["slots"] = s.true["slots"] % Word /\ s.overflows["slots"] = 0
    /\ s.marked <=> \E c \in Online : tab.marked[c][s.seq[c]]

\* The widths of the counters: what all cores together count in one period
\* fits into 64 bits.
LEMMA Moduli ==
    /\ Modulus \in Nat /\ Modulus > 1 /\ Word \in Nat /\ Word > 0
    /\ Word \in Nat \ {0} /\ Modulus \in Nat \ {0}
    /\ \A S \in SUBSET Online : /\ Cardinality(S) \in Nat
                                /\ Cardinality(S) * Modulus < Word
                                /\ Cardinality(S) * (Modulus - 1) < Word
<1>1. Cardinality(Cores) \in Nat  BY ConstantsAssumption, FS_CardinalityType
<1>2. Cardinality(Cores) * Modulus \in Nat  BY <1>1, ConstantsAssumption
<1>3. Modulus \in Nat /\ Modulus > 1 /\ Word \in Nat /\ Word > 0  BY <1>2, ConstantsAssumption
<1>4. ASSUME NEW S \in SUBSET Online
      PROVE  /\ Cardinality(S) \in Nat
             /\ Cardinality(S) * Modulus < Word
             /\ Cardinality(S) * (Modulus - 1) < Word
  <2>1. IsFiniteSet(S) /\ Cardinality(S) <= Cardinality(Cores)
    BY ConstantsAssumption, FS_Subset
  <2>2. Cardinality(S) \in Nat  BY <2>1, FS_CardinalityType
  <2>3. ASSUME NEW m \in Nat, NEW n \in Nat, NEW w \in Nat, m <= n
        PROVE  m * w <= n * w /\ m * (w - 1) <= m * w /\ m * w \in Int /\ m * (w - 1) \in Int
    BY <2>3
  <2>4. /\ Cardinality(S) * Modulus <= Cardinality(Cores) * Modulus
        /\ Cardinality(S) * (Modulus - 1) <= Cardinality(S) * Modulus
        /\ Cardinality(S) * Modulus \in Int /\ Cardinality(S) * (Modulus - 1) \in Int
    BY <1>1, <1>3, <2>1, <2>2, <2>3
  <2>5. Word > Cardinality(Cores) * Modulus  BY ConstantsAssumption
  <2> QED BY <1>2, <1>3, <2>2, <2>4, <2>5
<1> QED BY <1>3, <1>4

\* The columns of the table are readings, and reading 0 is all zeros.
LEMMA TableTypes ==
    ASSUME NEW tab, TableOK(tab), NEW k \in Counters
    PROVE  /\ tab.data[k] \in Readings /\ tab.ovf[k] \in Readings /\ tab.true[k] \in Readings
           /\ \A d \in Online : tab.data[k][d][0] = 0
           /\ \A d \in Online : tab.ovf[k][d][0] = 0
           /\ \A d \in Online : tab.true[k][d][0] = 0
  BY DEF TableOK, Tables

\* The counters of a sample do not reach 2^64.
LEMMA SampleBound ==
    ASSUME NEW tab, TableOK(tab), NEW q \in Numbers, NEW S \in SUBSET Online,
           \A d \in Online \ S : q[d] = 0, NEW k \in Overflowing
    PROVE  Total(tab.data[k], q) \in 0 .. Cardinality(S) * (Modulus - 1)
<1>1. k \in Counters  BY DEF Counters, Overflowing
<1>2. tab.data[k] \in Readings /\ \A d \in Online : tab.data[k][d][0] = 0
    BY <1>1, TableTypes
<1>3. ASSUME NEW d \in Online PROVE tab.data[k][d][q[d]] <= Modulus - 1
  <2>1. q[d] \in Nat  BY DEF Numbers
  <2>2. tab.data[k][d][q[d]] < Modulus  BY <2>1 DEF TableOK
  <2>3. tab.data[k][d][q[d]] \in Nat  BY <1>2, <2>1 DEF Readings
  <2> QED BY <2>2, <2>3, Moduli
<1>4. Modulus - 1 \in Nat  BY Moduli
<1> QED BY <1>2, <1>3, <1>4, TotalBound

\* A sample that is empty is made of no readings.
LEMMA ZeroSample ==
    ASSUME NEW tab, TableOK(tab)
    PROVE  Zero \in Samples /\ OfTable(tab, Zero) /\ \A c \in Online : Zero.seq[c] = 0
<1>1. Zero \in Samples  BY DEF Zero, Samples, Numbers, Counters
<1>2. Zero.seq \in Numbers /\ \A c \in Online : Zero.seq[c] = 0  BY DEF Zero, Numbers
<1>3. \A k \in Counters : Zero.data[k] = 0 /\ Zero.overflows[k] = 0 /\ Zero.true[k] = 0
    BY DEF Zero
<1>4. Overflowing \subseteq Counters /\ "slots" \in Counters  BY DEF Counters, Overflowing
<1>5. ASSUME NEW k \in Counters
      PROVE  /\ Total(tab.data[k], Zero.seq) = 0 /\ Total(tab.ovf[k], Zero.seq) = 0
             /\ Total(tab.true[k], Zero.seq) = 0
    BY <1>2, TableTypes, TotalZero
<1>6. Zero.marked <=> \E c \in Online : tab.marked[c][Zero.seq[c]]
  <2>1. ~Zero.marked  BY DEF Zero
  <2>2. ASSUME NEW c \in Online PROVE ~tab.marked[c][Zero.seq[c]]
    BY <1>2 DEF TableOK
  <2> QED BY <2>1, <2>2
<1>7. 0 % Word = 0  BY Moduli
<1> QED BY <1>1, <1>2, <1>3, <1>4, <1>5, <1>6, <1>7 DEF OfTable

\* operator += on samples of different cores.
LEMMA AddSample ==
    ASSUME NEW tab, TableOK(tab), NEW a \in Samples, NEW b \in Samples,
           OfTable(tab, a), OfTable(tab, b),
           \A c \in Online : a.seq[c] = 0 \/ b.seq[c] = 0
    PROVE  /\ Add(a, b) \in Samples /\ OfTable(tab, Add(a, b))
           /\ \A c \in Online : Add(a, b).seq[c] = a.seq[c] + b.seq[c]
<1> DEFINE r == Add(a, b)
<1>1. /\ a.seq \in Numbers /\ b.seq \in Numbers
      /\ \A k \in Counters : a.data[k] \in Nat /\ b.data[k] \in Nat
      /\ \A k \in Counters : a.overflows[k] \in Nat /\ b.overflows[k] \in Nat
      /\ \A k \in Counters : a.true[k] \in Nat /\ b.true[k] \in Nat
    BY DEF Samples
<1>2. \A c \in Online : r.seq[c] = a.seq[c] + b.seq[c]  BY DEF Add
<1>3. r.seq \in Numbers  BY <1>1 DEF Add, Numbers
<1>4. \A k \in Counters : /\ r.data[k] = (a.data[k] + b.data[k]) % Word
                          /\ r.overflows[k] = a.overflows[k] + b.overflows[k]
                          /\ r.true[k] = a.true[k] + b.true[k]
    BY DEF Add
<1>5. r.marked <=> a.marked \/ b.marked  BY DEF Add
<1>6. r \in Samples
  <2>1. \A k \in Counters : (a.data[k] + b.data[k]) % Word \in Nat
    BY <1>1, Moduli, ModRange
  <2>2. r.data \in [Counters -> Nat]  BY <2>1 DEF Add
  <2>3. r.overflows \in [Counters -> Nat]  BY <1>1 DEF Add
  <2>4. r.true \in [Counters -> Nat]  BY <1>1 DEF Add
  <2>5. r = [data |-> r.data, overflows |-> r.overflows, marked |-> r.marked,
             true |-> r.true, seq |-> r.seq] /\ r.marked \in BOOLEAN
    BY DEF Add
  <2> HIDE DEF r
  <2> QED BY <1>3, <2>2, <2>3, <2>4, <2>5 DEF Samples
<1>7. \A c \in Online : (a.seq[c] = 0 \/ b.seq[c] = 0) /\ r.seq[c] = a.seq[c] + b.seq[c]
    BY <1>2
<1> HIDE DEF r
<1>8. ASSUME NEW k \in Counters
      PROVE  /\ Total(tab.data[k], r.seq) = Total(tab.data[k], a.seq) + Total(tab.data[k], b.seq)
             /\ Total(tab.ovf[k], r.seq) = Total(tab.ovf[k], a.seq) + Total(tab.ovf[k], b.seq)
             /\ Total(tab.true[k], r.seq) = Total(tab.true[k], a.seq) + Total(tab.true[k], b.seq)
  <2>1. /\ tab.data[k] \in Readings /\ tab.ovf[k] \in Readings /\ tab.true[k] \in Readings
        /\ \A d \in Online : tab.data[k][d][0] = 0
        /\ \A d \in Online : tab.ovf[k][d][0] = 0
        /\ \A d \in Online : tab.true[k][d][0] = 0
    BY TableTypes
  <2>2. Total(tab.data[k], r.seq) = Total(tab.data[k], a.seq) + Total(tab.data[k], b.seq)
    BY <1>1, <1>3, <1>7, <2>1, TotalAdd
  <2>3. Total(tab.ovf[k], r.seq) = Total(tab.ovf[k], a.seq) + Total(tab.ovf[k], b.seq)
    BY <1>1, <1>3, <1>7, <2>1, TotalAdd
  <2>4. Total(tab.true[k], r.seq) = Total(tab.true[k], a.seq) + Total(tab.true[k], b.seq)
    BY <1>1, <1>3, <1>7, <2>1, TotalAdd
  <2> QED BY <2>2, <2>3, <2>4
<1>9. ASSUME NEW k \in Overflowing
      PROVE  r.data[k] = Total(tab.data[k], r.seq) /\ r.overflows[k] = Total(tab.ovf[k], r.seq)
  <2>1. k \in Counters  BY DEF Counters, Overflowing
  <2>2. Total(tab.data[k], r.seq) \in 0 .. Cardinality(Online) * (Modulus - 1)
    BY <1>3, SampleBound
  <2>3. Total(tab.data[k], r.seq) \in 0 .. Word - 1
    <3>1. Cardinality(Online) * (Modulus - 1) < Word  BY Moduli
    <3>2. PICK m \in Int : m = Cardinality(Online) * (Modulus - 1)  BY Moduli
    <3> QED BY <2>2, <3>1, <3>2, Moduli
  <2>4. a.data[k] + b.data[k] = Total(tab.data[k], r.seq)  BY <1>8, <2>1 DEF OfTable
  <2>5. r.data[k] = Total(tab.data[k], r.seq) % Word  BY <1>4, <2>1, <2>4
  <2>6. r.data[k] = Total(tab.data[k], r.seq)
    <3>1. PICK t \in 0 .. Word - 1 : t = Total(tab.data[k], r.seq)  BY <2>3
    <3>2. t \in Int /\ Word \in Nat \ {0}  BY Moduli
    <3>3. t % Word = t  BY <3>2, ModRange
    <3> QED BY <2>5, <3>1, <3>3
  <2>7. r.overflows[k] = Total(tab.ovf[k], r.seq)  BY <1>4, <1>8, <2>1 DEF OfTable
  <2> QED BY <2>6, <2>7
<1>10. ASSUME NEW k \in Counters PROVE r.true[k] = Total(tab.true[k], r.seq)
    BY <1>4, <1>8 DEF OfTable
<1>11. r.data["slots"] = r.true["slots"] % Word /\ r.overflows["slots"] = 0
  <2>1. "slots" \in Counters  BY DEF Counters
  <2>2. a.true["slots"] \in Int /\ b.true["slots"] \in Int  BY <1>1, <2>1
  <2>3. r.data["slots"] = ((a.true["slots"] % Word) + (b.true["slots"] % Word)) % Word
    BY <1>4, <2>1 DEF OfTable
  <2>4. r.data["slots"] = (a.true["slots"] + b.true["slots"]) % Word
    BY <2>2, <2>3, Moduli, ModSum
  <2>5. r.true["slots"] = a.true["slots"] + b.true["slots"]  BY <1>4, <2>1
  <2>6. r.overflows["slots"] = 0  BY <1>4, <2>1 DEF OfTable
  <2> QED BY <2>4, <2>5, <2>6
<1>12. r.marked <=> \E c \in Online : tab.marked[c][r.seq[c]]
  <2>1. \A c \in Online : ~tab.marked[c][0]  BY DEF TableOK
  <2>2. ASSUME NEW c \in Online
        PROVE  tab.marked[c][r.seq[c]] <=> tab.marked[c][a.seq[c]] \/ tab.marked[c][b.seq[c]]
    <3>1. a.seq[c] \in Nat /\ b.seq[c] \in Nat  BY <1>1 DEF Numbers
    <3>2. CASE a.seq[c] = 0
      <4>1. r.seq[c] = b.seq[c] /\ ~tab.marked[c][a.seq[c]]  BY <1>7, <2>1, <3>1, <3>2
      <4> QED BY <4>1
    <3>3. CASE b.seq[c] = 0
      <4>1. r.seq[c] = a.seq[c] /\ ~tab.marked[c][b.seq[c]]  BY <1>7, <2>1, <3>1, <3>3
      <4> QED BY <4>1
    <3> QED BY <1>7, <3>2, <3>3
  <2>3. a.marked <=> \E c \in Online : tab.marked[c][a.seq[c]]  BY DEF OfTable
  <2>4. b.marked <=> \E c \in Online : tab.marked[c][b.seq[c]]  BY DEF OfTable
  <2> QED BY <1>5, <2>2, <2>3, <2>4, Zenon
<1>13. OfTable(tab, r)  BY <1>9, <1>10, <1>11, <1>12 DEF OfTable
<1> QED BY <1>6, <1>7, <1>13 DEF r

\* The recursion behind FoldSet: the samples f of the elements of T added to base.
Chosen(T) == CHOOSE x \in T : TRUE
Step(g, T, base, f) == IF T = {} THEN base ELSE Add(g[T \ {Chosen(T)}], f[Chosen(T)])

\* There is a function that satisfies it, by induction on the size of T.
LEMMA FoldExists ==
    ASSUME NEW S, IsFiniteSet(S), NEW base, NEW f
    PROVE  \E g : g = [T \in SUBSET S |-> Step(g, T, base, f)]
<1> DEFINE Small(n) == {T \in SUBSET S : Cardinality(T) <= n}
           G == {T \in SUBSET S : \E g : g = [U \in Small(Cardinality(T)) |->
                                                Step(g, U, base, f)]}
<1>0. \A T \in SUBSET S : IsFiniteSet(T) /\ Cardinality(T) \in Nat
    BY FS_Subset, FS_CardinalityType
<1>1. {} \in G
  <2> DEFINE g == [U \in Small(Cardinality({})) |-> base]
  <2>1. \A U \in Small(Cardinality({})) : U = {}
    BY <1>0, FS_EmptySet
  <2>2. g = [U \in Small(Cardinality({})) |-> Step(g, U, base, f)]
    BY <2>1 DEF Step
  <2> HIDE DEF g
  <2> QED BY <2>2
<1>2. ASSUME NEW T \in SUBSET S, NEW x \in S, T \in G, x \notin T
      PROVE  T \cup {x} \in G
  <2> DEFINE n == Cardinality(T)
  <2>1. PICK g : g = [U \in Small(n) |-> Step(g, U, base, f)]  BY <1>2
  <2> DEFINE h == [U \in Small(n + 1) |-> Step(g, U, base, f)]
  <2>2. Cardinality(T \cup {x}) = n + 1 /\ n \in Nat  BY <1>0, <1>2, FS_AddElement
  <2>3. ASSUME NEW U \in Small(n + 1), U # {}
        PROVE  U \ {Chosen(U)} \in Small(n) /\ U \ {Chosen(U)} \in Small(n + 1)
    <3>1. Chosen(U) \in U  BY <2>3 DEF Chosen
    <3>2. IsFiniteSet(U) /\ Cardinality(U) \in Nat  BY <1>0
    <3>3. Cardinality(U \ {Chosen(U)}) = Cardinality(U) - 1  BY <3>1, <3>2, FS_RemoveElement
    <3>4. Cardinality(U) <= n + 1 /\ U \ {Chosen(U)} \in SUBSET S  OBVIOUS
    <3> QED BY <2>2, <3>2, <3>3, <3>4
  <2>4. ASSUME NEW U \in Small(n) PROVE h[U] = g[U]
    <3>1. U \in Small(n + 1)  BY <1>0, <2>2
    <3>2. g[U] = Step(g, U, base, f)  BY <2>1
    <3> QED BY <3>1, <3>2
  <2>5. ASSUME NEW U \in Small(n + 1) PROVE Step(g, U, base, f) = Step(h, U, base, f)
    <3>1. CASE U = {}  BY <3>1 DEF Step
    <3>2. CASE U # {}
      <4>1. h[U \ {Chosen(U)}] = g[U \ {Chosen(U)}]  BY <2>3, <2>4, <3>2
      <4> HIDE DEF h
      <4> QED BY <4>1 DEF Step
    <3> QED BY <3>1, <3>2
  <2>6. h = [U \in Small(n + 1) |-> Step(h, U, base, f)]  BY <2>5
  <2> HIDE DEF h, n
  <2> QED BY <2>2, <2>6
<1>3. S \in G
  <2> HIDE DEF G
  <2> QED BY <1>1, <1>2, SubsetInduction
<1>4. Small(Cardinality(S)) = SUBSET S
  <2>1. \A T \in SUBSET S : Cardinality(T) <= Cardinality(S)  BY FS_Subset
  <2> QED BY <2>1
<1> QED BY <1>3, <1>4

IsFold(g, S, base, f) ==
    /\ AddAll(base, f, S) = g[S]
    /\ \A T \in SUBSET S : g[T] = Step(g, T, base, f)

\* AddAll, which is FoldSet, satisfies the recursion.
LEMMA AddAllFacts ==
    ASSUME NEW S, IsFiniteSet(S), NEW base, NEW f
    PROVE  \E g : IsFold(g, S, base, f)
<1> DEFINE g == CHOOSE h : h = [T \in SUBSET S |-> Step(h, T, base, f)]
<1>1. g = [T \in SUBSET S |-> Step(g, T, base, f)]  BY FoldExists
<1>2. AddAll(base, f, S) = g[S]
    BY DEF AddAll, FoldSet, MapThenFoldSet, Step, Chosen
<1> HIDE DEF g
<1>3. IsFold(g, S, base, f)  BY <1>1, <1>2 DEF IsFold
<1> QED BY <1>3

\* Aggregator::dispatch: samples of different cores are added up to a sample of
\* all of them.
LEMMA AddAllSample ==
    ASSUME NEW tab, TableOK(tab), NEW S, IsFiniteSet(S),
           NEW base \in Samples, OfTable(tab, base), \A c \in Online : base.seq[c] = 0,
           NEW f, \A u \in S : f[u] \in Samples /\ OfTable(tab, f[u]),
           \A u, v \in S, c \in Online : u # v => f[u].seq[c] = 0 \/ f[v].seq[c] = 0
    PROVE  /\ AddAll(base, f, S) \in Samples /\ OfTable(tab, AddAll(base, f, S))
           /\ \A c \in Online : \/ AddAll(base, f, S).seq[c] = 0
                                \/ \E u \in S : AddAll(base, f, S).seq[c] = f[u].seq[c]
           /\ \A u \in S, c \in Online :
                 f[u].seq[c] # 0 => AddAll(base, f, S).seq[c] = f[u].seq[c]
<1>0. PICK g : IsFold(g, S, base, f)  BY AddAllFacts
<1>1. AddAll(base, f, S) = g[S] /\ \A T \in SUBSET S : g[T] = Step(g, T, base, f)
    BY <1>0 DEF IsFold
<1> DEFINE Good(s, T) ==
              /\ s \in Samples /\ OfTable(tab, s)
              /\ \A c \in Online : s.seq[c] = 0 \/ \E u \in T : s.seq[c] = f[u].seq[c]
              /\ \A u \in T, c \in Online : f[u].seq[c] # 0 => s.seq[c] = f[u].seq[c]
           G == {T \in SUBSET S : Good(g[T], T)}
<1>2. ASSUME NEW T \in SUBSET S, \A U \in SUBSET T : U # T => U \in G
      PROVE  T \in G
  <2>1. CASE T = {}
    <3>1. g[T] = base  BY <1>1, <2>1 DEF Step
    <3> QED BY <2>1, <3>1
  <2>2. CASE T # {}
    <3> DEFINE u == Chosen(T)
               a == g[T \ {u}]
               r == Add(a, f[u])
    <3>1. u \in T  BY <2>2 DEF Chosen
    <3>2. g[T] = r  BY <1>1, <2>2 DEF Step
    <3>3. Good(a, T \ {u})  BY <1>2, <3>1
    <3>4. f[u] \in Samples /\ OfTable(tab, f[u])  BY <3>1
    <3> HIDE DEF u, a, Good
    <3>5. ASSUME NEW c \in Online PROVE a.seq[c] = 0 \/ f[u].seq[c] = 0
      <4>1. a.seq[c] = 0 \/ \E v \in T \ {u} : a.seq[c] = f[v].seq[c]
        BY <3>3 DEF Good
      <4>2. \A v \in T \ {u} : f[u].seq[c] = 0 \/ f[v].seq[c] = 0  BY <3>1
      <4> QED BY <4>1, <4>2
    <3>6. a \in Samples /\ OfTable(tab, a)  BY <3>3 DEF Good
    <3>7. /\ r \in Samples /\ OfTable(tab, r)
          /\ \A c \in Online : r.seq[c] = a.seq[c] + f[u].seq[c]
      BY <3>4, <3>5, <3>6, AddSample
    <3> HIDE DEF r
    <3>8. \A c \in Online : a.seq[c] \in Nat /\ f[u].seq[c] \in Nat
      BY <3>4, <3>6 DEF Samples, Numbers
    <3>9. ASSUME NEW c \in Online
          PROVE  \/ f[u].seq[c] = 0 /\ r.seq[c] = a.seq[c]
                 \/ a.seq[c] = 0 /\ r.seq[c] = f[u].seq[c]
      BY <3>5, <3>7, <3>8
    <3>10. ASSUME NEW c \in Online
           PROVE  r.seq[c] = 0 \/ \E v \in T : r.seq[c] = f[v].seq[c]
      <4>1. a.seq[c] = 0 \/ \E v \in T : a.seq[c] = f[v].seq[c]  BY <3>3 DEF Good
      <4> QED BY <3>1, <3>9, <4>1
    <3>11. ASSUME NEW v \in T, NEW c \in Online, f[v].seq[c] # 0
           PROVE  r.seq[c] = f[v].seq[c]
      <4>1. CASE v = u  BY <3>5, <3>9, <3>11, <4>1
      <4>2. CASE v # u
        <5>1. a.seq[c] = f[v].seq[c]  BY <3>3, <3>11, <4>2 DEF Good
        <5> QED BY <3>9, <3>11, <5>1
      <4> QED BY <4>1, <4>2
    <3> QED BY <3>2, <3>7, <3>10, <3>11 DEF Good
  <2> QED BY <2>1, <2>2
<1>3. S \in G
  <2> HIDE DEF G
  <2> QED BY <1>2, StrongInduction
<1> QED BY <1>1, <1>3

-----------------------------------------------------------------------------
(* The inductive invariant.  First the control state and the types.        *)

Window == {"check", "status", "values", "clear", "slots", "unfreeze"}
Frozen(c) == exec[c].step \in Window

\* Core c has been programmed.
Live(c) == \/ caller \in {"ready", "all", "separate"}
           \/ caller = "programming" /\ task[c] = <<>>

Execs == [step : ProgramSteps \cup ReadSteps \cup {"idle"}, unit : Units,
          ovf : SUBSET Counters, corrupted : BOOLEAN, val : [Counters -> Nat]]

Types ==
    /\ ctr \in [Cores -> [Counters -> 0 .. Modulus - 1]]
    /\ enabled \in [Cores -> BOOLEAN]
    /\ status \in [Cores -> SUBSET Counters]
    /\ evtsel \in [Cores -> {"none", "pcm", "other"}]
    /\ ctrlValue \in BOOLEAN
    /\ lastProgrammed \in [Cores -> {"none", "pcm"}]
    /\ slotsSum \in [Cores -> Nat]
    /\ task \in [Cores -> {<<>>, <<"program">>, <<"read">>}]
    /\ exec \in [Cores -> Execs]
    /\ caller \in {"start", "programming", "ready", "all", "separate"}
    /\ todo \subseteq Reads
    /\ events \in 0 .. MaxEvents
    /\ total \in [Cores -> [Counters -> Nat]] /\ at \in [Cores -> [Counters -> Nat]]
    /\ nread \in [Cores -> Nat] /\ taken \in [Cores -> Int]

\* What the caller does says what the cores may be doing.
Phase(c) ==
    /\ caller = "start" => task[c] = <<>> /\ Free(c)
    /\ caller = "programming" =>
          \/ task[c] = <<"program">> /\ exec[c].step \in ProgramSteps \cup {"idle"}
          \/ task[c] = <<>> /\ Free(c)
    /\ caller = "ready" => task[c] = <<>> /\ Free(c)
    /\ caller = "all" =>
          \/ /\ task[c] = <<"read">> /\ exec[c].step \in ReadSteps \cup {"idle"}
             /\ Free(c) \/ exec[c].unit = c
          \/ task[c] = <<>> /\ Free(c)
    /\ caller = "separate" => task[c] = <<>> /\ exec[c].step \in ReadSteps \cup {"idle"}

\* How far core c has been programmed, and by whom.
Setup(c) ==
    /\ ~Live(c) => nread[c] = 0 /\ slotsSum[c] = 0
    /\ ~Live(c) /\ exec[c].step # "enable" => evtsel[c] = "none"
    /\ exec[c].step \in {"select", "enable"} => ctr[c]["fixed"] = 0
    /\ exec[c].step = "enable" => /\ lastProgrammed[c] = "pcm" /\ evtsel[c] # "none"
                                  /\ taken[c] = -1 => ctr[c]["gen"] = 0
    /\ Live(c) => /\ ctrlValue /\ lastProgrammed[c] = "pcm" /\ evtsel[c] # "none"
                  /\ enabled[c] <=> ~Frozen(c)
    /\ evtsel[c] = "other" <=> taken[c] # -1
    /\ taken[c] >= -1 /\ taken[c] <= nread[c]
    /\ Frozen(c) => nread[c] > 0

Control == Types /\ \A c \in Online : Phase(c) /\ Setup(c)

(* Then the counters of a core and its readings.                           *)

\* The readings of core c that are complete.
Done(c) == IF Frozen(c) THEN nread[c] - 1 ELSE nread[c]

\* PCM still owns the counter.
Clean(c, k) == k = "fixed" \/ taken[c] = -1
Period(k, S) == IF k \in S THEN Modulus ELSE 0

\* What counter k of core c has counted since the last complete reading.
Since(tab, c, k) == total[c][k] - tab.true[k][c][Done(c)]

\* Register and overflow bit together account for what was counted since the
\* last reading; once they are read, the values read do.
Balance(tab, c, k) ==
    LET sum == tab.data[k][c][Done(c)] + Since(tab, c, k) IN
    /\ exec[c].step \notin {"slots", "unfreeze"} => ctr[c][k] + Period(k, status[c]) = sum
    /\ exec[c].step = "clear" => exec[c].val[k] = ctr[c][k]
    /\ exec[c].step \in {"slots", "unfreeze"} =>
          /\ k \notin status[c] /\ exec[c].val[k] = ctr[c][k]
          /\ ctr[c][k] + Period(k, exec[c].ovf) = sum

CountersOK(tab, c) ==
    /\ \A k \in Counters : Since(tab, c, k) >= 0 /\ Since(tab, c, k) <= Limit(k)
    /\ \A k \in Counters : at[c][k] = IF Frozen(c) THEN total[c][k] ELSE tab.true[k][c][Done(c)]
    /\ \A k \in Overflowing : Clean(c, k) => Balance(tab, c, k)
    /\ exec[c].step \in {"values", "clear"} => exec[c].ovf = status[c]
    /\ exec[c].step \in {"clear", "slots", "unfreeze"} =>
          \A k \in Overflowing : exec[c].val[k] < Modulus

SlotsOK(tab, c) ==
    /\ exec[c].step # "unfreeze" =>
          /\ slotsSum[c] = tab.true["slots"][c][Done(c)] % Word
          /\ ctr[c]["slots"] = Since(tab, c, "slots")
    /\ exec[c].step = "unfreeze" =>
          /\ slotsSum[c] = total[c]["slots"] % Word
          /\ exec[c].val["slots"] = slotsSum[c] /\ ctr[c]["slots"] = 0

MarkOK(c) ==
    exec[c].step \in Window \ {"check"} =>
        /\ taken[c] = -1 => ~exec[c].corrupted
        /\ taken[c] # -1 /\ taken[c] < nread[c] => exec[c].corrupted

\* The readings of core c, each compared with the one before.
Past(tab, c) ==
    \A n \in 1 .. Done(c) :
        /\ \A k \in Overflowing :
              k = "fixed" \/ taken[c] = -1 \/ n < taken[c] =>
                tab.data[k][c][n] + tab.ovf[k][c][n] * Modulus - tab.data[k][c][n - 1]
                   = tab.true[k][c][n] - tab.true[k][c][n - 1]
        /\ \A k \in Counters :
              /\ tab.true[k][c][n] - tab.true[k][c][n - 1] <= Limit(k)
              /\ \A m \in 0 .. n : tab.true[k][c][m] <= tab.true[k][c][n]
        /\ taken[c] # -1 /\ taken[c] < n => tab.marked[c][n]

(* Finally the samples.                                                    *)

Within(tab, u, s) ==
    /\ OfTable(tab, s)
    /\ \A c \in Online : s.seq[c] <= Done(c) /\ (c \notin Members(u) => s.seq[c] = 0)

SampleTypes == cur \in [Units -> Samples] /\ hist \in Seq([Units -> Samples])

SamplesOK(tab) ==
    /\ \A u \in Units : Within(tab, u, cur[u])
    /\ \A i \in 1 .. Len(hist), u \in Units : Within(tab, u, hist[i][u])

\* Later samples are made of later readings, whichever units they are about.
Ordered ==
    /\ \A i, j \in 1 .. Len(hist), u \in Units, c \in Online :
          i < j => hist[j][u].seq[c] <= hist[i][u].seq[c]
    /\ caller \in {"all", "separate"} =>
          \A i \in 1 .. Len(hist), u, v \in Units, c \in Online :
             cur[v].seq[c] # 0 => hist[i][u].seq[c] <= cur[v].seq[c]

\* Which cores are in the sample that is being put together.
Progress ==
    /\ caller \in {"all", "separate"} => Len(hist) < MaxReads
    /\ Len(hist) <= MaxReads
    /\ caller = "all" =>
          /\ \A u \in Sockets \cup {System}, c \in Online : cur[u].seq[c] = 0
          /\ \A c \in Online : cur[c].seq[c] = 0 <=> task[c] # <<>>
    /\ caller = "separate" =>
          /\ \A r \in Reads : IF r \in todo THEN cur[r[1]].seq[r[2]] = 0
                              ELSE \/ cur[r[1]].seq[r[2]] # 0
                                   \/ ~Free(r[2]) /\ exec[r[2]].unit = r[1]
          /\ \A c \in Online : ~Free(c) => /\ <<exec[c].unit, c>> \in Reads \ todo
                                           /\ cur[exec[c].unit].seq[c] = 0

\* Every slot counted is an event.
SlotsCounted == [c \in Online |-> total[c]["slots"]]
SlotsBound ==
    /\ Sum(SlotsCounted, Online) <= events
    /\ caller \in {"start", "programming"} => \A c \in Online, k \in Counters : total[c][k] = 0

CoreOK(tab, c) ==
    /\ Live(c) => CountersOK(tab, c) /\ SlotsOK(tab, c) /\ MarkOK(c)
    /\ Past(tab, c)

CoresOK(tab) == \A c \in Online : CoreOK(tab, c)

Data(tab) == TableOK(tab) /\ CoresOK(tab) /\ SamplesOK(tab)

CoreIInv ==
    /\ Control /\ SampleTypes /\ Ordered /\ Progress /\ SlotsBound
    /\ \E tab : Data(tab)

-----------------------------------------------------------------------------
(* Preservation of the control part.                                       *)

\* What the constants say about cores, sockets and units.
LEMMA Basics ==
    /\ \A c \in Online : c \in Cores /\ c \in Units /\ SocketOf[c] \in Sockets
    /\ System \in Units /\ Sockets \subseteq Units
    /\ Idle \in Execs /\ Idle.step = "idle"
    /\ {MaxReads, MaxEvents} \subseteq Nat
<1>1. \A c \in Online : c \in Cores /\ c \in Units /\ SocketOf[c] \in Sockets
    BY ConstantsAssumption DEF Units
<1>2. System \in Units /\ Sockets \subseteq Units  BY DEF Units
<1>3. Idle \in Execs /\ Idle.step = "idle"  BY <1>2 DEF Idle, Execs
<1> QED BY <1>1, <1>2, <1>3, ConstantsAssumption

\* The queue of a core, which holds one task at most.
LEMMA Tasks ==
    ASSUME NEW t \in {"program", "read"}
    PROVE  /\ Append(<<>>, t) = <<t>> /\ Tail(<<t>>) = <<>> /\ Head(<<t>>) = t /\ <<t>> # <<>>
  OBVIOUS

\* NextRead is one of the reads to be made.
LEMMA NextReadIn ==
    ASSUME todo \subseteq Reads, todo # {}
    PROVE  NextRead \in todo
<1> DEFINE U == {r[1] : r \in todo}
<1>1. \A u \in U : Rank(u) \in {1, 2, 3}
  <2>1. U \subseteq Units  BY DEF Reads
  <2>2. \A u \in Units : Rank(u) \in {1, 2, 3}  BY DEF Units, Rank
  <2> QED BY <2>1, <2>2
<1>2. \E u \in U : \A r \in todo : Rank(u) <= Rank(r[1])
  <2>1. \A r \in todo : r[1] \in U  OBVIOUS
  <2>2. U # {}  OBVIOUS
  <2> HIDE DEF U
  <2>3. CASE \E u \in U : Rank(u) = 1  BY <1>1, <2>1, <2>3
  <2>4. CASE (\A u \in U : Rank(u) # 1) /\ \E u \in U : Rank(u) = 2  BY <1>1, <2>1, <2>4
  <2>5. CASE \A u \in U : Rank(u) # 1 /\ Rank(u) # 2  BY <1>1, <2>1, <2>2, <2>5
  <2> QED BY <2>3, <2>4, <2>5
<1> DEFINE unit == CHOOSE u \in U : \A r \in todo : Rank(u) <= Rank(r[1])
<1>3. unit \in U  BY <1>2
<1>4. \E r \in todo : r[1] = unit
  <2> HIDE DEF unit
  <2> QED BY <1>3
<1>5. NextRead = CHOOSE r \in todo : r[1] = unit  BY DEF NextRead
<1> HIDE DEF unit
<1> QED BY <1>4, <1>5

\* A register is written.
LEMMA RegisterType ==
    ASSUME NEW f \in [Cores -> [Counters -> 0 .. Modulus - 1]], NEW c \in Cores,
           NEW k \in Counters, NEW v \in 0 .. Modulus - 1
    PROVE  [f EXCEPT ![c][k] = v] \in [Cores -> [Counters -> 0 .. Modulus - 1]]
  OBVIOUS

\* Writing one field of the state of a reading leaves it in its type.
LEMMA ExecStep ==
    ASSUME NEW f \in [Cores -> Execs], NEW c \in Cores,
           NEW s \in ProgramSteps \cup ReadSteps \cup {"idle"}
    PROVE  [f EXCEPT ![c].step = s] \in [Cores -> Execs]
<1>1. f[c] \in Execs  OBVIOUS
<1>2. PICK r : r = [f[c] EXCEPT !.step = s]  OBVIOUS
<1>3. r \in Execs  BY <1>1, <1>2 DEF Execs
<1>4. [f EXCEPT ![c].step = s] = [f EXCEPT ![c] = r]  BY <1>2
<1> QED BY <1>3, <1>4

\* ... and so does writing two.
LEMMA ExecFields ==
    ASSUME NEW f \in [Cores -> Execs], NEW c \in Cores,
           NEW s \in ProgramSteps \cup ReadSteps \cup {"idle"},
           NEW o \in SUBSET Counters, NEW b \in BOOLEAN, NEW v \in [Counters -> Nat]
    PROVE  /\ [f EXCEPT ![c].step = s, ![c].ovf = o] \in [Cores -> Execs]
           /\ [f EXCEPT ![c].step = s, ![c].corrupted = b] \in [Cores -> Execs]
           /\ [f EXCEPT ![c].step = s, ![c].val = v] \in [Cores -> Execs]
<1>1. PICK g \in [Cores -> Execs] : g = [f EXCEPT ![c].step = s]  BY ExecStep
<1>2. g[c] \in Execs  OBVIOUS
<1>3. PICK x : x = [g[c] EXCEPT !.ovf = o]  OBVIOUS
<1>4. PICK y : y = [g[c] EXCEPT !.corrupted = b]  OBVIOUS
<1>5. PICK z : z = [g[c] EXCEPT !.val = v]  OBVIOUS
<1>6. x \in Execs  BY <1>2, <1>3 DEF Execs
<1>7. y \in Execs  BY <1>2, <1>4 DEF Execs
<1>8. z \in Execs  BY <1>2, <1>5 DEF Execs
<1>9. [f EXCEPT ![c].step = s, ![c].ovf = o] = [g EXCEPT ![c] = x]  BY <1>1, <1>3
<1>10. [f EXCEPT ![c].step = s, ![c].corrupted = b] = [g EXCEPT ![c] = y]  BY <1>1, <1>4
<1>11. [f EXCEPT ![c].step = s, ![c].val = v] = [g EXCEPT ![c] = z]  BY <1>1, <1>5
<1> QED BY <1>6, <1>7, <1>8, <1>9, <1>10, <1>11

\* The types, at the start.
LEMMA TypesInit ==
    ASSUME Init
    PROVE  Types
<1>1. PICK v \in 0 .. Modulus - 1, o \in {{}, Counters}, e \in BOOLEAN :
          /\ ctr = [c \in Cores |-> [k \in Counters |-> v]]
          /\ status = [c \in Cores |-> o]
          /\ enabled = [c \in Cores |-> e]
    BY DEF Init
<1>2. ctr \in [Cores -> [Counters -> 0 .. Modulus - 1]]  BY <1>1
<1>3. status \in [Cores -> SUBSET Counters] /\ enabled \in [Cores -> BOOLEAN]  BY <1>1
<1>4. exec \in [Cores -> Execs]  BY Basics DEF Init
<1>5. total \in [Cores -> [Counters -> Nat]] /\ at \in [Cores -> [Counters -> Nat]]
    BY DEF Init
<1>6. events \in 0 .. MaxEvents  BY Basics DEF Init
<1>7. /\ evtsel \in [Cores -> {"none", "pcm", "other"}]
      /\ lastProgrammed \in [Cores -> {"none", "pcm"}] /\ slotsSum \in [Cores -> Nat]
      /\ nread \in [Cores -> Nat] /\ taken \in [Cores -> Int]
    BY DEF Init
<1>8. /\ task \in [Cores -> {<<>>, <<"program">>, <<"read">>}] /\ todo \subseteq Reads
      /\ caller \in {"start", "programming", "ready", "all", "separate"}
    BY DEF Init
<1>9. ctrlValue \in BOOLEAN  BY DEF Init
<1> QED BY <1>2, <1>3, <1>4, <1>5, <1>6, <1>7, <1>8, <1>9 DEF Types

\* One step of a core.
LEMMA TypesExecute ==
    ASSUME Types, NEW c \in Online, Execute(c), Phase(c)
    PROVE  Types'
<1> USE Basics
<1>0. /\ 0 \in 0 .. Modulus - 1 /\ {"fixed", "gen", "slots"} \subseteq Counters
      /\ ctr \in [Cores -> [Counters -> 0 .. Modulus - 1]]
    BY Moduli DEF Counters, Types
<1>e. exec \in [Cores -> Execs] /\ c \in Cores  BY DEF Types
<1>s. {"disable", "fixed", "select", "enable", "freeze", "check", "status", "values",
       "clear", "slots", "unfreeze", "idle"} \subseteq ProgramSteps \cup ReadSteps \cup {"idle"}
    BY DEF ProgramSteps, ReadSteps
<1>1. CASE CoreTask(c)
  <2>1. exec' \in [Cores -> Execs]
    BY <1>1 DEF CoreTask, Types, Execs, ProgramSteps, ReadSteps
  <2> QED BY <1>1, <2>1 DEF CoreTask, Types, hardware, pcm, control, ghosts
<1>2. CASE ProgramFixed(c)
  <2>1. exec' \in [Cores -> Execs]
    <3>1. \/ exec' = [exec EXCEPT ![c].step = "fixed"]
          \/ exec' = [exec EXCEPT ![c].step = "select"]
      BY <1>2 DEF ProgramFixed
    <3> QED BY <3>1, <1>e, <1>s, ExecStep
  <2>2. ctr' \in [Cores -> [Counters -> 0 .. Modulus - 1]]
    <3>1. ctr' = ctr \/ ctr' = [ctr EXCEPT ![c]["fixed"] = 0]  BY <1>2 DEF ProgramFixed
    <3>2. [ctr EXCEPT ![c]["fixed"] = 0] \in [Cores -> [Counters -> 0 .. Modulus - 1]]
      BY <1>0, <1>e, RegisterType
    <3> QED BY <1>0, <3>1, <3>2
  <2>3. enabled' \in [Cores -> BOOLEAN]
    BY <1>2 DEF ProgramFixed, Types
  <2> QED BY <1>2, <2>1, <2>2, <2>3 DEF ProgramFixed, Types, pcm, control, ghosts
<1>3. CASE ProgramSelect(c)
  <2>1. exec' \in [Cores -> Execs]
    BY <1>3, <1>e, <1>s, ExecStep DEF ProgramSelect
  <2>2. ctr' \in [Cores -> [Counters -> 0 .. Modulus - 1]]
    BY <1>0, <1>3, RegisterType DEF ProgramSelect
  <2> QED BY <1>3, <2>1, <2>2 DEF ProgramSelect, Types, control, ghosts
<1>4. CASE ProgramEnable(c)
  <2>1. exec' \in [Cores -> Execs]  BY <1>4 DEF ProgramEnable, Types
  <2>2. ctr' \in [Cores -> [Counters -> 0 .. Modulus - 1]]
    BY <1>0, <1>4, RegisterType DEF ProgramEnable
  <2>3. task' \in [Cores -> {<<>>, <<"program">>, <<"read">>}]
    <3>1. task[c] = <<"program">>
      BY <1>4 DEF ProgramEnable, Phase, Free, Types, ReadSteps
    <3>2. Tail(task[c]) = <<>>  BY <3>1, Tasks
    <3> QED BY <1>4, <3>2 DEF ProgramEnable, Types
  <2>4. /\ total' \in [Cores -> [Counters -> Nat]] /\ at' \in [Cores -> [Counters -> Nat]]
        /\ status' \in [Cores -> SUBSET Counters] /\ enabled' \in [Cores -> BOOLEAN]
    BY <1>4 DEF ProgramEnable, Types
  <2> QED BY <1>4, <2>1, <2>2, <2>3, <2>4 DEF ProgramEnable, Types
<1>5. CASE Freeze(c)
  <2>1. exec' \in [Cores -> Execs]
    BY <1>5, <1>e, <1>s, ExecStep DEF Freeze
  <2>2. at' \in [Cores -> [Counters -> Nat]] /\ nread' \in [Cores -> Nat]
    BY <1>5 DEF Freeze, Types
  <2>3. enabled' \in [Cores -> BOOLEAN]  BY <1>5 DEF Freeze, Types
  <2> QED BY <1>5, <2>1, <2>2, <2>3 DEF Freeze, Types, pcm, control
<1>6. CASE CheckCustomCoreProgramming(c)
  <2>1. exec' \in [Cores -> Execs]
    <3>1. PICK b \in BOOLEAN : b = (evtsel[c] # lastProgrammed[c])  OBVIOUS
    <3>2. exec' = [exec EXCEPT ![c].step = "status", ![c].corrupted = b]
      BY <1>6, <3>1 DEF CheckCustomCoreProgramming
    <3>3. {} \in SUBSET Counters /\ [k \in Counters |-> 0] \in [Counters -> Nat]  OBVIOUS
    <3>4. [exec EXCEPT ![c].step = "status", ![c].corrupted = TRUE] \in [Cores -> Execs]
      BY <3>3, <1>e, <1>s, ExecFields
    <3>5. [exec EXCEPT ![c].step = "status", ![c].corrupted = FALSE] \in [Cores -> Execs]
      BY <3>3, <1>e, <1>s, ExecFields
    <3>6. b = TRUE \/ b = FALSE  BY <3>1
    <3> QED BY <3>2, <3>4, <3>5, <3>6
  <2> QED BY <1>6, <2>1 DEF CheckCustomCoreProgramming, Types, hardware, pcm, control, ghosts
<1>7. CASE ReadOverflows(c)
  <2>1. exec' \in [Cores -> Execs]
    <3>1. status[c] \in SUBSET Counters /\ TRUE \in BOOLEAN
          /\ [k \in Counters |-> 0] \in [Counters -> Nat]
      BY <1>e DEF Types
    <3>2. exec' = [exec EXCEPT ![c].step = "values", ![c].ovf = status[c]]
      BY <1>7 DEF ReadOverflows
    <3> QED BY <3>1, <3>2, <1>e, <1>s, ExecFields
  <2> QED BY <1>7, <2>1 DEF ReadOverflows, Types, hardware, pcm, control, ghosts
<1>8. CASE ReadValues(c)
  <2>1. [k \in Counters |-> IF k \in Overflowing THEN ctr[c][k] ELSE 0] \in [Counters -> Nat]
    BY Moduli DEF Types
  <2>2. exec' \in [Cores -> Execs]
    <3>1. PICK v \in [Counters -> Nat] :
             v = [k \in Counters |-> IF k \in Overflowing THEN ctr[c][k] ELSE 0]
      BY <2>1
    <3>2. exec' = [exec EXCEPT ![c].step = "clear", ![c].val = v]  BY <1>8, <3>1 DEF ReadValues
    <3>3. {} \in SUBSET Counters /\ TRUE \in BOOLEAN  OBVIOUS
    <3> QED BY <3>2, <3>3, <1>e, <1>s, ExecFields
  <2> QED BY <1>8, <2>2 DEF ReadValues, Types, hardware, pcm, control, ghosts
<1>9. CASE ClearOverflows(c)
  <2>1. exec' \in [Cores -> Execs]
    BY <1>9, <1>e, <1>s, ExecStep DEF ClearOverflows
  <2> QED BY <1>9, <2>1 DEF ClearOverflows, Types, pcm, control, ghosts
<1>10. CASE ReadSlots(c)
  <2>1. slotsSum' \in [Cores -> Nat] /\ slotsSum'[c] \in Nat
    <3>1. slotsSum[c] \in Nat /\ ctr[c]["slots"] \in Nat  BY Moduli DEF Types, Counters
    <3>2. PICK x \in Nat : x = slotsSum[c] + ctr[c]["slots"]  BY <3>1
    <3>3. PICK y \in Nat : y = x % Word  BY Moduli, ModRange
    <3> QED BY <1>10, <3>2, <3>3 DEF ReadSlots, Types
  <2>2. exec' \in [Cores -> Execs]
    <3>1. PICK v \in Nat : v = slotsSum'[c]  BY <2>1
    <3>2. exec' = [exec EXCEPT ![c].step = "unfreeze", ![c].val["slots"] = v]
      BY <1>10, <3>1 DEF ReadSlots
    <3>3. exec \in [Cores -> Execs] /\ "slots" \in Counters  BY <1>0 DEF Types
    <3>4. exec[c].val \in [Counters -> Nat] /\ exec[c] \in Execs  BY <3>3 DEF Execs
    <3>5. [exec[c].val EXCEPT !["slots"] = v] \in [Counters -> Nat]  BY <3>4
    <3>6. exec' = [exec EXCEPT ![c] = [exec[c] EXCEPT !.step = "unfreeze",
                                         !.val = [exec[c].val EXCEPT !["slots"] = v]]]
      BY <3>2, <3>3
    <3>7. exec'[c] \in Execs
      BY <3>3, <3>4, <3>5, <3>6 DEF Execs, ProgramSteps, ReadSteps
    <3> QED BY <3>3, <3>6, <3>7
  <2>3. ctr' \in [Cores -> [Counters -> 0 .. Modulus - 1]]
    BY <1>0, <1>10, RegisterType DEF ReadSlots
  <2> QED BY <1>10, <2>1, <2>2, <2>3 DEF ReadSlots, Types, control, ghosts
<1>11. CASE Unfreeze(c)
  <2>1. exec' \in [Cores -> Execs]  BY <1>11 DEF Unfreeze, Types
  <2>2. task' \in [Cores -> {<<>>, <<"program">>, <<"read">>}]
    <3>1. (IF task[c] = <<>> THEN task[c] ELSE Tail(task[c])) = <<>>  BY Tasks DEF Types
    <3> QED BY <1>11, <3>1 DEF Unfreeze, Types
  <2>3. enabled' \in [Cores -> BOOLEAN]  BY <1>11 DEF Unfreeze, Types
  <2> QED BY <1>11, <2>1, <2>2, <2>3 DEF Unfreeze, Types, pcm, ghosts
<1> QED BY <1>1, <1>2, <1>3, <1>4, <1>5, <1>6, <1>7, <1>8, <1>9, <1>10, <1>11 DEF Execute

\* Events, other programs and the calling thread.
LEMMA TypesOthers ==
    ASSUME Types, \A c \in Online : Phase(c),
           \/ \E c \in Online : Corrupt(c) \/ \E k \in Counters : Count(c, k)
           \/ StartProgram \/ StartReadAll \/ StartReadSeparately
           \/ Programmed \/ ReadAllDone \/ DirectRead \/ ReadSeparatelyDone
    PROVE  Types'
<1> USE Basics
<1>1. ASSUME NEW c \in Online, Corrupt(c) PROVE Types'
  <2>1. ctr' \in [Cores -> [Counters -> 0 .. Modulus - 1]]
    <3>1. PICK v \in 0 .. Modulus - 1 : ctr' = [ctr EXCEPT ![c]["gen"] = v]
      BY <1>1 DEF Corrupt
    <3>2. "gen" \in Counters /\ ctr \in [Cores -> [Counters -> 0 .. Modulus - 1]]
      BY DEF Counters, Types
    <3> QED BY <3>1, <3>2, RegisterType
  <2>2. events' \in 0 .. MaxEvents  BY <1>1 DEF Corrupt, MoreEvents, Types
  <2>3. taken' \in [Cores -> Int] /\ evtsel' \in [Cores -> {"none", "pcm", "other"}]
    BY <1>1 DEF Corrupt, Types
  <2> QED BY <1>1, <2>1, <2>2, <2>3 DEF Corrupt, Types, pcm, control
<1>2. ASSUME NEW c \in Online, NEW k \in Counters, Count(c, k) PROVE Types'
  <2>1. ctr' \in [Cores -> [Counters -> 0 .. Modulus - 1]]
    <3>1. ctr \in [Cores -> [Counters -> 0 .. Modulus - 1]]  BY DEF Types
    <3>2. PICK x \in Int : x = ctr[c][k] + 1  BY <3>1
    <3>3. PICK v \in 0 .. Modulus - 1 : v = x % Modulus  BY Moduli, ModRange
    <3>4. ctr' = [ctr EXCEPT ![c][k] = v]  BY <1>2, <3>2, <3>3 DEF Count
    <3> QED BY <3>1, <3>4, RegisterType
  <2>2. events' \in 0 .. MaxEvents
    <3>1. events < MaxEvents /\ events' = events + 1  BY <1>2 DEF Count, MoreEvents
    <3>2. events \in 0 .. MaxEvents  BY DEF Types
    <3> QED BY <3>1, <3>2
  <2>3. total' \in [Cores -> [Counters -> Nat]]
    <3>1. total' = [total EXCEPT ![c][k] = total[c][k] + 1]  BY <1>2 DEF Count
    <3>2. total \in [Cores -> [Counters -> Nat]]  BY DEF Types
    <3> QED BY <3>1, <3>2
  <2>4. status' \in [Cores -> SUBSET Counters]
    <3>1. status' = [status EXCEPT ![c] = IF ctr[c][k] = Modulus - 1
                                          THEN status[c] \cup {k} ELSE status[c]]
      BY <1>2 DEF Count
    <3>2. status \in [Cores -> SUBSET Counters]  BY DEF Types
    <3> QED BY <3>1, <3>2
  <2> QED BY <1>2, <2>1, <2>2, <2>3, <2>4 DEF Count, Types, pcm, control
<1>3. CASE StartProgram
  <2>1. task' \in [Cores -> {<<>>, <<"program">>, <<"read">>}]
    <3>1. \A c \in Online : Append(task[c], "program") = <<"program">>
      BY <1>3, Tasks DEF StartProgram, Phase
    <3> QED BY <1>3, <3>1 DEF StartProgram, PushTasks, Types
  <2>2. ctrlValue' \in BOOLEAN  BY <1>3 DEF StartProgram
  <2> QED BY <1>3, <2>1, <2>2 DEF StartProgram, Types, hardware, ghosts
<1>4. CASE StartReadAll
  <2>1. task' \in [Cores -> {<<>>, <<"program">>, <<"read">>}]
    <3>1. \A c \in Online : Append(task[c], "read") = <<"read">>
      BY <1>4, Tasks DEF StartReadAll, Phase
    <3> QED BY <1>4, <3>1 DEF StartReadAll, PushTasks, Types
  <2> QED BY <1>4, <2>1 DEF StartReadAll, Types, hardware, pcm, ghosts
<1>5. CASE StartReadSeparately
    BY <1>5 DEF StartReadSeparately, Types, hardware, pcm, ghosts
<1>6. CASE Programmed
    BY <1>6 DEF Programmed, Types, hardware, pcm, ghosts
<1>7. CASE ReadAllDone
    BY <1>7 DEF ReadAllDone, Types, hardware, pcm, ghosts
<1>8. CASE DirectRead
  <2>1. NextRead \in todo /\ todo \subseteq Reads  BY <1>8, NextReadIn DEF DirectRead, Types
  <2>2. NextRead[2] \in Online /\ NextRead[1] \in Units  BY <2>1 DEF Reads
  <2>3. [Idle EXCEPT !.step = "freeze", !.unit = NextRead[1]] \in Execs
    BY <2>2 DEF Execs, ReadSteps
  <2>4. exec' \in [Cores -> Execs] /\ todo' \subseteq Reads
    BY <1>8, <2>1, <2>2, <2>3 DEF DirectRead, Types
  <2> QED BY <1>8, <2>4 DEF DirectRead, Types, hardware, pcm, ghosts
<1>9. CASE ReadSeparatelyDone
    BY <1>9 DEF ReadSeparatelyDone, Types, hardware, pcm, ghosts
<1> QED BY <1>1, <1>2, <1>3, <1>4, <1>5, <1>6, <1>7, <1>8, <1>9

\* A step that does not concern core d.
Same(d) ==
    /\ ctr'[d] = ctr[d] /\ enabled'[d] = enabled[d] /\ status'[d] = status[d]
    /\ evtsel'[d] = evtsel[d] /\ lastProgrammed'[d] = lastProgrammed[d]
    /\ slotsSum'[d] = slotsSum[d] /\ task'[d] = task[d] /\ exec'[d] = exec[d]
    /\ total'[d] = total[d] /\ at'[d] = at[d] /\ nread'[d] = nread[d] /\ taken'[d] = taken[d]
    /\ caller' = caller /\ (ctrlValue => ctrlValue')

\* A step of core c, or an event on it, leaves the other cores alone.
LEMMA OtherCores ==
    ASSUME Types, NEW c \in Online, NEW d \in Online, d # c,
           Execute(c) \/ Corrupt(c) \/ \E k \in Counters : Count(c, k)
    PROVE  Same(d)
<1> USE Basics
<1>1. CASE CoreTask(c)
    BY <1>1 DEF CoreTask, Types, Same, hardware, pcm, control, ghosts
<1>2. CASE ProgramFixed(c)
    BY <1>2 DEF ProgramFixed, Types, Same, pcm, control, ghosts
<1>3. CASE ProgramSelect(c)
    BY <1>3 DEF ProgramSelect, Types, Same, control, ghosts
<1>4. CASE ProgramEnable(c)
    BY <1>4 DEF ProgramEnable, Types, Same
<1>5. CASE Freeze(c)
    BY <1>5 DEF Freeze, Types, Same, pcm, control
<1>6. CASE CheckCustomCoreProgramming(c)
    BY <1>6 DEF CheckCustomCoreProgramming, Types, Same, hardware, pcm, control, ghosts
<1>7. CASE ReadOverflows(c)
    BY <1>7 DEF ReadOverflows, Types, Same, hardware, pcm, control, ghosts
<1>8. CASE ReadValues(c)
    BY <1>8 DEF ReadValues, Types, Same, hardware, pcm, control, ghosts
<1>9. CASE ClearOverflows(c)
    BY <1>9 DEF ClearOverflows, Types, Same, pcm, control, ghosts
<1>10. CASE ReadSlots(c)
    BY <1>10 DEF ReadSlots, Types, Same, control, ghosts
<1>11. CASE Unfreeze(c)
    BY <1>11 DEF Unfreeze, Types, Same, pcm, ghosts
<1>12. CASE Corrupt(c)
  <2>1. ctr'[d] = ctr[d]  BY <1>12 DEF Corrupt, Types
  <2> QED BY <1>12, <2>1 DEF Corrupt, Types, Same, pcm, control
<1>13. ASSUME NEW k \in Counters, Count(c, k) PROVE Same(d)
  <2>1. ctr'[d] = ctr[d] /\ status'[d] = status[d] /\ total'[d] = total[d]
    BY <1>13 DEF Count, Types
  <2> QED BY <1>13, <2>1 DEF Count, Types, Same, pcm, control
<1> QED BY <1>1, <1>2, <1>3, <1>4, <1>5, <1>6, <1>7, <1>8, <1>9, <1>10, <1>11, <1>12, <1>13
        DEF Execute

\* What does not concern a core preserves what is known of its control state.
LEMMA SameControl ==
    ASSUME NEW d \in Online, Same(d), Phase(d), Setup(d)
    PROVE  Phase(d)' /\ Setup(d)'
<1>1. Phase(d)'  BY DEF Same, Phase, Free
<1>2. (Live(d) <=> Live(d)') /\ (Frozen(d) <=> Frozen(d)')  BY DEF Same, Live, Frozen
<1>3. Setup(d)'  BY <1>2 DEF Same, Setup
<1> QED BY <1>1, <1>3

\* The core that takes the step.  Before this step it was live, and after it.
LEMMA OwnPhase ==
    ASSUME Types, NEW c \in Online, Execute(c), Phase(c)
    PROVE  Phase(c)' /\ caller' = caller
<1> USE Basics DEF Phase, Free, ProgramSteps, ReadSteps
<1>1. CASE CoreTask(c)
  <2>1. task' = task /\ caller' = caller /\ task[c] # <<>>  BY <1>1 DEF CoreTask, control
  <2>2. exec'[c].step = IF Head(task[c]) = "program" THEN "disable" ELSE "freeze"
    BY <1>1 DEF CoreTask, Types, Idle
  <2>3. exec'[c].unit = c  BY <1>1 DEF CoreTask, Types, Idle
  <2> QED BY <1>1, <2>1, <2>2, <2>3, Tasks DEF CoreTask
<1>2. CASE ProgramFixed(c)
  <2>1. task' = task /\ caller' = caller  BY <1>2 DEF ProgramFixed, pcm, control, ghosts
  <2>2. exec'[c].unit = exec[c].unit
    <3>1. exec[c] \in Execs /\ exec \in [Cores -> Execs]  BY DEF Types
    <3>2. CASE exec' = [exec EXCEPT ![c].step = "fixed"]  BY <3>1, <3>2 DEF Execs
    <3>3. CASE exec' = [exec EXCEPT ![c].step = "select"]  BY <3>1, <3>3 DEF Execs
    <3> QED BY <1>2, <3>2, <3>3 DEF ProgramFixed
  <2>3. exec'[c].step # "idle" /\ (exec'[c].step \in ProgramSteps <=> exec[c].step \in ProgramSteps)
    BY <1>2 DEF ProgramFixed, Types, Execs
  <2>4. exec'[c].step \in ProgramSteps \cup ReadSteps  BY <1>2 DEF ProgramFixed, Types, Execs
  <2> QED BY <1>2, <2>1, <2>2, <2>3, <2>4 DEF ProgramFixed
<1>3. CASE ProgramSelect(c)
  <2>1. task' = task /\ caller' = caller  BY <1>3 DEF ProgramSelect, control, ghosts
  <2>2. exec'[c].unit = exec[c].unit  BY <1>3 DEF ProgramSelect, Types, Execs
  <2>3. exec'[c].step # "idle" /\ (exec'[c].step \in ProgramSteps <=> exec[c].step \in ProgramSteps)
    BY <1>3 DEF ProgramSelect, Types, Execs
  <2>4. exec'[c].step \in ProgramSteps \cup ReadSteps  BY <1>3 DEF ProgramSelect, Types, Execs
  <2> QED BY <1>3, <2>1, <2>2, <2>3, <2>4 DEF ProgramSelect
<1>4. CASE ProgramEnable(c)
  <2>1. exec'[c].step = "idle" /\ caller' = caller  BY <1>4 DEF ProgramEnable, Types
  <2>2. task'[c] = <<>>  BY <1>4, Tasks DEF ProgramEnable, Types
  <2> QED BY <1>4, <2>1, <2>2 DEF ProgramEnable
<1>5. CASE Freeze(c)
  <2>1. task' = task /\ caller' = caller  BY <1>5 DEF Freeze, pcm, control
  <2>2. exec'[c].unit = exec[c].unit  BY <1>5 DEF Freeze, Types, Execs
  <2>3. exec'[c].step # "idle" /\ (exec'[c].step \in ProgramSteps <=> exec[c].step \in ProgramSteps)
    BY <1>5 DEF Freeze, Types, Execs
  <2>4. exec'[c].step \in ProgramSteps \cup ReadSteps  BY <1>5 DEF Freeze, Types, Execs
  <2> QED BY <1>5, <2>1, <2>2, <2>3, <2>4 DEF Freeze
<1>6. CASE CheckCustomCoreProgramming(c)
  <2>1. task' = task /\ caller' = caller  BY <1>6 DEF CheckCustomCoreProgramming, hardware, pcm, control, ghosts
  <2>2. exec'[c].unit = exec[c].unit  BY <1>6 DEF CheckCustomCoreProgramming, Types, Execs
  <2>3. exec'[c].step # "idle" /\ (exec'[c].step \in ProgramSteps <=> exec[c].step \in ProgramSteps)
    BY <1>6 DEF CheckCustomCoreProgramming, Types, Execs
  <2>4. exec'[c].step \in ProgramSteps \cup ReadSteps  BY <1>6 DEF CheckCustomCoreProgramming, Types, Execs
  <2> QED BY <1>6, <2>1, <2>2, <2>3, <2>4 DEF CheckCustomCoreProgramming
<1>7. CASE ReadOverflows(c)
  <2>1. task' = task /\ caller' = caller  BY <1>7 DEF ReadOverflows, hardware, pcm, control, ghosts
  <2>2. exec'[c].unit = exec[c].unit  BY <1>7 DEF ReadOverflows, Types, Execs
  <2>3. exec'[c].step # "idle" /\ (exec'[c].step \in ProgramSteps <=> exec[c].step \in ProgramSteps)
    BY <1>7 DEF ReadOverflows, Types, Execs
  <2>4. exec'[c].step \in ProgramSteps \cup ReadSteps  BY <1>7 DEF ReadOverflows, Types, Execs
  <2> QED BY <1>7, <2>1, <2>2, <2>3, <2>4 DEF ReadOverflows
<1>8. CASE ReadValues(c)
  <2>1. task' = task /\ caller' = caller  BY <1>8 DEF ReadValues, hardware, pcm, control, ghosts
  <2>2. exec'[c].unit = exec[c].unit  BY <1>8 DEF ReadValues, Types, Execs
  <2>3. exec'[c].step # "idle" /\ (exec'[c].step \in ProgramSteps <=> exec[c].step \in ProgramSteps)
    BY <1>8 DEF ReadValues, Types, Execs
  <2>4. exec'[c].step \in ProgramSteps \cup ReadSteps  BY <1>8 DEF ReadValues, Types, Execs
  <2> QED BY <1>8, <2>1, <2>2, <2>3, <2>4 DEF ReadValues
<1>9. CASE ClearOverflows(c)
  <2>1. task' = task /\ caller' = caller  BY <1>9 DEF ClearOverflows, pcm, control, ghosts
  <2>2. exec'[c].unit = exec[c].unit  BY <1>9 DEF ClearOverflows, Types, Execs
  <2>3. exec'[c].step # "idle" /\ (exec'[c].step \in ProgramSteps <=> exec[c].step \in ProgramSteps)
    BY <1>9 DEF ClearOverflows, Types, Execs
  <2>4. exec'[c].step \in ProgramSteps \cup ReadSteps  BY <1>9 DEF ClearOverflows, Types, Execs
  <2> QED BY <1>9, <2>1, <2>2, <2>3, <2>4 DEF ClearOverflows
<1>10. CASE ReadSlots(c)
  <2>1. task' = task /\ caller' = caller  BY <1>10 DEF ReadSlots, control, ghosts
  <2>2. exec'[c].unit = exec[c].unit  BY <1>10 DEF ReadSlots, Types, Execs
  <2>3. exec'[c].step # "idle" /\ (exec'[c].step \in ProgramSteps <=> exec[c].step \in ProgramSteps)
    BY <1>10 DEF ReadSlots, Types, Execs
  <2>4. exec'[c].step \in ProgramSteps \cup ReadSteps  BY <1>10 DEF ReadSlots, Types, Execs
  <2> QED BY <1>10, <2>1, <2>2, <2>3, <2>4 DEF ReadSlots
<1>11. CASE Unfreeze(c)
  <2>1. exec'[c].step = "idle" /\ caller' = caller  BY <1>11 DEF Unfreeze, Types, pcm, ghosts
  <2>2. task'[c] = <<>>  BY <1>11, Tasks DEF Unfreeze, Types, pcm, ghosts
  <2> QED BY <1>11, <2>1, <2>2 DEF Unfreeze
<1> QED BY <1>1, <1>2, <1>3, <1>4, <1>5, <1>6, <1>7, <1>8, <1>9, <1>10, <1>11 DEF Execute

\* The core that takes the step: how far it has been programmed.
LEMMA OwnSetup ==
    ASSUME Types, NEW c \in Online, Phase(c), Setup(c), Execute(c)
    PROVE  Setup(c)'
<1> USE Basics DEF Setup, Live, Frozen, Window
<1>1. CASE CoreTask(c)
  <2>1. UNCHANGED <<hardware, pcm, control, ghosts>> /\ exec[c].step = "idle"
    BY <1>1 DEF CoreTask, Free
  <2>2. exec'[c].step \in {"disable", "freeze"}  BY <1>1 DEF CoreTask, Types, Idle
  <2> QED BY <2>1, <2>2 DEF hardware, pcm, control, ghosts
<1>2. CASE ProgramFixed(c)
  <2>0. exec[c] \in Execs /\ exec \in [Cores -> Execs] /\ UNCHANGED <<evtsel, pcm, control, ghosts>>
    BY <1>2 DEF Types, ProgramFixed
  <2>1. \/ exec[c].step = "disable" /\ exec'[c].step = "fixed"
        \/ exec[c].step = "fixed" /\ exec'[c].step = "select" /\ ctr'[c]["fixed"] = 0
    <3>1. CASE exec[c].step = "disable" /\ exec' = [exec EXCEPT ![c].step = "fixed"]
      BY <2>0, <3>1 DEF Execs
    <3>2. CASE exec[c].step = "fixed" /\ exec' = [exec EXCEPT ![c].step = "select"]
               /\ ctr' = [ctr EXCEPT ![c]["fixed"] = 0]
      <4>1. ctr'[c]["fixed"] = 0  BY <3>2 DEF Types, Counters
      <4>2. exec'[c].step = "select"  BY <2>0, <3>2 DEF Execs
      <4> QED BY <3>2, <4>1, <4>2
    <3> QED BY <1>2, <3>1, <3>2 DEF ProgramFixed
  <2>2. ~Live(c)
    <3>1. exec[c].step \in {"disable", "fixed"}  BY <2>1
    <3> QED BY <3>1, Tasks DEF Phase, Free, ReadSteps, Types
  <2> QED BY <2>0, <2>1, <2>2 DEF pcm, control, ghosts
<1>3. CASE ProgramSelect(c)
  <2>1. /\ UNCHANGED <<enabled, status, ctrlValue, slotsSum, control, ghosts>>
        /\ exec[c].step = "select" /\ exec'[c].step = "enable"
        /\ evtsel'[c] = "pcm" /\ lastProgrammed'[c] = "pcm"
    BY <1>3 DEF ProgramSelect, Types, Execs
  <2>4. ctr'[c]["fixed"] = ctr[c]["fixed"] /\ ctr'[c]["gen"] = 0
    BY <1>3 DEF ProgramSelect, Types, Counters
  <2>2. ~Live(c)  BY <2>1, Tasks DEF Phase, Free, ReadSteps, Types
  <2>3. evtsel[c] = "none"  BY <2>1, <2>2
  <2>5. taken[c] = -1  BY <2>3
  <2> QED BY <2>1, <2>2, <2>4, <2>5 DEF control, ghosts
<1>4. CASE ProgramEnable(c)
  <2>1. /\ UNCHANGED <<evtsel, lastProgrammed, slotsSum, caller, nread, taken>>
        /\ exec[c].step = "enable" /\ exec'[c].step = "idle"
        /\ ctrlValue' /\ enabled'[c]
    BY <1>4 DEF ProgramEnable, Types
  <2>2. caller = "programming" /\ task'[c] = <<>>
    BY <1>4, <2>1, Tasks DEF ProgramEnable, Phase, Free, ReadSteps, Types
  <2> QED BY <2>1, <2>2
<1>5. CASE Freeze(c)
  <2>1. /\ UNCHANGED <<ctr, status, evtsel, pcm, control, taken>>
        /\ exec[c].step = "freeze" /\ exec'[c].step = "check"
        /\ nread'[c] = nread[c] + 1 /\ nread[c] \in Nat /\ taken[c] \in Int
    BY <1>5 DEF Freeze, Types, Execs
  <2>2. Live(c)  BY <2>1 DEF Phase, Free, ProgramSteps, Types
  <2>3. ~enabled'[c]  BY <1>5, <2>2 DEF Freeze, Types
  <2>4. /\ ctrlValue /\ lastProgrammed[c] = "pcm" /\ evtsel[c] # "none"
        /\ evtsel[c] = "other" <=> taken[c] # -1
        /\ taken[c] >= -1 /\ taken[c] <= nread[c]
    BY <2>2
  <2>5. Live(c)' /\ Frozen(c)'  BY <2>1, <2>2 DEF control
  <2> QED BY <2>1, <2>3, <2>4, <2>5 DEF pcm, control
<1>6. ASSUME UNCHANGED <<hardware, pcm, control, ghosts>>, exec[c].step \in Window,
             exec'[c].step \in Window
      PROVE  Setup(c)'
    BY <1>6 DEF hardware, pcm, control, ghosts
<1>7. CASE CheckCustomCoreProgramming(c)
    BY <1>6, <1>7 DEF CheckCustomCoreProgramming, Types, Execs
<1>8. CASE ReadOverflows(c)
    BY <1>6, <1>8 DEF ReadOverflows, Types, Execs
<1>9. CASE ReadValues(c)
    BY <1>6, <1>9 DEF ReadValues, Types, Execs
<1>10. CASE ClearOverflows(c)
  <2>1. /\ UNCHANGED <<ctr, enabled, evtsel, pcm, control, ghosts>>
        /\ exec[c].step = "clear" /\ exec'[c].step = "slots"
    BY <1>10 DEF ClearOverflows, Types, Execs
  <2> QED BY <2>1 DEF pcm, control, ghosts
<1>11. CASE ReadSlots(c)
  <2>1. /\ UNCHANGED <<enabled, evtsel, ctrlValue, lastProgrammed, control, ghosts>>
        /\ exec[c].step = "slots" /\ exec'[c].step = "unfreeze"
    BY <1>11 DEF ReadSlots, Types, Execs
  <2>2. Live(c)  BY <2>1 DEF Phase, Free, ProgramSteps, Types
  <2> QED BY <2>1, <2>2 DEF control, ghosts
<1>12. CASE Unfreeze(c)
  <2>1. /\ UNCHANGED <<ctr, status, evtsel, pcm, caller, ghosts>>
        /\ exec[c].step = "unfreeze" /\ exec'[c].step = "idle"
    BY <1>12 DEF Unfreeze, Types
  <2>2. caller \in {"all", "separate"}  BY <2>1 DEF Phase, Free, ProgramSteps, Types
  <2>3. enabled'[c]  BY <1>12, <2>2 DEF Unfreeze, Types
  <2> QED BY <2>1, <2>2, <2>3 DEF pcm, ghosts
<1> QED BY <1>1, <1>2, <1>3, <1>4, <1>5, <1>7, <1>8, <1>9, <1>10, <1>11, <1>12 DEF Execute

\* Events and other programs on core c.
LEMMA EventControl ==
    ASSUME Types, NEW c \in Online, Phase(c), Setup(c),
           Corrupt(c) \/ \E k \in Counters : Count(c, k)
    PROVE  Phase(c)' /\ Setup(c)'
<1> USE Basics DEF Setup, Live, Frozen
<1>1. CASE Corrupt(c)
  <2>1. /\ UNCHANGED <<enabled, pcm, control, exec, nread>>
        /\ evtsel[c] = "pcm" /\ evtsel'[c] = "other" /\ taken'[c] = nread[c]
        /\ nread[c] \in Nat
    BY <1>1 DEF Corrupt, Types
  <2>2. ctr'[c]["fixed"] = ctr[c]["fixed"]  BY <1>1 DEF Corrupt, Types, Counters
  <2>3. Phase(c)'  BY <2>1 DEF Phase, Free, control
  <2>4. Setup(c)'  BY <2>1, <2>2 DEF pcm, control
  <2> QED BY <2>3, <2>4
<1>2. ASSUME NEW k \in Counters, Count(c, k) PROVE Phase(c)' /\ Setup(c)'
  <2>1. /\ UNCHANGED <<enabled, evtsel, pcm, control, exec, nread, taken>>
        /\ caller \notin {"start", "programming"}
    BY <1>2 DEF Count
  <2>2. exec[c].step \notin {"select", "enable"}
    BY <2>1 DEF Phase, Free, ReadSteps, Types
  <2>3. Phase(c)'  BY <2>1 DEF Phase, Free, control
  <2>4. Setup(c)'  BY <2>1, <2>2 DEF pcm, control
  <2> QED BY <2>3, <2>4
<1> QED BY <1>1, <1>2

\* The calling thread.
LEMMA CallerControl ==
    ASSUME Types, \A c \in Online : Phase(c) /\ Setup(c),
           \/ StartProgram \/ StartReadAll \/ StartReadSeparately
           \/ Programmed \/ ReadAllDone \/ DirectRead \/ ReadSeparatelyDone,
           NEW d \in Online
    PROVE  Phase(d)' /\ Setup(d)'
<1> USE Basics DEF Setup, Live, Frozen
<1>1. CASE StartProgram
  <2>1. /\ UNCHANGED <<hardware, slotsSum, exec, ghosts>>
        /\ caller = "start" /\ caller' = "programming"
    BY <1>1 DEF StartProgram
  <2>2. task'[d] = <<"program">> /\ <<"program">> # <<>>
    BY <1>1, Tasks DEF StartProgram, PushTasks, Phase
  <2>3. exec[d].step = "idle"  BY <2>1 DEF Phase, Free
  <2>4. Phase(d)'  BY <2>1, <2>2, <2>3 DEF Phase, Free
  <2>5. Setup(d)'  BY <2>1, <2>2, <2>3 DEF hardware, ghosts
  <2> QED BY <2>4, <2>5
<1>2. CASE StartReadAll
  <2>1. /\ UNCHANGED <<hardware, pcm, exec, ghosts>>
        /\ caller = "ready" /\ caller' = "all"
    BY <1>2 DEF StartReadAll
  <2>2. task'[d] = <<"read">>
    BY <1>2, Tasks DEF StartReadAll, PushTasks, Phase
  <2>3. exec[d].step = "idle"  BY <2>1 DEF Phase, Free
  <2>4. Phase(d)'  BY <2>1, <2>2, <2>3 DEF Phase, Free
  <2>5. Setup(d)'  BY <2>1, <2>3 DEF hardware, pcm, ghosts
  <2> QED BY <2>4, <2>5
<1>3. CASE StartReadSeparately \/ Programmed \/ ReadAllDone \/ ReadSeparatelyDone
  <2>1. /\ UNCHANGED <<hardware, pcm, task, exec, ghosts>>
        /\ task[d] = <<>> /\ exec[d].step = "idle"
        /\ caller' \in {"ready", "separate"} /\ caller # "start"
    BY <1>3 DEF StartReadSeparately, Programmed, ReadAllDone, ReadSeparatelyDone, AllDone,
                Free, Phase
  <2>2. Phase(d)'  BY <2>1 DEF Phase, Free
  <2>3. Live(d)  BY <2>1 DEF Types
  <2>4. Setup(d)'  BY <2>1, <2>3 DEF hardware, pcm, ghosts
  <2> QED BY <2>2, <2>4
<1>4. CASE DirectRead
  <2>1. /\ UNCHANGED <<hardware, pcm, task, caller, ghosts>> /\ caller = "separate"
        /\ exec[d].step = "idle"
    BY <1>4 DEF DirectRead, AllDone, Free
  <2>2. NextRead[2] \in Online
    BY <1>4, NextReadIn DEF DirectRead, Types, Reads
  <2>3. exec'[d].step \in {"idle", "freeze"}
    BY <1>4, <2>1, <2>2 DEF DirectRead, Types, Idle
  <2>4. Phase(d)'  BY <2>1, <2>3 DEF Phase, Free, ReadSteps
  <2>5. Setup(d)'  BY <2>1, <2>3 DEF hardware, pcm, ghosts, Window
  <2> QED BY <2>4, <2>5
<1> QED BY <1>1, <1>2, <1>3, <1>4

\* The control part of the invariant holds at the start ...
LEMMA ControlInit ==
    ASSUME Init
    PROVE  Control
<1>1. Types  BY TypesInit
<1>2. ASSUME NEW c \in Online PROVE Phase(c) /\ Setup(c)
  <2>1. /\ caller = "start" /\ task[c] = <<>> /\ exec[c].step = "idle"
        /\ evtsel[c] = "none" /\ taken[c] = -1 /\ nread[c] = 0 /\ slotsSum[c] = 0
    BY Basics DEF Init
  <2>2. Phase(c)  BY <2>1 DEF Phase, Free
  <2>3. Setup(c)  BY <2>1 DEF Setup, Live, Frozen, Window
  <2> QED BY <2>2, <2>3
<1> QED BY <1>1, <1>2 DEF Control

\* ... and every step preserves it.
LEMMA ControlNext ==
    ASSUME Control, [Next]_vars
    PROVE  Control'
<1> USE DEF Control
<1>1. ASSUME NEW c \in Online, Execute(c) \/ Corrupt(c) \/ \E k \in Counters : Count(c, k)
      PROVE  Control'
  <2>1. Types'  BY <1>1, TypesExecute, TypesOthers
  <2>2. Phase(c)' /\ Setup(c)'  BY <1>1, OwnPhase, OwnSetup, EventControl
  <2>3. ASSUME NEW d \in Online, d # c PROVE Phase(d)' /\ Setup(d)'
    BY <1>1, <2>3, OtherCores, SameControl
  <2> QED BY <2>1, <2>2, <2>3
<1>2. CASE \/ StartProgram \/ StartReadAll \/ StartReadSeparately
           \/ Programmed \/ ReadAllDone \/ DirectRead \/ ReadSeparatelyDone
  <2>1. Types'  BY <1>2, TypesOthers
  <2> QED BY <1>2, <2>1, CallerControl
<1>3. CASE UNCHANGED vars
  <2>1. Types'  BY <1>3 DEF Types, vars, hardware, pcm, control, ghosts
  <2>2. \A d \in Online : Same(d)  BY <1>3 DEF Same, vars, hardware, pcm, control, ghosts
  <2> QED BY <2>1, <2>2, SameControl
<1> QED BY <1>1, <1>2, <1>3 DEF Next, Return

-----------------------------------------------------------------------------
(* Preservation of what is known about the counters of a core.             *)

\* The cores that do not take part in a step.
LEMMA SameCore ==
    ASSUME NEW tab, NEW d \in Online, Same(d), CoreOK(tab, d)
    PROVE  CoreOK(tab, d)' /\ Done(d)' = Done(d)
<1>1. (Live(d)' <=> Live(d)) /\ (Frozen(d)' <=> Frozen(d)) /\ Done(d)' = Done(d)
    BY DEF Same, Live, Frozen, Done
<1>2. \A k : Since(tab, d, k)' = Since(tab, d, k)  BY <1>1 DEF Same, Since
<1>3. \A k : Balance(tab, d, k) => Balance(tab, d, k)'  BY <1>1, <1>2 DEF Same, Balance, Period
<1>4. CountersOK(tab, d) => CountersOK(tab, d)'
    BY <1>1, <1>2, <1>3 DEF Same, CountersOK, Clean
<1>5. SlotsOK(tab, d) => SlotsOK(tab, d)'  BY <1>1, <1>2 DEF Same, SlotsOK
<1>6. MarkOK(d) => MarkOK(d)'  BY DEF Same, MarkOK
<1>7. Past(tab, d)'  BY <1>1 DEF Same, Past, CoreOK
<1> QED BY <1>1, <1>4, <1>5, <1>6, <1>7 DEF CoreOK

\* The types of what belongs to a core.
LEMMA CoreTypes ==
    ASSUME Types, NEW c \in Online
    PROVE  /\ \A k \in Counters : ctr[c][k] \in 0 .. Modulus - 1 /\ ctr[c][k] \in Int
           /\ \A k \in Counters : total[c][k] \in Nat /\ at[c][k] \in Nat
           /\ nread[c] \in Nat /\ taken[c] \in Int /\ slotsSum[c] \in Nat /\ Done(c) \in Int
           /\ exec[c] \in Execs /\ status[c] \in SUBSET Counters
  BY Basics, Moduli DEF Types, Done

\* Steps of a core that change neither counters nor readings.
LEMMA PlainSteps ==
    ASSUME Types, NEW tab, NEW c \in Online, Phase(c), Setup(c), CoreOK(tab, c),
           \/ CoreTask(c) \/ ProgramFixed(c) \/ ProgramSelect(c)
           \/ CheckCustomCoreProgramming(c) \/ ReadOverflows(c) \/ ReadValues(c)
    PROVE  CoreOK(tab, c)' /\ Done(c)' = Done(c)
<1> USE Basics
<1>0. c \in Cores /\ exec \in [Cores -> Execs]  BY DEF Types
<1>1. CASE ProgramFixed(c) \/ ProgramSelect(c)
  <2>1. /\ UNCHANGED <<caller, task, nread, taken>>
        /\ exec[c].step \in {"disable", "fixed", "select"}
    BY <1>1 DEF ProgramFixed, ProgramSelect, control, ghosts
  <2>2. exec'[c].step \in {"fixed", "select", "enable"}
    <3>1. \/ exec' = [exec EXCEPT ![c].step = "fixed"]
          \/ exec' = [exec EXCEPT ![c].step = "select"]
          \/ exec' = [exec EXCEPT ![c].step = "enable"]
      BY <1>1 DEF ProgramFixed, ProgramSelect
    <3> QED BY <1>0, <3>1 DEF Execs
  <2>3. ~Live(c) /\ ~Live(c)'
    BY <2>1, Tasks DEF Phase, Free, ReadSteps, Types, Live
  <2>4. Done(c)' = Done(c)  BY <2>1, <2>2 DEF Done, Frozen, Window
  <2>5. Past(tab, c)'  BY <2>1, <2>4 DEF Past, CoreOK
  <2> QED BY <2>3, <2>4, <2>5 DEF CoreOK
<1>2. ASSUME UNCHANGED <<hardware, pcm, control, ghosts>>,
             Frozen(c)' <=> Frozen(c)
      PROVE  /\ Done(c)' = Done(c) /\ (Live(c)' <=> Live(c)) /\ Past(tab, c)'
             /\ \A k : Since(tab, c, k)' = Since(tab, c, k)
  <2>1. Done(c)' = Done(c) /\ (Live(c)' <=> Live(c))
    BY <1>2 DEF Done, Live, hardware, pcm, control, ghosts
  <2>2. \A k : Since(tab, c, k)' = Since(tab, c, k)  BY <1>2, <2>1 DEF Since, ghosts
  <2>3. Past(tab, c)'  BY <1>2, <2>1 DEF Past, CoreOK, ghosts
  <2> QED BY <2>1, <2>2, <2>3
<1>3. CASE CoreTask(c)
  <2>1. /\ UNCHANGED <<hardware, pcm, control, ghosts>> /\ exec[c].step = "idle"
        /\ exec'[c].step \in {"disable", "freeze"}
    BY <1>3 DEF CoreTask, Free, Types, Idle
  <2>2. /\ Done(c)' = Done(c) /\ (Live(c)' <=> Live(c)) /\ Past(tab, c)'
        /\ \A k : Since(tab, c, k)' = Since(tab, c, k)
    BY <1>2, <2>1 DEF Frozen, Window
  <2>3. \A k : Balance(tab, c, k) => Balance(tab, c, k)'
    BY <2>1, <2>2 DEF Balance, Period, hardware
  <2>4. CountersOK(tab, c) => CountersOK(tab, c)'
    BY <2>1, <2>2, <2>3 DEF CountersOK, Frozen, Window, Clean, ghosts
  <2>5. SlotsOK(tab, c) => SlotsOK(tab, c)'  BY <2>1, <2>2 DEF SlotsOK, hardware, pcm
  <2>6. MarkOK(c)'  BY <2>1 DEF MarkOK, Window
  <2> QED BY <2>2, <2>4, <2>5, <2>6 DEF CoreOK
<1>4. CASE CheckCustomCoreProgramming(c)
  <2>1. /\ UNCHANGED <<hardware, pcm, control, ghosts>>
        /\ exec[c].step = "check" /\ exec'[c].step = "status"
    BY <1>4 DEF CheckCustomCoreProgramming, Types, Execs
  <2>2. /\ Done(c)' = Done(c) /\ (Live(c)' <=> Live(c)) /\ Past(tab, c)'
        /\ \A k : Since(tab, c, k)' = Since(tab, c, k)
    BY <1>2, <2>1 DEF Frozen, Window
  <2>3. \A k : Balance(tab, c, k) => Balance(tab, c, k)'
    BY <2>1, <2>2 DEF Balance, Period, hardware
  <2>4. CountersOK(tab, c) => CountersOK(tab, c)'
    BY <2>1, <2>2, <2>3 DEF CountersOK, Frozen, Window, Clean, ghosts
  <2>5. SlotsOK(tab, c) => SlotsOK(tab, c)'  BY <2>1, <2>2 DEF SlotsOK, hardware, pcm
  <2>6. Live(c) => MarkOK(c)'
    <3>1. PICK b \in BOOLEAN : b = (evtsel[c] # lastProgrammed[c])  OBVIOUS
    <3>2. exec' = [exec EXCEPT ![c].step = "status", ![c].corrupted = b]
      BY <1>4, <3>1 DEF CheckCustomCoreProgramming
    <3>3. exec'[c].corrupted = b  BY <1>0, <3>2 DEF Execs
    <3>4. Live(c) => /\ lastProgrammed[c] = "pcm" /\ evtsel[c] # "none"
                     /\ evtsel[c] = "other" <=> taken[c] # -1
      BY DEF Setup
    <3>5. evtsel[c] \in {"none", "pcm", "other"} /\ taken'[c] = taken[c]
      BY <1>0, <2>1 DEF Types, ghosts
    <3>6. Live(c) => (b <=> taken[c] # -1)  BY <3>1, <3>4, <3>5
    <3> QED BY <3>3, <3>5, <3>6 DEF MarkOK
  <2> QED BY <2>2, <2>4, <2>5, <2>6 DEF CoreOK
<1>5. CASE ReadOverflows(c)
  <2>1. /\ UNCHANGED <<hardware, pcm, control, ghosts>>
        /\ exec[c].step = "status" /\ exec'[c].step = "values"
        /\ exec'[c].ovf = status[c] /\ exec'[c].corrupted = exec[c].corrupted
    BY <1>5 DEF ReadOverflows, Types, Execs
  <2>2. /\ Done(c)' = Done(c) /\ (Live(c)' <=> Live(c)) /\ Past(tab, c)'
        /\ \A k : Since(tab, c, k)' = Since(tab, c, k)
    BY <1>2, <2>1 DEF Frozen, Window
  <2>3. \A k : Balance(tab, c, k) => Balance(tab, c, k)'
    BY <2>1, <2>2 DEF Balance, Period, hardware
  <2>4. CountersOK(tab, c) => CountersOK(tab, c)'
    BY <2>1, <2>2, <2>3 DEF CountersOK, Frozen, Window, Clean, ghosts, hardware
  <2>5. SlotsOK(tab, c) => SlotsOK(tab, c)'  BY <2>1, <2>2 DEF SlotsOK, hardware, pcm
  <2>6. MarkOK(c) => MarkOK(c)'  BY <2>1 DEF MarkOK, Window, ghosts
  <2> QED BY <2>2, <2>4, <2>5, <2>6 DEF CoreOK
<1>6. CASE ReadValues(c)
  <2>1. /\ UNCHANGED <<hardware, pcm, control, ghosts>>
        /\ exec[c].step = "values" /\ exec'[c].step = "clear"
        /\ exec'[c].ovf = exec[c].ovf /\ exec'[c].corrupted = exec[c].corrupted
        /\ \A k \in Overflowing : exec'[c].val[k] = ctr[c][k]
    BY <1>6 DEF ReadValues, Types, Execs, Counters, Overflowing
  <2>2. /\ Done(c)' = Done(c) /\ (Live(c)' <=> Live(c)) /\ Past(tab, c)'
        /\ \A k : Since(tab, c, k)' = Since(tab, c, k)
    BY <1>2, <2>1 DEF Frozen, Window
  <2>3. \A k \in Overflowing : Balance(tab, c, k) => Balance(tab, c, k)'
    BY <2>1, <2>2 DEF Balance, Period, hardware
  <2>4. \A k \in Overflowing : exec'[c].val[k] < Modulus
    BY <2>1, CoreTypes, Moduli DEF Overflowing, Counters
  <2>5. CountersOK(tab, c) => CountersOK(tab, c)'
    BY <2>1, <2>2, <2>3, <2>4 DEF CountersOK, Frozen, Window, Clean, ghosts, hardware
  <2>6. SlotsOK(tab, c) => SlotsOK(tab, c)'  BY <2>1, <2>2 DEF SlotsOK, hardware, pcm
  <2>7. MarkOK(c) => MarkOK(c)'  BY <2>1 DEF MarkOK, Window, ghosts
  <2> QED BY <2>2, <2>5, <2>6, <2>7 DEF CoreOK
<1> QED BY <1>1, <1>3, <1>4, <1>5, <1>6

\* programCoreCounters leaves the counters at 0 before the first reading.
LEMMA EnableCore ==
    ASSUME Types, NEW tab, TableOK(tab), NEW c \in Online, Phase(c), Setup(c), CoreOK(tab, c),
           ProgramEnable(c), \A k \in Counters : total[c][k] = 0
    PROVE  CoreOK(tab, c)' /\ Done(c)' = Done(c)
<1> USE Basics
<1>1. /\ exec[c].step = "enable" /\ exec'[c] = Idle
      /\ UNCHANGED <<evtsel, lastProgrammed, slotsSum, caller, nread, taken>>
      /\ status'[c] = {}
      /\ \A k \in Counters : total'[c][k] = 0 /\ at'[c][k] = 0
    BY DEF ProgramEnable, Types
<1>2. /\ ctr'[c]["slots"] = 0 /\ ctr'[c]["fixed"] = ctr[c]["fixed"]
      /\ ctr'[c]["gen"] = ctr[c]["gen"]
    BY DEF ProgramEnable, Types, Counters
<1>3. ~Live(c)
    BY <1>1, Tasks DEF Phase, Free, ReadSteps, Types, Live
<1>4. /\ nread[c] = 0 /\ slotsSum[c] = 0 /\ ctr[c]["fixed"] = 0
      /\ taken[c] = -1 => ctr[c]["gen"] = 0
    BY <1>1, <1>3 DEF Setup
<1>5. Done(c)' = 0 /\ Done(c) = 0  BY <1>1, <1>4 DEF Done, Frozen, Window, Idle
<1>6. Past(tab, c)'  BY <1>1, <1>5 DEF Past
<1>7. \A k \in Counters : tab.data[k][c][0] = 0 /\ tab.true[k][c][0] = 0
    BY DEF TableOK
<1>8. \A k \in Counters : Since(tab, c, k)' = 0  BY <1>1, <1>5, <1>7 DEF Since
<1>9. ASSUME NEW k \in Overflowing, Clean(c, k)' PROVE Balance(tab, c, k)'
  <2>1. ctr'[c][k] = 0
    BY <1>1, <1>2, <1>4, <1>9 DEF Clean, Overflowing
  <2>2. Since(tab, c, k)' = 0 /\ tab.data[k][c][Done(c)'] = 0
    BY <1>5, <1>7, <1>8 DEF Overflowing, Counters
  <2> QED BY <1>1, <2>1, <2>2 DEF Balance, Period, Idle
<1>10. \A k \in Counters : Limit(k) >= 0 /\ Limit(k) \in Int  BY Moduli DEF Limit
<1>11. CountersOK(tab, c)'
    BY <1>1, <1>5, <1>7, <1>8, <1>9, <1>10 DEF CountersOK, Frozen, Window, Idle
<1>12. SlotsOK(tab, c)'
  <2>1. 0 % Word = 0  BY Moduli
  <2> QED BY <1>1, <1>2, <1>4, <1>5, <1>7, <1>8, <2>1 DEF SlotsOK, Idle, Counters
<1>13. MarkOK(c)'  BY <1>1 DEF MarkOK, Window, Idle
<1> QED BY <1>5, <1>6, <1>11, <1>12, <1>13 DEF CoreOK

\* Counting stops; the reading that begins is not complete yet.
LEMMA FreezeCore ==
    ASSUME Types, NEW tab, NEW c \in Online, Phase(c), Setup(c), CoreOK(tab, c),
           Freeze(c)
    PROVE  CoreOK(tab, c)' /\ Done(c)' = Done(c)
<1> USE Basics
<1>1. /\ exec[c].step = "freeze" /\ exec'[c].step = "check"
      /\ UNCHANGED <<ctr, status, slotsSum, caller, task, taken, total>>
      /\ at'[c] = total[c] /\ nread'[c] = nread[c] + 1
    BY DEF Freeze, Types, Execs, pcm, control
<1>2. Done(c)' = Done(c) /\ ~Frozen(c) /\ Frozen(c)'
    BY <1>1, CoreTypes DEF Done, Frozen, Window
<1>3. Live(c)' <=> Live(c)  BY <1>1 DEF Live
<1>4. \A k : Since(tab, c, k)' = Since(tab, c, k)  BY <1>1, <1>2 DEF Since
<1>5. \A k : Balance(tab, c, k) => Balance(tab, c, k)'  BY <1>1, <1>2, <1>4 DEF Balance, Period
<1>6. CountersOK(tab, c) => CountersOK(tab, c)'
    BY <1>1, <1>2, <1>4, <1>5 DEF CountersOK, Clean
<1>7. SlotsOK(tab, c) => SlotsOK(tab, c)'  BY <1>1, <1>2, <1>4 DEF SlotsOK
<1>8. MarkOK(c)'  BY <1>1 DEF MarkOK, Window
<1>9. Past(tab, c)'  BY <1>1, <1>2 DEF Past, CoreOK
<1> QED BY <1>2, <1>3, <1>6, <1>7, <1>8, <1>9 DEF CoreOK

\* The overflow bits that were read are cleared; no new one has come up.
LEMMA ClearCore ==
    ASSUME Types, NEW tab, NEW c \in Online, Phase(c), Setup(c), CoreOK(tab, c),
           ClearOverflows(c)
    PROVE  CoreOK(tab, c)' /\ Done(c)' = Done(c)
<1> USE Basics
<1>1. /\ exec[c].step = "clear" /\ exec'[c].step = "slots"
      /\ UNCHANGED <<ctr, slotsSum, caller, task, taken, total, at, nread>>
      /\ status'[c] = status[c] \ exec[c].ovf
      /\ exec'[c].ovf = exec[c].ovf /\ exec'[c].val = exec[c].val
      /\ exec'[c].corrupted = exec[c].corrupted
    BY DEF ClearOverflows, Types, Execs, pcm, control, ghosts
<1>2. Done(c)' = Done(c) /\ Frozen(c) /\ Frozen(c)'
    BY <1>1 DEF Done, Frozen, Window
<1>3. Live(c)' <=> Live(c)  BY <1>1 DEF Live
<1>4. \A k : Since(tab, c, k)' = Since(tab, c, k)  BY <1>1, <1>2 DEF Since
<1>5. ASSUME NEW k, exec[c].ovf = status[c], Balance(tab, c, k) PROVE Balance(tab, c, k)'
    BY <1>1, <1>2, <1>4, <1>5 DEF Balance, Period
<1>6. CountersOK(tab, c) => CountersOK(tab, c)'
    BY <1>1, <1>2, <1>4, <1>5 DEF CountersOK, Clean
<1>7. SlotsOK(tab, c) => SlotsOK(tab, c)'  BY <1>1, <1>2, <1>4 DEF SlotsOK
<1>8. MarkOK(c) => MarkOK(c)'  BY <1>1 DEF MarkOK, Window
<1>9. Past(tab, c)'  BY <1>1, <1>2 DEF Past, CoreOK
<1> QED BY <1>2, <1>3, <1>6, <1>7, <1>8, <1>9 DEF CoreOK

\* The slots move from the register to the sum in software.
LEMMA SlotsCore ==
    ASSUME Types, NEW tab, TableOK(tab), NEW c \in Online, Phase(c), Setup(c), CoreOK(tab, c),
           ReadSlots(c)
    PROVE  CoreOK(tab, c)' /\ Done(c)' = Done(c)
<1> USE Basics
<1>0. PICK v \in Nat : v = (slotsSum[c] + ctr[c]["slots"]) % Word
  <2>1. PICK x \in Nat : x = slotsSum[c] + ctr[c]["slots"]
    BY CoreTypes, Moduli DEF Counters
  <2> QED BY <2>1, Moduli, ModRange
<1>1. /\ exec[c].step = "slots" /\ exec'[c].step = "unfreeze"
      /\ UNCHANGED <<status, caller, task, taken, total, at, nread>>
    BY DEF ReadSlots, Types, Execs, control, ghosts
<1>2. slotsSum'[c] = v  BY <1>0 DEF ReadSlots, Types
<1>3. exec' = [exec EXCEPT ![c].step = "unfreeze", ![c].val["slots"] = v]
    BY <1>2 DEF ReadSlots
<1>4. /\ exec'[c].ovf = exec[c].ovf /\ exec'[c].corrupted = exec[c].corrupted
      /\ exec'[c].val["slots"] = v
      /\ \A k \in Overflowing : exec'[c].val[k] = exec[c].val[k]
  <2>1. exec[c] \in Execs /\ exec \in [Cores -> Execs] /\ exec[c].val \in [Counters -> Nat]
    BY DEF Types, Execs
  <2>2. exec'[c] = [exec[c] EXCEPT !.step = "unfreeze",
                                    !.val = [exec[c].val EXCEPT !["slots"] = v]]
    BY <1>3, <2>1
  <2>3. exec'[c].val = [exec[c].val EXCEPT !["slots"] = v]  BY <2>1, <2>2 DEF Execs
  <2>4. exec'[c].ovf = exec[c].ovf /\ exec'[c].corrupted = exec[c].corrupted
    BY <2>1, <2>2 DEF Execs
  <2> QED BY <2>1, <2>3, <2>4 DEF Overflowing, Counters
<1>5. ctr'[c]["slots"] = 0 /\ \A k \in Overflowing : ctr'[c][k] = ctr[c][k]
    BY DEF ReadSlots, Types, Counters, Overflowing
<1>6. Done(c)' = Done(c) /\ Frozen(c) /\ Frozen(c)'
    BY <1>1 DEF Done, Frozen, Window
<1>7. Live(c)' <=> Live(c)  BY <1>1 DEF Live
<1>8. \A k : Since(tab, c, k)' = Since(tab, c, k)  BY <1>1, <1>6 DEF Since
<1>9. ASSUME NEW k \in Overflowing, Balance(tab, c, k) PROVE Balance(tab, c, k)'
    BY <1>1, <1>4, <1>5, <1>6, <1>8, <1>9 DEF Balance, Period
<1>10. CountersOK(tab, c) => CountersOK(tab, c)'
    BY <1>1, <1>4, <1>5, <1>6, <1>8, <1>9 DEF CountersOK, Clean
<1>11. SlotsOK(tab, c) => SlotsOK(tab, c)'
  <2> SUFFICES ASSUME SlotsOK(tab, c) PROVE slotsSum'[c] = total'[c]["slots"] % Word
    BY <1>1, <1>2, <1>4, <1>5 DEF SlotsOK
  <2>1. Done(c) \in Nat
    BY <1>6, CoreTypes DEF Done, Setup
  <2>2. PICK t \in Int : t = tab.true["slots"][c][Done(c)]
    BY <2>1, TableTypes DEF Readings, Counters
  <2>3. PICK s \in Int : s = total[c]["slots"]  BY CoreTypes DEF Counters
  <2>4. slotsSum[c] = t % Word /\ ctr[c]["slots"] = s - t
    BY <1>1, <2>2, <2>3 DEF SlotsOK, Since
  <2>5. v = ((t % Word) + (s - t)) % Word  BY <1>0, <2>4
  <2>6. PICK y \in Int : y = s - t  OBVIOUS
  <2>7. ((t % Word) + y) % Word = (t + y) % Word  BY Moduli, ModSum
  <2>8. t + y = s  BY <2>6
  <2>9. v = s % Word  BY <2>5, <2>6, <2>7, <2>8
  <2> QED BY <1>1, <1>2, <2>3, <2>9
<1>12. MarkOK(c) => MarkOK(c)'  BY <1>1, <1>4 DEF MarkOK, Window
<1>13. Past(tab, c)'  BY <1>1, <1>6 DEF Past, CoreOK
<1> QED BY <1>6, <1>7, <1>10, <1>11, <1>12, <1>13 DEF CoreOK

\* How far the readings of a core go.
LEMMA DoneFacts ==
    ASSUME Types, NEW c \in Online, Setup(c)
    PROVE  Done(c) \in Nat /\ Done(c) <= nread[c]
  BY CoreTypes DEF Done, Setup

\* The entries of the table.
LEMMA Entries ==
    ASSUME NEW tab, TableOK(tab), NEW c \in Online, NEW n \in Nat, NEW k \in Counters
    PROVE  tab.data[k][c][n] \in Nat /\ tab.ovf[k][c][n] \in Nat /\ tab.true[k][c][n] \in Nat
  BY TableTypes DEF Readings

\* An event is counted: either the register counts it, or it wraps to 0 and the
\* overflow bit, which cannot be set yet, comes up.
LEMMA CountCore ==
    ASSUME Types, NEW tab, TableOK(tab), NEW c \in Online, Setup(c), CoreOK(tab, c),
           NEW k \in Counters, Count(c, k)
    PROVE  CoreOK(tab, c)' /\ Done(c)' = Done(c)
<1> USE Basics
<1>1. /\ UNCHANGED <<slotsSum, caller, task, exec, at, nread, taken>>
      /\ enabled[c] /\ caller \notin {"start", "programming"}
      /\ total[c][k] - at[c][k] < Limit(k)
    BY DEF Count, pcm, control
<1>2. Live(c) /\ Live(c)'  BY <1>1 DEF Live, Types
<1>3. ~Frozen(c) /\ ~Frozen(c)' /\ Done(c)' = Done(c)  BY <1>1, <1>2 DEF Setup, Frozen, Done
<1>4. CountersOK(tab, c) /\ SlotsOK(tab, c) /\ MarkOK(c) /\ Past(tab, c)  BY <1>2 DEF CoreOK
<1>5. total'[c][k] = total[c][k] + 1 /\ \A j \in Counters \ {k} : total'[c][j] = total[c][j]
  <2>1. total' = [total EXCEPT ![c][k] = total[c][k] + 1] /\ total \in [Cores -> [Counters -> Nat]]
    BY DEF Count, Types
  <2> QED BY <2>1
<1>6. \A j \in Counters \ {k} : /\ ctr'[c][j] = ctr[c][j]
                                /\ j \in status'[c] <=> j \in status[c]
  <2>1. /\ ctr \in [Cores -> [Counters -> 0 .. Modulus - 1]]
        /\ status \in [Cores -> SUBSET Counters]
    BY DEF Types
  <2>2. PICK v : ctr' = [ctr EXCEPT ![c][k] = v]  BY DEF Count
  <2>3. status'[c] = status[c] \/ status'[c] = status[c] \cup {k}  BY <2>1 DEF Count
  <2> QED BY <2>1, <2>2, <2>3
<1>7. PICK x \in 0 .. Modulus - 1 : x = ctr[c][k]  BY CoreTypes
<1>8. \/ x = Modulus - 1 /\ ctr'[c][k] = 0 /\ k \in status'[c]
      \/ x < Modulus - 1 /\ ctr'[c][k] = x + 1 /\ status'[c] = status[c]
  <2>1. /\ ctr \in [Cores -> [Counters -> 0 .. Modulus - 1]]
        /\ status \in [Cores -> SUBSET Counters]
    BY DEF Types
  <2>2. PICK v \in 0 .. Modulus - 1 : v = (x + 1) % Modulus
    <3>1. PICK y \in Int : y = x + 1  BY <1>7, Moduli
    <3>2. Modulus \in Nat \ {0}  BY Moduli
    <3>3. y % Modulus \in 0 .. Modulus - 1  BY <3>2, ModRange
    <3> QED BY <3>1, <3>3
  <2>3. ctr' = [ctr EXCEPT ![c][k] = v]  BY <1>7, <2>2 DEF Count
  <2>4. ctr'[c][k] = v  BY <2>1, <2>3
  <2>5. CASE x = Modulus - 1
    <3>1. Modulus % Modulus = 0  BY Moduli
    <3>2. x + 1 = Modulus  BY <2>5, Moduli
    <3>3. v = 0  BY <2>2, <3>1, <3>2
    <3>4. k \in status'[c]  BY <1>7, <2>1, <2>5 DEF Count
    <3> QED BY <2>4, <2>5, <3>3, <3>4
  <2>6. CASE x # Modulus - 1
    <3>1. x < Modulus - 1 /\ x + 1 \in 0 .. Modulus - 1  BY <2>6, Moduli
    <3>2. PICK y \in 0 .. Modulus - 1 : y = x + 1  BY <3>1
    <3>4. y % Modulus = y
      <4>1. y \in Int /\ Modulus \in Nat \ {0}  BY Moduli
      <4> QED BY <4>1, ModRange
    <3>3. status'[c] = status[c]  BY <1>7, <2>1, <2>6 DEF Count
    <3> QED BY <2>4, <2>2, <3>1, <3>2, <3>3, <3>4
  <2> QED BY <2>5, <2>6
<1>9. PICK t \in Nat : t = tab.true[k][c][Done(c)]  BY DoneFacts, Entries
<1>10. PICK s \in Nat : s = total[c][k]  BY CoreTypes
<1>11. Limit(k) \in Int /\ (k \in Overflowing => Limit(k) = Modulus)
       /\ (k = "slots" => Limit(k) = Modulus - 1)
    BY Moduli DEF Limit, Overflowing
<1>12. s - t >= 0 /\ s - t < Limit(k)
    BY <1>1, <1>3, <1>4, <1>9, <1>10 DEF CountersOK, Since
<1>13. Since(tab, c, k) = s - t /\ Since(tab, c, k)' = s + 1 - t
    BY <1>3, <1>5, <1>9, <1>10 DEF Since
<1>14. \A j \in Counters \ {k} : Since(tab, c, j)' = Since(tab, c, j)
    BY <1>3, <1>5 DEF Since
<1>15. ASSUME NEW j \in Overflowing, Clean(c, j), j # k PROVE Balance(tab, c, j)'
  <2>1. j \in Counters \ {k}  BY <1>15 DEF Overflowing, Counters
  <2>2. Balance(tab, c, j)  BY <1>4, <1>15 DEF CountersOK
  <2>3. Period(j, status[c])' = Period(j, status[c])  BY <1>6, <2>1 DEF Period
  <2> QED BY <1>1, <1>3, <1>6, <1>14, <2>1, <2>2, <2>3 DEF Balance
<1>16. ASSUME k \in Overflowing, Clean(c, k) PROVE Balance(tab, c, k)'
  <2>1. exec[c].step \notin {"clear", "slots", "unfreeze"}  BY <1>3 DEF Frozen, Window
  <2>2. PICK d \in Nat : d = tab.data[k][c][Done(c)]  BY DoneFacts, Entries
  <2>3. d < Modulus  BY <1>16, <2>2, DoneFacts DEF TableOK
  <2>4. PICK p \in {0, Modulus} : p = Period(k, status[c])  BY DEF Period
  <2>5. x + p = d + (s - t)  BY <1>4, <1>7, <1>13, <1>16, <2>1, <2>2, <2>4 DEF CountersOK, Balance
  <2>6. ctr'[c][k] + Period(k, status'[c]) = d + (s + 1 - t)
    <3>1. CASE x = Modulus - 1 /\ ctr'[c][k] = 0 /\ k \in status'[c]
      <4>1. p = 0  BY <1>11, <1>12, <1>16, <2>3, <2>4, <2>5, <3>1, Moduli
      <4>2. Period(k, status'[c]) = Modulus  BY <3>1 DEF Period
      <4> QED BY <2>5, <3>1, <4>1, <4>2, Moduli
    <3>2. CASE x < Modulus - 1 /\ ctr'[c][k] = x + 1 /\ status'[c] = status[c]
      BY <2>4, <2>5, <3>2, Moduli
    <3> QED BY <1>8, <3>1, <3>2
  <2> QED BY <1>1, <1>3, <1>13, <2>1, <2>2, <2>6 DEF Balance
<1>17. CountersOK(tab, c)'
  <2>1. \A j \in Counters : Since(tab, c, j)' >= 0 /\ Since(tab, c, j)' <= Limit(j)
    BY <1>4, <1>11, <1>12, <1>13, <1>14 DEF CountersOK
  <2>2. \A j \in Counters : at'[c][j] = tab.true[j][c][Done(c)]
    BY <1>1, <1>3, <1>4 DEF CountersOK
  <2>3. \A j \in Overflowing : Clean(c, j)' => Balance(tab, c, j)'
    BY <1>1, <1>15, <1>16 DEF Clean
  <2>4. exec'[c].step \notin {"values", "clear", "slots", "unfreeze"}
    BY <1>3 DEF Frozen, Window
  <2> QED BY <1>3, <2>1, <2>2, <2>3, <2>4 DEF CountersOK
<1>18. SlotsOK(tab, c)'
  <2>1. exec[c].step # "unfreeze"  BY <1>3 DEF Frozen, Window
  <2>2. ctr'[c]["slots"] = Since(tab, c, "slots")'
    <3>1. ctr[c]["slots"] = Since(tab, c, "slots")  BY <1>4, <2>1 DEF SlotsOK
    <3>2. CASE k # "slots"  BY <1>6, <1>14, <3>1, <3>2 DEF Counters
    <3>3. CASE k = "slots"
      <4>1. x = s - t  BY <1>7, <1>13, <3>1, <3>3
      <4>2. x < Modulus - 1  BY <1>11, <1>12, <3>3, <4>1
      <4>3. ctr'[c][k] = x + 1  BY <1>8, <4>2
      <4> QED BY <1>13, <3>3, <4>1, <4>3
    <3> QED BY <3>2, <3>3
  <2> QED BY <1>1, <1>3, <1>4, <2>1, <2>2 DEF SlotsOK
<1>19. MarkOK(c)'  BY <1>1, <1>4 DEF MarkOK
<1>20. Past(tab, c)'  BY <1>1, <1>3, <1>4 DEF Past
<1> QED BY <1>3, <1>17, <1>18, <1>19, <1>20 DEF CoreOK

\* Another program takes the general purpose counter: nothing is claimed of its
\* next readings, and the readings so far are as they were.
LEMMA CorruptCore ==
    ASSUME Types, NEW tab, NEW c \in Online, Setup(c), CoreOK(tab, c), Corrupt(c)
    PROVE  CoreOK(tab, c)' /\ Done(c)' = Done(c)
<1> USE Basics
<1>1. /\ UNCHANGED <<status, slotsSum, caller, task, exec, total, at, nread>>
      /\ evtsel[c] = "pcm" /\ taken'[c] = nread[c]
    BY DEF Corrupt, Types, pcm, control
<1>2. ctr'[c]["fixed"] = ctr[c]["fixed"] /\ ctr'[c]["slots"] = ctr[c]["slots"]
  <2>1. PICK v : ctr' = [ctr EXCEPT ![c]["gen"] = v]  BY DEF Corrupt
  <2> QED BY <2>1 DEF Types, Counters
<1>3. taken[c] = -1 /\ taken'[c] \in Nat /\ taken'[c] # -1 /\ nread[c] \in Nat
  <2>1. taken[c] = -1  BY <1>1 DEF Setup
  <2>2. nread[c] \in Nat  BY CoreTypes
  <2> QED BY <1>1, <2>1, <2>2
<1>4. Done(c)' = Done(c) /\ (Frozen(c)' <=> Frozen(c)) /\ (Live(c)' <=> Live(c))
    BY <1>1 DEF Done, Frozen, Live
<1>5. \A k : Since(tab, c, k)' = Since(tab, c, k)  BY <1>1, <1>4 DEF Since
<1>6. Balance(tab, c, "fixed") => Balance(tab, c, "fixed")'
    BY <1>1, <1>2, <1>4, <1>5 DEF Balance, Period
<1>7. \A k \in Overflowing : Clean(c, k)' => k = "fixed"  BY <1>3 DEF Clean
<1>8. CountersOK(tab, c) => CountersOK(tab, c)'
    BY <1>1, <1>4, <1>5, <1>6, <1>7 DEF CountersOK, Clean
<1>9. SlotsOK(tab, c) => SlotsOK(tab, c)'  BY <1>1, <1>2, <1>4, <1>5 DEF SlotsOK
<1>10. MarkOK(c)'  BY <1>1, <1>3 DEF MarkOK
<1>11. Past(tab, c)'
  <2>1. Done(c) \in Nat /\ Done(c) <= nread[c]  BY DoneFacts
  <2>2. ASSUME NEW n \in 1 .. Done(c) PROVE ~(taken'[c] < n)  BY <1>1, <1>3, <2>1
  <2> QED BY <1>3, <1>4, <2>2 DEF Past, CoreOK
<1> QED BY <1>4, <1>8, <1>9, <1>10, <1>11 DEF CoreOK

\* Reading n of core c is entered into the table.
With(X, c, n, v) == [d \in Online |-> [m \in Nat |-> IF d = c /\ m = n THEN v ELSE X[d][m]]]
Entered(tab, c, n, r) ==
    [data |-> [k \in Counters |-> With(tab.data[k], c, n, r.data[k])],
     ovf |-> [k \in Counters |-> With(tab.ovf[k], c, n, r.overflows[k])],
     true |-> [k \in Counters |-> With(tab.true[k], c, n, r.true[k])],
     marked |-> With(tab.marked, c, n, r.marked)]

\* new is tab with reading n of core c entered.
IsEntered(new, tab, c, n, r) ==
    /\ \A k \in Counters :
          /\ new.data[k][c][n] = r.data[k] /\ new.ovf[k][c][n] = r.overflows[k]
          /\ new.true[k][c][n] = r.true[k]
    /\ new.marked[c][n] = r.marked
    /\ \A d \in Online, m \in Nat : d # c \/ m # n =>
          /\ \A k \in Counters : /\ new.data[k][d][m] = tab.data[k][d][m]
                                 /\ new.ovf[k][d][m] = tab.ovf[k][d][m]
                                 /\ new.true[k][d][m] = tab.true[k][d][m]
          /\ new.marked[d][m] = tab.marked[d][m]

\* A complete reading can be entered into the table.
LEMMA EnterReading ==
    ASSUME NEW tab, TableOK(tab), NEW c \in Online, NEW n \in Nat \ {0}, NEW r \in Samples,
           \A k \in Overflowing : r.data[k] < Modulus
    PROVE  \E new : TableOK(new) /\ IsEntered(new, tab, c, n, r)
<1> DEFINE new == Entered(tab, c, n, r)
<1>0. n \in Nat  OBVIOUS
<1>1. \A k \in Counters : /\ new.data[k] = With(tab.data[k], c, n, r.data[k])
                          /\ new.ovf[k] = With(tab.ovf[k], c, n, r.overflows[k])
                          /\ new.true[k] = With(tab.true[k], c, n, r.true[k])
    BY DEF Entered
<1>2. new.marked = With(tab.marked, c, n, r.marked)  BY DEF Entered
<1>3. /\ \A k \in Counters : r.data[k] \in Nat /\ r.overflows[k] \in Nat /\ r.true[k] \in Nat
      /\ r.marked \in BOOLEAN
    BY DEF Samples
<1>4. \A k \in Counters : /\ tab.data[k] \in [Online -> [Nat -> Nat]]
                          /\ tab.ovf[k] \in [Online -> [Nat -> Nat]]
                          /\ tab.true[k] \in [Online -> [Nat -> Nat]]
    BY TableTypes DEF Readings
<1>5. tab.marked \in [Online -> [Nat -> BOOLEAN]]  BY DEF TableOK, Tables
<1>6. new = [data |-> new.data, ovf |-> new.ovf, true |-> new.true, marked |-> new.marked]
      /\ new.data = [k \in Counters |-> new.data[k]]
      /\ new.ovf = [k \in Counters |-> new.ovf[k]]
      /\ new.true = [k \in Counters |-> new.true[k]]
    BY DEF Entered
<1> HIDE DEF new
<1>7. ASSUME NEW k \in Counters
      PROVE  /\ new.data[k] \in [Online -> [Nat -> Nat]] /\ new.data[k][c][n] = r.data[k]
             /\ \A d \in Online, m \in Nat : d # c \/ m # n =>
                   new.data[k][d][m] = tab.data[k][d][m]
  <2>1. PICK X \in [Online -> [Nat -> Nat]] : X = tab.data[k]  BY <1>4
  <2>2. PICK v \in Nat : v = r.data[k]  BY <1>3
  <2>3. new.data[k] = With(X, c, n, v)  BY <1>1, <2>1, <2>2
  <2>4. With(X, c, n, v) \in [Online -> [Nat -> Nat]]  BY DEF With
  <2>5. \A d \in Online, m \in Nat :
           With(X, c, n, v)[d][m] = IF d = c /\ m = n THEN v ELSE X[d][m]
    BY DEF With
  <2> QED BY <2>1, <2>2, <2>3, <2>4, <2>5
<1>8. ASSUME NEW k \in Counters
      PROVE  /\ new.ovf[k] \in [Online -> [Nat -> Nat]] /\ new.ovf[k][c][n] = r.overflows[k]
             /\ \A d \in Online, m \in Nat : d # c \/ m # n =>
                   new.ovf[k][d][m] = tab.ovf[k][d][m]
  <2>1. PICK X \in [Online -> [Nat -> Nat]] : X = tab.ovf[k]  BY <1>4
  <2>2. PICK v \in Nat : v = r.overflows[k]  BY <1>3
  <2>3. new.ovf[k] = With(X, c, n, v)  BY <1>1, <2>1, <2>2
  <2>4. With(X, c, n, v) \in [Online -> [Nat -> Nat]]  BY DEF With
  <2>5. \A d \in Online, m \in Nat :
           With(X, c, n, v)[d][m] = IF d = c /\ m = n THEN v ELSE X[d][m]
    BY DEF With
  <2> QED BY <2>1, <2>2, <2>3, <2>4, <2>5
<1>9. ASSUME NEW k \in Counters
      PROVE  /\ new.true[k] \in [Online -> [Nat -> Nat]] /\ new.true[k][c][n] = r.true[k]
             /\ \A d \in Online, m \in Nat : d # c \/ m # n =>
                   new.true[k][d][m] = tab.true[k][d][m]
  <2>1. PICK X \in [Online -> [Nat -> Nat]] : X = tab.true[k]  BY <1>4
  <2>2. PICK v \in Nat : v = r.true[k]  BY <1>3
  <2>3. new.true[k] = With(X, c, n, v)  BY <1>1, <2>1, <2>2
  <2>4. With(X, c, n, v) \in [Online -> [Nat -> Nat]]  BY DEF With
  <2>5. \A d \in Online, m \in Nat :
           With(X, c, n, v)[d][m] = IF d = c /\ m = n THEN v ELSE X[d][m]
    BY DEF With
  <2> QED BY <2>1, <2>2, <2>3, <2>4, <2>5
<1>10. /\ new.marked \in [Online -> [Nat -> BOOLEAN]] /\ new.marked[c][n] = r.marked
       /\ \A d \in Online, m \in Nat : d # c \/ m # n => new.marked[d][m] = tab.marked[d][m]
  <2>1. PICK X \in [Online -> [Nat -> BOOLEAN]] : X = tab.marked  BY <1>5
  <2>2. PICK v \in BOOLEAN : v = r.marked  BY <1>3
  <2>3. new.marked = With(X, c, n, v)  BY <1>2, <2>1, <2>2
  <2>4. With(X, c, n, v) \in [Online -> [Nat -> BOOLEAN]]
    <3>1. ASSUME NEW d \in Online, NEW m \in Nat
          PROVE  (IF d = c /\ m = n THEN v ELSE X[d][m]) \in BOOLEAN
      BY Zenon
    <3> QED BY <3>1, Zenon DEF With
  <2>5. \A d \in Online, m \in Nat :
           With(X, c, n, v)[d][m] = IF d = c /\ m = n THEN v ELSE X[d][m]
    BY DEF With
  <2> QED BY <2>1, <2>2, <2>3, <2>4, <2>5
<1>11. IsEntered(new, tab, c, n, r)
  <2>1. ASSUME NEW d \in Online, NEW m \in Nat, d # c \/ m # n, NEW k \in Counters
        PROVE  /\ new.data[k][d][m] = tab.data[k][d][m] /\ new.ovf[k][d][m] = tab.ovf[k][d][m]
               /\ new.true[k][d][m] = tab.true[k][d][m]
    <3>1. new.data[k][d][m] = tab.data[k][d][m]  BY <1>7, <2>1
    <3>2. new.ovf[k][d][m] = tab.ovf[k][d][m]  BY <1>8, <2>1
    <3>3. new.true[k][d][m] = tab.true[k][d][m]  BY <1>9, <2>1
    <3> QED BY <3>1, <3>2, <3>3
  <2>2. \A k \in Counters : /\ new.data[k][c][n] = r.data[k] /\ new.ovf[k][c][n] = r.overflows[k]
                            /\ new.true[k][c][n] = r.true[k]
    BY <1>7, <1>8, <1>9
  <2> QED BY <1>10, <2>1, <2>2 DEF IsEntered
<1>12. new \in Tables
  <2>1. new.data \in [Counters -> Readings]  BY <1>6, <1>7 DEF Readings
  <2>2. new.ovf \in [Counters -> Readings]  BY <1>6, <1>8 DEF Readings
  <2>3. new.true \in [Counters -> Readings]  BY <1>6, <1>9 DEF Readings
  <2> QED BY <1>6, <1>10, <2>1, <2>2, <2>3 DEF Tables
<1>13. ASSUME NEW k \in Counters, NEW d \in Online
       PROVE  new.data[k][d][0] = 0 /\ new.ovf[k][d][0] = 0 /\ new.true[k][d][0] = 0
  <2>1. tab.data[k][d][0] = 0 /\ tab.ovf[k][d][0] = 0 /\ tab.true[k][d][0] = 0  BY DEF TableOK
  <2>2. 0 \in Nat /\ 0 # n  OBVIOUS
  <2>3. new.data[k][d][0] = 0  BY <1>7, <2>1, <2>2
  <2>4. new.ovf[k][d][0] = 0  BY <1>8, <2>1, <2>2
  <2>5. new.true[k][d][0] = 0  BY <1>9, <2>1, <2>2
  <2> QED BY <2>3, <2>4, <2>5
<1>14. \A d \in Online : ~new.marked[d][0]  BY <1>10 DEF TableOK
<1>15. ASSUME NEW k \in Overflowing, NEW d \in Online, NEW m \in Nat
       PROVE  new.data[k][d][m] < Modulus
  <2>1. k \in Counters /\ tab.data[k][d][m] < Modulus  BY DEF TableOK, Overflowing, Counters
  <2>2. CASE d = c /\ m = n  BY <1>7, <2>1, <2>2
  <2>3. CASE d # c \/ m # n  BY <1>7, <2>1, <2>3
  <2> QED BY <2>2, <2>3
<1> QED BY <1>11, <1>12, <1>13, <1>14, <1>15 DEF TableOK

\* Samples of earlier readings are not affected.
LEMMA OldSamples ==
    ASSUME NEW tab, NEW new, NEW c \in Online, NEW n \in Nat, NEW r,
           IsEntered(new, tab, c, n, r), NEW s \in Samples, s.seq[c] # n, OfTable(tab, s)
    PROVE  OfTable(new, s)
<1>1. \A d \in Online : s.seq[d] \in Nat  BY DEF Samples, Numbers
<1>2. Overflowing \subseteq Counters  BY DEF Counters, Overflowing
<1>3. ASSUME NEW k \in Counters
      PROVE  /\ Total(new.data[k], s.seq) = Total(tab.data[k], s.seq)
             /\ Total(new.ovf[k], s.seq) = Total(tab.ovf[k], s.seq)
             /\ Total(new.true[k], s.seq) = Total(tab.true[k], s.seq)
  <2>1. \A d \in Online : new.data[k][d][s.seq[d]] = tab.data[k][d][s.seq[d]]
    BY <1>1 DEF IsEntered
  <2>2. \A d \in Online : new.ovf[k][d][s.seq[d]] = tab.ovf[k][d][s.seq[d]]
    BY <1>1 DEF IsEntered
  <2>3. \A d \in Online : new.true[k][d][s.seq[d]] = tab.true[k][d][s.seq[d]]
    BY <1>1 DEF IsEntered
  <2> QED BY <2>1, <2>2, <2>3, TotalSame
<1>4. \A d \in Online : new.marked[d][s.seq[d]] = tab.marked[d][s.seq[d]]
    BY <1>1 DEF IsEntered
<1> QED BY <1>2, <1>3, <1>4 DEF OfTable

\* What is known of the other cores is not affected either.
LEMMA OldCores ==
    ASSUME NEW tab, NEW new, NEW c \in Online, NEW n \in Nat, NEW r,
           IsEntered(new, tab, c, n, r), NEW d \in Online, d # c, CoreOK(tab, d), Done(d) \in Nat
    PROVE  CoreOK(new, d)
<1>1. \A k \in Counters, m \in Nat : /\ new.data[k][d][m] = tab.data[k][d][m]
                                     /\ new.ovf[k][d][m] = tab.ovf[k][d][m]
                                     /\ new.true[k][d][m] = tab.true[k][d][m]
    BY DEF IsEntered
<1>2. \A m \in Nat : new.marked[d][m] = tab.marked[d][m]  BY DEF IsEntered
<1>3. Overflowing \subseteq Counters /\ "slots" \in Counters  BY DEF Counters, Overflowing
<1>4. \A k \in Counters : Since(new, d, k) = Since(tab, d, k)  BY <1>1 DEF Since
<1>5. \A k \in Counters : Balance(tab, d, k) => Balance(new, d, k)  BY <1>1, <1>4 DEF Balance
<1>6. CountersOK(tab, d) => CountersOK(new, d)  BY <1>1, <1>3, <1>4, <1>5 DEF CountersOK
<1>7. SlotsOK(tab, d) => SlotsOK(new, d)  BY <1>1, <1>3, <1>4 DEF SlotsOK
<1>8. Past(new, d)
  <2> SUFFICES ASSUME NEW m \in 1 .. Done(d)
        PROVE /\ \A k \in Overflowing :
                    k = "fixed" \/ taken[d] = -1 \/ m < taken[d] =>
                      new.data[k][d][m] + new.ovf[k][d][m] * Modulus - new.data[k][d][m - 1]
                         = new.true[k][d][m] - new.true[k][d][m - 1]
              /\ \A k \in Counters :
                    /\ new.true[k][d][m] - new.true[k][d][m - 1] <= Limit(k)
                    /\ \A i \in 0 .. m : new.true[k][d][i] <= new.true[k][d][m]
              /\ taken[d] # -1 /\ taken[d] < m => new.marked[d][m]
    BY DEF Past
  <2>1. m \in Nat /\ m - 1 \in Nat /\ \A i \in 0 .. m : i \in Nat  OBVIOUS
  <2>2. \A k \in Overflowing :
           k = "fixed" \/ taken[d] = -1 \/ m < taken[d] =>
             new.data[k][d][m] + new.ovf[k][d][m] * Modulus - new.data[k][d][m - 1]
                = new.true[k][d][m] - new.true[k][d][m - 1]
    BY <1>1, <1>3, <2>1 DEF CoreOK, Past
  <2>3. \A k \in Counters :
           /\ new.true[k][d][m] - new.true[k][d][m - 1] <= Limit(k)
           /\ \A i \in 0 .. m : new.true[k][d][i] <= new.true[k][d][m]
    BY <1>1, <2>1 DEF CoreOK, Past
  <2>4. taken[d] # -1 /\ taken[d] < m => new.marked[d][m]
    BY <1>2, <2>1 DEF CoreOK, Past
  <2> QED BY <2>2, <2>3, <2>4
<1> QED BY <1>6, <1>7, <1>8 DEF CoreOK

\* What the read of a core contributes to a sample: a value is cut to the width
\* of a counter, which leaves one that was read from a register as it is.
LEMMA ReadingFacts ==
    ASSUME Types, NEW tab, NEW c \in Online, exec[c].step = "unfreeze",
           CountersOK(tab, c), SlotsOK(tab, c)
    PROVE  /\ Reading(c) \in Samples
           /\ \A k \in Overflowing : Reading(c).data[k] < Modulus
           /\ Reading(c).data["fixed"] = exec[c].val["fixed"]
           /\ ~exec[c].corrupted => Reading(c).data["gen"] = exec[c].val["gen"]
           /\ Reading(c).data["slots"] = total[c]["slots"] % Word
           /\ \A k \in Overflowing :
                 Reading(c).overflows[k] = IF k \in exec[c].ovf THEN 1 ELSE 0
           /\ Reading(c).overflows["slots"] = 0
           /\ Reading(c).marked = exec[c].corrupted
           /\ \A k \in Counters : Reading(c).true[k] = total[c][k]
           /\ Reading(c).seq[c] = nread[c] /\ \A d \in Online \ {c} : Reading(c).seq[d] = 0
<1> USE Basics
<1> DEFINE r == Reading(c)
<1>1. /\ exec[c] \in Execs /\ exec[c].val \in [Counters -> Nat] /\ exec[c].corrupted \in BOOLEAN
      /\ at[c] \in [Counters -> Nat] /\ nread[c] \in Nat
    BY DEF Types, Execs
<1>2. /\ r.data = [fixed |-> Extract(exec[c].val["fixed"]),
                   gen |-> Extract(IF exec[c].corrupted THEN Invalid ELSE exec[c].val["gen"]),
                   slots |-> exec[c].val["slots"]]
      /\ r.overflows = [k \in Counters |-> IF k \in exec[c].ovf \cap Overflowing THEN 1 ELSE 0]
      /\ r.marked = exec[c].corrupted /\ r.true = at[c]
      /\ r.seq = [d \in Online |-> IF d = c THEN nread[c] ELSE 0]
      /\ r = [data |-> r.data, overflows |-> r.overflows, marked |-> r.marked,
              true |-> r.true, seq |-> r.seq]
    BY DEF Reading
<1> HIDE DEF r
<1>3. PICK v \in Nat : v = exec[c].val["fixed"]  BY <1>1 DEF Counters
<1>4. PICK w \in Nat : w = IF exec[c].corrupted THEN Invalid ELSE exec[c].val["gen"]
  <2>1. Invalid \in Nat  BY Moduli DEF Invalid
  <2>2. exec[c].val["gen"] \in Nat  BY <1>1 DEF Counters
  <2> QED BY <2>1, <2>2
<1>a. v \in Int /\ w \in Int /\ Modulus \in Nat \ {0}  BY Moduli
<1>5. PICK f \in 0 .. Modulus - 1 : f = v % Modulus  BY <1>a, ModRange
<1>6. PICK g \in 0 .. Modulus - 1 : g = w % Modulus  BY <1>a, ModRange
<1>7. r.data["fixed"] = f /\ r.data["gen"] = g /\ r.data["slots"] = exec[c].val["slots"]
    BY <1>2, <1>3, <1>4, <1>5, <1>6 DEF Extract
<1>8. \A k \in Overflowing : exec[c].val[k] < Modulus  BY DEF CountersOK
<1>9. f = v
  <2>1. v \in 0 .. Modulus - 1  BY <1>3, <1>8, Moduli DEF Overflowing
  <2> QED BY <1>a, <1>5, <2>1, ModRange
<1>10. ~exec[c].corrupted => g = exec[c].val["gen"]
  <2> SUFFICES ASSUME ~exec[c].corrupted PROVE g = w  BY <1>4
  <2>1. w \in 0 .. Modulus - 1  BY <1>4, <1>8, Moduli DEF Overflowing
  <2> QED BY <1>a, <1>6, <2>1, ModRange
<1>11. r.data["slots"] = total[c]["slots"] % Word  BY <1>7 DEF SlotsOK
<1>12. \A k \in Counters : r.true[k] = total[c][k]
    BY <1>2 DEF CountersOK, Frozen, Window
<1>13. r \in Samples
  <2>1. r.data \in [Counters -> Nat]
    <3>1. exec[c].val["slots"] \in Nat  BY <1>1 DEF Counters
    <3>2. r.data = [k \in Counters |-> r.data[k]]  BY <1>2 DEF Counters
    <3>3. \A k \in Counters : r.data[k] \in Nat  BY <1>7, <3>1, Moduli DEF Counters
    <3> QED BY <3>2, <3>3
  <2>2. r.overflows \in [Counters -> Nat]  BY <1>2
  <2>3. r.seq \in Numbers  BY <1>1, <1>2 DEF Numbers
  <2>4. r.true \in [Counters -> Nat] /\ r.marked \in BOOLEAN  BY <1>1, <1>2
  <2> QED BY <1>2, <2>1, <2>2, <2>3, <2>4 DEF Samples
<1>14. \A k \in Overflowing : r.data[k] < Modulus  BY <1>7, Moduli DEF Overflowing
<1>15. /\ \A k \in Overflowing : r.overflows[k] = IF k \in exec[c].ovf THEN 1 ELSE 0
       /\ r.overflows["slots"] = 0
    BY <1>2 DEF Counters, Overflowing
<1>16. r.seq[c] = nread[c] /\ \A d \in Online \ {c} : r.seq[d] = 0  BY <1>2
<1> QED BY <1>2, <1>3, <1>7, <1>9, <1>10, <1>11, <1>12, <1>13, <1>14, <1>15, <1>16 DEF r

\* The reading is a sample of its own.
LEMMA ReadingOfTable ==
    ASSUME Types, NEW tab, NEW c \in Online, exec[c].step = "unfreeze", Setup(c),
           CountersOK(tab, c), SlotsOK(tab, c),
           NEW new, TableOK(new), IsEntered(new, tab, c, nread[c], Reading(c))
    PROVE  OfTable(new, Reading(c))
<1>1. PICK r \in Samples : r = Reading(c)  BY ReadingFacts
<1>2. /\ r.data["slots"] = total[c]["slots"] % Word /\ r.overflows["slots"] = 0
      /\ \A k \in Counters : r.true[k] = total[c][k]
      /\ r.seq[c] = nread[c] /\ \A d \in Online \ {c} : r.seq[d] = 0
    BY <1>1, ReadingFacts
<1>3. r.seq \in Numbers /\ nread[c] \in Nat  BY CoreTypes DEF Samples
<1>4. Overflowing \subseteq Counters /\ "slots" \in Counters  BY DEF Counters, Overflowing
<1>5. ASSUME NEW k \in Counters
      PROVE  /\ Total(new.data[k], r.seq) = r.data[k] /\ Total(new.ovf[k], r.seq) = r.overflows[k]
             /\ Total(new.true[k], r.seq) = r.true[k]
  <2>1. /\ Total(new.data[k], r.seq) = new.data[k][c][nread[c]]
        /\ Total(new.ovf[k], r.seq) = new.ovf[k][c][nread[c]]
        /\ Total(new.true[k], r.seq) = new.true[k][c][nread[c]]
    BY <1>2, <1>3, TableTypes, TotalSingle
  <2> QED BY <1>1, <2>1 DEF IsEntered
<1>6. r.marked <=> \E d \in Online : new.marked[d][r.seq[d]]
  <2>1. new.marked[c][r.seq[c]] = r.marked  BY <1>1, <1>2 DEF IsEntered
  <2>2. \A d \in Online \ {c} : ~new.marked[d][r.seq[d]]  BY <1>2 DEF TableOK
  <2> QED BY <2>1, <2>2
<1> QED BY <1>1, <1>2, <1>4, <1>5, <1>6 DEF OfTable

\* A reading is complete.
LEMMA UnfreezeCore ==
    ASSUME Types, NEW tab, TableOK(tab), NEW c \in Online, Phase(c), Setup(c), CoreOK(tab, c),
           Unfreeze(c), NEW new, TableOK(new), IsEntered(new, tab, c, nread[c], Reading(c))
    PROVE  CoreOK(new, c)' /\ Done(c)' = nread[c] /\ Done(c) = nread[c] - 1
<1> USE Basics
<1>1. /\ exec[c].step = "unfreeze" /\ exec'[c] = Idle
      /\ UNCHANGED <<ctr, status, slotsSum, caller, total, at, nread, taken>>
    BY DEF Unfreeze, Types, pcm, ghosts
<1>2. Frozen(c) /\ ~Frozen(c)'  BY <1>1 DEF Frozen, Window, Idle
<1>3. Live(c)  BY <1>1 DEF Phase, Free, ProgramSteps, Types, Live
<1>4. CountersOK(tab, c) /\ SlotsOK(tab, c) /\ MarkOK(c) /\ Past(tab, c)  BY <1>3 DEF CoreOK
<1>5. PICK n \in Nat : n = nread[c] /\ n > 0  BY <1>2, CoreTypes DEF Setup
<1>6. Done(c) = n - 1 /\ Done(c)' = n  BY <1>1, <1>2, <1>5 DEF Done
<1>7. PICK r \in Samples : r = Reading(c)  BY <1>1, <1>4, ReadingFacts
<1>8. /\ \A k \in Overflowing : r.data[k] < Modulus
      /\ r.data["fixed"] = exec[c].val["fixed"]
      /\ ~exec[c].corrupted => r.data["gen"] = exec[c].val["gen"]
      /\ \A k \in Overflowing : r.overflows[k] = IF k \in exec[c].ovf THEN 1 ELSE 0
      /\ r.marked = exec[c].corrupted
      /\ \A k \in Counters : r.true[k] = total[c][k]
    BY <1>1, <1>4, <1>7, ReadingFacts
<1>9. IsEntered(new, tab, c, n, r)  BY <1>5, <1>7
<1>10. /\ \A k \in Counters : /\ new.data[k][c][n] = r.data[k]
                              /\ new.ovf[k][c][n] = r.overflows[k]
                              /\ new.true[k][c][n] = total[c][k]
       /\ new.marked[c][n] = exec[c].corrupted
    BY <1>8, <1>9 DEF IsEntered
<1>11. \A m \in 0 .. n - 1 :
          /\ \A k \in Counters : /\ new.data[k][c][m] = tab.data[k][c][m]
                                 /\ new.ovf[k][c][m] = tab.ovf[k][c][m]
                                 /\ new.true[k][c][m] = tab.true[k][c][m]
          /\ new.marked[c][m] = tab.marked[c][m]
  <2>1. \A m \in 0 .. n - 1 : m \in Nat /\ m # n  OBVIOUS
  <2> QED BY <1>9, <2>1 DEF IsEntered
<1>12. Overflowing \subseteq Counters /\ "slots" \in Counters  BY DEF Counters, Overflowing
<1>13. ASSUME NEW k \in Counters
       PROVE  /\ total[c][k] - tab.true[k][c][n - 1] >= 0
              /\ total[c][k] - tab.true[k][c][n - 1] <= Limit(k)
    BY <1>4, <1>6 DEF CountersOK, Since
\* What is not corrupted is exact.
<1>14. ASSUME NEW k \in Overflowing, k = "fixed" \/ taken[c] = -1
       PROVE  /\ k \notin status[c] /\ r.data[k] = ctr[c][k]
              /\ r.data[k] + r.overflows[k] * Modulus
                   = tab.data[k][c][n - 1] + (total[c][k] - tab.true[k][c][n - 1])
  <2>1. Balance(tab, c, k)  BY <1>4, <1>14 DEF CountersOK, Clean
  <2>2. /\ k \notin status[c] /\ exec[c].val[k] = ctr[c][k]
        /\ ctr[c][k] + Period(k, exec[c].ovf)
              = tab.data[k][c][n - 1] + (total[c][k] - tab.true[k][c][n - 1])
    BY <1>1, <1>6, <2>1 DEF Balance, Since
  <2>3. taken[c] = -1 => ~exec[c].corrupted  BY <1>1, <1>4 DEF MarkOK, Window
  <2>4. r.data[k] = exec[c].val[k]  BY <1>8, <1>14, <2>3 DEF Overflowing
  <2>5. r.overflows[k] * Modulus = Period(k, exec[c].ovf)
    <3>1. 1 * Modulus = Modulus /\ 0 * Modulus = 0  BY Moduli
    <3> QED BY <1>8, <3>1 DEF Period
  <2> QED BY <2>2, <2>4, <2>5
<1>15. CountersOK(new, c)'
  <2>1. ASSUME NEW k \in Counters PROVE Since(new, c, k)' = 0
    <3>1. total[c][k] \in Nat  BY CoreTypes
    <3> QED BY <1>1, <1>6, <1>10, <3>1 DEF Since
  <2>2. \A k \in Counters : Limit(k) >= 0  BY Moduli DEF Limit
  <2>3. \A k \in Counters : at'[c][k] = new.true[k][c][n]
    BY <1>1, <1>2, <1>4, <1>10 DEF CountersOK
  <2>4. ASSUME NEW k \in Overflowing, Clean(c, k)' PROVE Balance(new, c, k)'
    <3>1. k \notin status[c] /\ r.data[k] = ctr[c][k]  BY <1>1, <1>14, <2>4 DEF Clean
    <3>2. ctr[c][k] + 0 = r.data[k] + 0  BY <3>1
    <3>3. new.data[k][c][n] = r.data[k]  BY <1>10, <1>12
    <3> QED BY <1>1, <1>6, <1>12, <2>1, <3>1, <3>2, <3>3 DEF Balance, Period, Idle
  <2> QED BY <1>1, <1>2, <1>6, <2>1, <2>2, <2>3, <2>4 DEF CountersOK, Idle
<1>16. SlotsOK(new, c)'
  <2>1. total[c]["slots"] \in Nat  BY <1>12, CoreTypes
  <2>2. Since(new, c, "slots")' = 0  BY <1>1, <1>6, <1>10, <1>12, <2>1 DEF Since
  <2> QED BY <1>1, <1>4, <1>6, <1>10, <1>12, <2>2 DEF SlotsOK, Idle
<1>17. MarkOK(c)'  BY <1>1 DEF MarkOK, Window, Idle
<1>18. Past(new, c)'
  <2> SUFFICES ASSUME NEW m \in 1 .. n
        PROVE /\ \A k \in Overflowing :
                    k = "fixed" \/ taken[c] = -1 \/ m < taken[c] =>
                      new.data[k][c][m] + new.ovf[k][c][m] * Modulus - new.data[k][c][m - 1]
                         = new.true[k][c][m] - new.true[k][c][m - 1]
              /\ \A k \in Counters :
                    /\ new.true[k][c][m] - new.true[k][c][m - 1] <= Limit(k)
                    /\ \A i \in 0 .. m : new.true[k][c][i] <= new.true[k][c][m]
              /\ taken[c] # -1 /\ taken[c] < m => new.marked[c][m]
    BY <1>1, <1>6 DEF Past
  <2>1. CASE m < n
    <3>1. m \in 1 .. Done(c) /\ m \in 0 .. n - 1 /\ m - 1 \in 0 .. n - 1
          /\ \A i \in 0 .. m : i \in 0 .. n - 1
      BY <1>6, <2>1
    <3>2. \A k \in Overflowing :
             k = "fixed" \/ taken[c] = -1 \/ m < taken[c] =>
               new.data[k][c][m] + new.ovf[k][c][m] * Modulus - new.data[k][c][m - 1]
                  = new.true[k][c][m] - new.true[k][c][m - 1]
      BY <1>4, <1>11, <1>12, <3>1 DEF Past
    <3>3. \A k \in Counters :
             /\ new.true[k][c][m] - new.true[k][c][m - 1] <= Limit(k)
             /\ \A i \in 0 .. m : new.true[k][c][i] <= new.true[k][c][m]
      BY <1>4, <1>11, <3>1 DEF Past
    <3>4. taken[c] # -1 /\ taken[c] < m => new.marked[c][m]
      BY <1>4, <1>11, <3>1 DEF Past
    <3> QED BY <3>2, <3>3, <3>4
  <2>2. CASE m = n
    <3>1. n - 1 \in 0 .. n - 1 /\ n - 1 \in Nat  BY <1>5
    <3>2. ASSUME NEW k \in Overflowing, k = "fixed" \/ taken[c] = -1 \/ n < taken[c]
          PROVE  new.data[k][c][n] + new.ovf[k][c][n] * Modulus - new.data[k][c][n - 1]
                    = new.true[k][c][n] - new.true[k][c][n - 1]
      <4>1. ~(n < taken[c])  BY <1>5, CoreTypes DEF Setup
      <4>2. r.data[k] + r.overflows[k] * Modulus
               = tab.data[k][c][n - 1] + (total[c][k] - tab.true[k][c][n - 1])
        BY <1>14, <3>2, <4>1
      <4>3. k \in Counters /\ tab.data[k][c][n - 1] \in Nat /\ tab.true[k][c][n - 1] \in Nat
        BY <1>12, <3>1, Entries
      <4>4. total[c][k] \in Nat  BY <4>3, CoreTypes
      <4>5. PICK a \in Nat, o \in Nat : a = r.data[k] /\ o = r.overflows[k]
        BY <4>3 DEF Samples
      <4>6. PICK p \in Int : p = o * Modulus  BY Moduli
      <4>7. PICK b \in Nat, t \in Nat, x \in Nat :
               b = tab.data[k][c][n - 1] /\ t = tab.true[k][c][n - 1] /\ x = total[c][k]
        BY <4>3, <4>4
      <4>8. a + p = b + (x - t)  BY <4>2, <4>5, <4>6, <4>7
      <4>9. /\ new.data[k][c][n] = a /\ new.ovf[k][c][n] * Modulus = p
            /\ new.true[k][c][n] = x
        BY <1>10, <4>3, <4>5, <4>6, <4>7
      <4>10. new.data[k][c][n - 1] = b /\ new.true[k][c][n - 1] = t
        BY <1>11, <3>1, <4>3, <4>7
      <4>11. a + p - b = x - t  BY <4>8
      <4> QED BY <4>9, <4>10, <4>11
    <3>3. ASSUME NEW k \in Counters
          PROVE  /\ new.true[k][c][n] - new.true[k][c][n - 1] <= Limit(k)
                 /\ \A i \in 0 .. n : new.true[k][c][i] <= new.true[k][c][n]
      <4>1. PICK t \in Nat : t = tab.true[k][c][n - 1]  BY <3>1, Entries
      <4>2. new.true[k][c][n - 1] = t  BY <1>11, <3>1, <4>1
      <4>3. PICK s \in Nat : s = total[c][k]  BY CoreTypes
      <4>4. new.true[k][c][n] = s /\ s - t >= 0 /\ s - t <= Limit(k)
        BY <1>10, <1>13, <4>1, <4>3
      <4>5. ASSUME NEW i \in 0 .. n - 1 PROVE new.true[k][c][i] <= s
        <5>1. new.true[k][c][i] = tab.true[k][c][i]  BY <1>11
        <5>2. tab.true[k][c][i] \in Nat  BY Entries
        <5>3. tab.true[k][c][i] <= t
          <6>1. CASE i = n - 1  BY <4>1, <6>1
          <6>2. CASE i # n - 1
            <7>1. n - 1 \in 1 .. Done(c) /\ i \in 0 .. n - 1  BY <1>6, <6>2
            <7> QED BY <1>4, <4>1, <7>1 DEF Past
          <6> QED BY <6>1, <6>2
        <5> QED BY <4>4, <5>1, <5>2, <5>3
      <4>6. \A i \in 0 .. n : i = n \/ i \in 0 .. n - 1  OBVIOUS
      <4> QED BY <4>2, <4>4, <4>5, <4>6
    <3>4. taken[c] # -1 /\ taken[c] < n => new.marked[c][n]
      BY <1>1, <1>4, <1>5, <1>10 DEF MarkOK, Window
    <3> QED BY <2>2, <3>2, <3>3, <3>4
  <2> QED BY <2>1, <2>2
<1> QED BY <1>5, <1>6, <1>15, <1>16, <1>17, <1>18 DEF CoreOK

\* All steps of a core but the last one of a reading.
Quiet(c) ==
    \/ CoreTask(c) \/ ProgramFixed(c) \/ ProgramSelect(c) \/ ProgramEnable(c)
    \/ Freeze(c) \/ CheckCustomCoreProgramming(c) \/ ReadOverflows(c) \/ ReadValues(c)
    \/ ClearOverflows(c) \/ ReadSlots(c)
    \/ Corrupt(c) \/ \E k \in Counters : Count(c, k)
Called ==
    \/ StartProgram \/ StartReadAll \/ StartReadSeparately
    \/ Programmed \/ ReadAllDone \/ DirectRead \/ ReadSeparatelyDone

\* The ways a step can be taken.
LEMMA Steps ==
    [Next]_vars <=> \/ \E c \in Online : Quiet(c) \/ Unfreeze(c)
                    \/ Called \/ UNCHANGED vars
  BY DEF Next, Execute, Return, Quiet, Called

\* The core that takes a quiet step.
LEMMA QuietCore ==
    ASSUME Types, NEW tab, TableOK(tab), NEW c \in Online, Phase(c), Setup(c), CoreOK(tab, c),
           SlotsBound, Quiet(c)
    PROVE  CoreOK(tab, c)' /\ Done(c)' = Done(c)
<1>1. CASE ProgramEnable(c)
  <2>1. exec[c].step = "enable"  BY <1>1 DEF ProgramEnable
  <2>2. caller \in {"start", "programming"}
    BY <2>1, Basics DEF Phase, Free, ReadSteps, Types
  <2>3. \A k \in Counters : total[c][k] = 0  BY <2>2 DEF SlotsBound
  <2> QED BY <1>1, <2>3, EnableCore
<1>2. CASE ~ProgramEnable(c)
    BY <1>2, PlainSteps, FreezeCore, ClearCore, SlotsCore, CountCore, CorruptCore DEF Quiet
<1> QED BY <1>1, <1>2

\* The calling thread changes no counters.
LEMMA CallerCore ==
    ASSUME Types, NEW tab, NEW d \in Online, Phase(d), CoreOK(tab, d), Called
    PROVE  CoreOK(tab, d)' /\ Done(d)' = Done(d)
<1> USE Basics
<1>1. UNCHANGED <<ctr, status, slotsSum, total, at, nread, taken>>
    BY DEF Called, StartProgram, StartReadAll, StartReadSeparately, Programmed, ReadAllDone,
           DirectRead, ReadSeparatelyDone, hardware, pcm, ghosts
<1>2. \/ exec'[d] = exec[d]
      \/ exec[d].step = "idle" /\ exec'[d].step = "freeze"
  <2>1. CASE DirectRead
    <3>1. NextRead[2] \in Online  BY <2>1, NextReadIn DEF DirectRead, Types, Reads
    <3>2. exec[d].step = "idle"  BY <2>1 DEF DirectRead, AllDone, Free
    <3> QED BY <2>1, <3>1, <3>2 DEF DirectRead, Types, Idle
  <2>2. CASE ~DirectRead
    BY <2>2 DEF Called, StartProgram, StartReadAll, StartReadSeparately, Programmed,
                ReadAllDone, ReadSeparatelyDone
  <2> QED BY <2>1, <2>2
<1>3. Live(d)' => Live(d)
  <2>1. CASE StartProgram
    <3>1. task'[d] = <<"program">> /\ <<"program">> # <<>>
      BY <2>1, Tasks DEF StartProgram, PushTasks, Phase
    <3>2. caller' = "programming"  BY <2>1 DEF StartProgram
    <3> QED BY <3>1, <3>2 DEF Live
  <2>2. CASE ~StartProgram
    BY <2>2 DEF Called, StartReadAll, StartReadSeparately, Programmed, ReadAllDone, AllDone,
                DirectRead, ReadSeparatelyDone, Live, Phase
  <2> QED BY <2>1, <2>2
<1>4. (Frozen(d)' <=> Frozen(d)) /\ Done(d)' = Done(d)
    BY <1>1, <1>2 DEF Frozen, Done, Window
<1>5. \A k : Since(tab, d, k)' = Since(tab, d, k)  BY <1>1, <1>4 DEF Since
<1>6. \A k : Balance(tab, d, k) => Balance(tab, d, k)'
    BY <1>1, <1>2, <1>4, <1>5 DEF Balance, Period
<1>7. CountersOK(tab, d) => CountersOK(tab, d)'
    BY <1>1, <1>2, <1>4, <1>5, <1>6 DEF CountersOK, Clean
<1>8. SlotsOK(tab, d) => SlotsOK(tab, d)'  BY <1>1, <1>2, <1>4, <1>5 DEF SlotsOK
<1>9. MarkOK(d) => MarkOK(d)'  BY <1>1, <1>2 DEF MarkOK, Window
<1>10. Past(tab, d)'  BY <1>1, <1>4 DEF Past, CoreOK
<1> QED BY <1>3, <1>4, <1>7, <1>8, <1>9, <1>10 DEF CoreOK

\* Every slot that is counted is an event.
LEMMA SlotsBoundNext ==
    ASSUME Control, SlotsBound, [Next]_vars
    PROVE  SlotsBound'
<1> USE Basics
<1>0. Types /\ events \in Nat /\ SlotsCounted \in [Online -> Int]
    BY DEF Control, Types, SlotsCounted, Counters
<1>1. ASSUME events' \in Nat, events' >= events, \A c \in Online : total'[c] = total[c],
             caller' \in {"start", "programming"} => caller \in {"start", "programming"}
      PROVE  SlotsBound'
  <2>1. SlotsCounted' = SlotsCounted  BY <1>1 DEF SlotsCounted
  <2>2. Sum(SlotsCounted, Online) \in Int  BY <1>0, SumFacts
  <2>3. Sum(SlotsCounted, Online) <= events'  BY <1>0, <1>1, <2>2 DEF SlotsBound
  <2> QED BY <1>1, <2>1, <2>3 DEF SlotsBound
<1>2. ASSUME NEW c \in Online, NEW k \in Counters, Count(c, k) PROVE SlotsBound'
  <2>1. /\ caller \notin {"start", "programming"} /\ caller' = caller
        /\ events' = events + 1
        /\ total' = [total EXCEPT ![c][k] = total[c][k] + 1]
    BY <1>2 DEF Count, MoreEvents, control
  <2>2. total \in [Cores -> [Counters -> Nat]]  BY <1>0 DEF Types
  <2> DEFINE one == [d \in Online |-> IF d = c /\ k = "slots" THEN 1 ELSE 0]
  <2>3. one \in [Online -> Int] /\ \A d \in Online \ {c} : one[d] = 0  OBVIOUS
  <2>4. one[c] \in {0, 1}  OBVIOUS
  <2>5. ASSUME NEW d \in Online PROVE total'[d]["slots"] = total[d]["slots"] + one[d]
    BY <2>1, <2>2 DEF Counters
  <2>6. SlotsCounted' \in [Online -> Int]
        /\ \A d \in Online : SlotsCounted'[d] = SlotsCounted[d] + one[d]
    <3>1. total' \in [Cores -> [Counters -> Nat]]  BY <2>1, <2>2
    <3> QED BY <2>5, <3>1 DEF SlotsCounted, Counters
  <2> HIDE DEF one
  <2>7. Sum(SlotsCounted', Online) = Sum(SlotsCounted, Online) + Sum(one, Online)
    BY <1>0, <2>3, <2>6, SumLinear
  <2>8. Sum(one, Online) = one[c]  BY <2>3, SumSingle
  <2>9. Sum(SlotsCounted, Online) \in Int  BY <1>0, SumFacts
  <2>10. Sum(SlotsCounted', Online) <= events'
    BY <1>0, <2>1, <2>4, <2>7, <2>8, <2>9 DEF SlotsBound
  <2> QED BY <2>1, <2>10 DEF SlotsBound
<1>3. ASSUME NEW c \in Online, ProgramEnable(c) PROVE SlotsBound'
  <2>1. exec[c].step = "enable" /\ caller' = caller /\ events' = events
    BY <1>3 DEF ProgramEnable
  <2>2. Phase(c)  BY DEF Control
  <2>3. caller \in {"start", "programming"}
    BY <1>0, <2>1, <2>2 DEF Phase, Free, ReadSteps, Types
  <2>4. \A d \in Online, k \in Counters : total[d][k] = 0  BY <2>3 DEF SlotsBound
  <2>5. ASSUME NEW d \in Online PROVE total'[d] = total[d]
    <3>1. total[d] \in [Counters -> Nat]  BY <1>0 DEF Types
    <3>2. total[d] = [k \in Counters |-> 0]  BY <2>4, <3>1
    <3> QED BY <1>0, <1>3, <3>2 DEF ProgramEnable, Types
  <2> QED BY <1>0, <1>1, <2>1, <2>5
<1>4. ASSUME NEW c \in Online, Corrupt(c) PROVE SlotsBound'
    BY <1>0, <1>1, <1>4 DEF Corrupt, MoreEvents, control
<1>5. ASSUME NEW c \in Online, Quiet(c) \/ Unfreeze(c), ~ProgramEnable(c), ~Corrupt(c),
             \A k \in Counters : ~Count(c, k)
      PROVE  SlotsBound'
  <2>1. UNCHANGED <<total, caller, events>>
    BY <1>5 DEF Quiet, CoreTask, ProgramFixed, ProgramSelect, Freeze,
         CheckCustomCoreProgramming, ReadOverflows, ReadValues, ClearOverflows, ReadSlots,
         Unfreeze, control, ghosts
  <2> QED BY <1>0, <1>1, <2>1
<1>6. CASE Called
  <2>1. UNCHANGED <<total, events>>
        /\ (caller' \in {"start", "programming"} => caller \in {"start", "programming"})
    BY <1>6 DEF Called, StartProgram, StartReadAll, StartReadSeparately, Programmed,
         ReadAllDone, DirectRead, ReadSeparatelyDone, ghosts
  <2> QED BY <1>0, <1>1, <2>1
<1>7. CASE UNCHANGED vars
  <2>1. UNCHANGED <<total, caller, events>>  BY <1>7 DEF vars, ghosts, control
  <2> QED BY <1>0, <1>1, <2>1
<1> QED BY <1>2, <1>3, <1>4, <1>5, <1>6, <1>7, Steps

\* Samples stay what they are when no readings are taken back.
LEMMA WithinLater ==
    ASSUME NEW tab, NEW u, NEW s, Within(tab, u, s), s \in Samples,
           \A d \in Online : Done(d) \in Int /\ Done(d)' \in Int /\ Done(d) <= Done(d)'
    PROVE  /\ OfTable(tab, s)
           /\ \A d \in Online : s.seq[d] <= Done(d)' /\ (d \notin Members(u) => s.seq[d] = 0)
<1>1. \A d \in Online : s.seq[d] \in Nat  BY DEF Samples, Numbers
<1> QED BY <1>1 DEF Within

\* A quiet step changes no samples.
LEMMA QuietSamples ==
    ASSUME CoreIInv, NEW c \in Online, Quiet(c)
    PROVE  SampleTypes' /\ Ordered' /\ Progress' /\ \E tab : Data(tab)'
<1> USE Basics
<1>1. Types /\ \A d \in Online : Phase(d) /\ Setup(d)  BY DEF CoreIInv, Control
<1>2. UNCHANGED <<cur, hist, todo, caller>>
    BY DEF Quiet, CoreTask, ProgramFixed, ProgramSelect, ProgramEnable, Freeze,
       CheckCustomCoreProgramming, ReadOverflows, ReadValues, ClearOverflows, ReadSlots,
       Corrupt, Count, control
<1>3. SampleTypes' /\ Ordered'  BY <1>2 DEF CoreIInv, SampleTypes, Ordered
<1>4. ASSUME NEW d \in Online, d # c PROVE Same(d)
  <2>1. Execute(c) \/ Corrupt(c) \/ \E k \in Counters : Count(c, k)  BY DEF Quiet, Execute
  <2> QED BY <1>1, <1>4, <2>1, OtherCores
<1>5. ASSUME caller = "all" PROVE task' = task
  <2>1. ~ProgramEnable(c)
    BY <1>1, <1>5 DEF ProgramEnable, Phase, Free, ReadSteps
  <2> QED BY <2>1 DEF Quiet, CoreTask, ProgramFixed, ProgramSelect, Freeze,
       CheckCustomCoreProgramming, ReadOverflows, ReadValues, ClearOverflows, ReadSlots,
       Corrupt, Count, control
<1>6. ASSUME caller = "separate"
      PROVE  (Free(c)' <=> Free(c)) /\ (~Free(c) => exec'[c].unit = exec[c].unit)
  <2>1. task[c] = <<>> /\ exec[c].step \in ReadSteps \cup {"idle"}
        /\ exec[c] \in Execs /\ exec \in [Cores -> Execs]
    BY <1>1, <1>6 DEF Phase, Types
  <2>2. ~CoreTask(c) /\ ~ProgramEnable(c) /\ ~ProgramFixed(c) /\ ~ProgramSelect(c)
    BY <2>1 DEF CoreTask, ProgramEnable, ProgramFixed, ProgramSelect, ReadSteps
  <2>3. CASE Freeze(c)  BY <2>1, <2>3 DEF Freeze, Execs, Free
  <2>4. CASE CheckCustomCoreProgramming(c)
    BY <2>1, <2>4 DEF CheckCustomCoreProgramming, Execs, Free
  <2>5. CASE ReadOverflows(c)  BY <2>1, <2>5 DEF ReadOverflows, Execs, Free
  <2>6. CASE ReadValues(c)  BY <2>1, <2>6 DEF ReadValues, Execs, Free
  <2>7. CASE ClearOverflows(c)  BY <2>1, <2>7 DEF ClearOverflows, Execs, Free
  <2>8. CASE ReadSlots(c)  BY <2>1, <2>8 DEF ReadSlots, Execs, Free
  <2>9. CASE Corrupt(c) \/ \E k \in Counters : Count(c, k)
    BY <2>9 DEF Corrupt, Count, Free
  <2> QED BY <2>2, <2>3, <2>4, <2>5, <2>6, <2>7, <2>8, <2>9 DEF Quiet
<1>7. Progress'
  <2>1. Progress  BY DEF CoreIInv
  <2>2. CASE caller = "all"  BY <1>2, <1>5, <2>1, <2>2 DEF Progress
  <2>3. CASE caller = "separate"
    <3>1. \A d \in Online : (Free(d)' <=> Free(d)) /\ (~Free(d) => exec'[d].unit = exec[d].unit)
      BY <1>4, <1>6, <2>3 DEF Same, Free
    <3>2. \A r \in Reads : r[2] \in Online  BY DEF Reads
    <3> QED BY <1>2, <2>1, <2>3, <3>1, <3>2 DEF Progress
  <2>4. CASE caller \notin {"all", "separate"}  BY <1>2, <2>1, <2>4 DEF Progress
  <2> QED BY <2>2, <2>3, <2>4
<1>8. PICK tab : Data(tab)  BY DEF CoreIInv
<1>9. ASSUME NEW d \in Online PROVE CoreOK(tab, d)' /\ Done(d)' = Done(d)
  <2>1. TableOK(tab) /\ CoreOK(tab, d)  BY <1>8 DEF Data, CoresOK
  <2>2. CASE d = c  BY <1>1, <2>1, <2>2, QuietCore DEF CoreIInv
  <2>3. CASE d # c  BY <1>4, <2>1, <2>3, SameCore
  <2> QED BY <2>2, <2>3
<1>10. SamplesOK(tab)'  BY <1>2, <1>8, <1>9 DEF Data, SamplesOK, Within
<1>11. Data(tab)'  BY <1>8, <1>9, <1>10 DEF Data, CoresOK
<1> QED BY <1>3, <1>7, <1>11

\* The unit a read is for: it contains the core, and its sample is still without it.
LEMMA ReadUnit ==
    ASSUME Types, NEW c \in Online, Phase(c), Progress, exec[c].step = "unfreeze"
    PROVE  /\ exec[c].unit \in Units /\ c \in Members(exec[c].unit)
           /\ cur[exec[c].unit].seq[c] = 0
           /\ caller \in {"all", "separate"}
           /\ caller = "all" => exec[c].unit = c /\ task[c] = <<"read">>
<1> USE Basics
<1>1. ~Free(c)  BY DEF Free
<1>2. caller \in {"all", "separate"}
    BY <1>1 DEF Phase, ProgramSteps, Types
<1>3. exec[c].unit \in Units  BY DEF Types, Execs
<1>4. CASE caller = "all"
  <2>1. task[c] = <<"read">> /\ exec[c].unit = c  BY <1>1, <1>4 DEF Phase
  <2>2. cur[c].seq[c] = 0  BY <1>4, <2>1, Tasks DEF Progress
  <2>3. c \in Members(c)  BY DEF Members
  <2> QED BY <1>2, <1>3, <1>4, <2>1, <2>2, <2>3
<1>5. CASE caller = "separate"
  <2>1. <<exec[c].unit, c>> \in Reads /\ cur[exec[c].unit].seq[c] = 0  BY <1>1, <1>5 DEF Progress
  <2>2. c \in Members(exec[c].unit)  BY <2>1 DEF Reads
  <2> QED BY <1>2, <1>3, <1>5, <2>1, <2>2
<1> QED BY <1>2, <1>4, <1>5

\* The last step of a reading: the table gets a new entry, and the sample the
\* reading was made for a new core.
LEMMA UnfreezeSamples ==
    ASSUME CoreIInv, NEW c \in Online, Unfreeze(c)
    PROVE  SampleTypes' /\ Ordered' /\ Progress' /\ \E tab : Data(tab)'
<1> USE Basics
<1>1. Types /\ \A d \in Online : Phase(d) /\ Setup(d)  BY DEF CoreIInv, Control
<1>2. /\ exec[c].step = "unfreeze" /\ exec'[c] = Idle
      /\ UNCHANGED <<hist, todo, caller, nread>>
      /\ \A d \in Online \ {c} : exec'[d] = exec[d] /\ task'[d] = task[d]
    BY <1>1 DEF Unfreeze, Types, ghosts
<1>3. PICK u \in Units : u = exec[c].unit  BY <1>1, <1>2, ReadUnit DEF CoreIInv
<1>4. /\ c \in Members(u) /\ cur[u].seq[c] = 0 /\ caller \in {"all", "separate"}
      /\ caller = "all" => u = c /\ task[c] = <<"read">>
    BY <1>1, <1>2, <1>3, ReadUnit DEF CoreIInv
<1>5. PICK old : Data(old)  BY DEF CoreIInv
<1>6. TableOK(old) /\ CoreOK(old, c) /\ SamplesOK(old)  BY <1>5 DEF Data, CoresOK
<1>7. Live(c)  BY <1>1, <1>4 DEF Live
<1>8. CountersOK(old, c) /\ SlotsOK(old, c)  BY <1>6, <1>7 DEF CoreOK
<1>9. PICK n \in Nat : n = nread[c] /\ n > 0
  <2>1. Frozen(c)  BY <1>2 DEF Frozen, Window
  <2> QED BY <1>1, <2>1, CoreTypes DEF Setup
<1>10. PICK r \in Samples : r = Reading(c)  BY <1>1, <1>2, <1>8, ReadingFacts
<1>11. /\ \A k \in Overflowing : r.data[k] < Modulus
       /\ r.seq[c] = n /\ \A d \in Online \ {c} : r.seq[d] = 0
    BY <1>1, <1>2, <1>8, <1>9, <1>10, ReadingFacts
<1>12. PICK tab : TableOK(tab) /\ IsEntered(tab, old, c, n, r)
  <2>1. n \in Nat \ {0}  BY <1>9
  <2> QED BY <1>6, <1>11, <2>1, EnterReading
<1>13. CoreOK(tab, c)' /\ Done(c)' = n /\ Done(c) = n - 1
    BY <1>1, <1>6, <1>9, <1>10, <1>12, UnfreezeCore
<1>14. ASSUME NEW d \in Online, d # c PROVE CoreOK(tab, d)' /\ Done(d)' = Done(d)
  <2>1. Same(d)  BY <1>1, <1>14, OtherCores DEF Execute
  <2>2. CoreOK(old, d) /\ Done(d) \in Nat  BY <1>1, <1>5, DoneFacts DEF Data, CoresOK
  <2>3. CoreOK(tab, d)  BY <1>12, <1>14, <2>2, OldCores
  <2> QED BY <2>1, <2>3, SameCore
<1>15. \A d \in Online : Done(d) \in Int /\ Done(d)' \in Int /\ Done(d) <= Done(d)'
    BY <1>1, <1>13, <1>14, DoneFacts
<1>16. cur \in [Units -> Samples] /\ hist \in Seq([Units -> Samples])
    BY DEF CoreIInv, SampleTypes
<1>17. ASSUME NEW v, NEW s \in Samples, Within(old, v, s)
       PROVE  /\ OfTable(tab, s)
              /\ \A d \in Online : s.seq[d] <= Done(d)' /\ (d \notin Members(v) => s.seq[d] = 0)
  <2>1. s.seq[c] # n
    <3>1. s.seq[c] <= n - 1 /\ s.seq[c] \in Nat  BY <1>13, <1>17 DEF Within, Samples, Numbers
    <3> QED BY <3>1
  <2>2. OfTable(tab, s)  BY <1>12, <1>17, <2>1, OldSamples DEF Within
  <2>3. \A d \in Online : s.seq[d] <= Done(d) /\ s.seq[d] \in Nat
                          /\ (d \notin Members(v) => s.seq[d] = 0)
    BY <1>17 DEF Within, Samples, Numbers
  <2> QED BY <1>15, <2>2, <2>3
\* The sample of unit u.
<1>18. /\ Add(cur[u], r) \in Samples /\ OfTable(tab, Add(cur[u], r))
       /\ \A d \in Online : Add(cur[u], r).seq[d] = cur[u].seq[d] + r.seq[d]
  <2>1. cur[u] \in Samples /\ Within(old, u, cur[u])  BY <1>6, <1>16 DEF SamplesOK
  <2>2. OfTable(tab, cur[u])  BY <1>17, <2>1
  <2>3. OfTable(tab, r)
    BY <1>1, <1>2, <1>8, <1>9, <1>10, <1>12, ReadingOfTable
  <2>4. \A d \in Online : cur[u].seq[d] = 0 \/ r.seq[d] = 0  BY <1>4, <1>11
  <2> QED BY <1>12, <2>1, <2>2, <2>3, <2>4, AddSample
<1>19. PICK sum \in Samples : sum = Add(cur[u], r)  BY <1>18
<1>20. sum.seq[c] = n /\ \A d \in Online \ {c} : sum.seq[d] = cur[u].seq[d]
  <2>1. \A d \in Online : cur[u].seq[d] \in Nat  BY <1>16 DEF Samples, Numbers
  <2> QED BY <1>4, <1>11, <1>18, <1>19, <2>1
<1>21. cur' = [cur EXCEPT ![u] = sum]  BY <1>3, <1>10, <1>19 DEF Unfreeze
<1>22. cur'[u] = sum /\ \A v \in Units \ {u} : cur'[v] = cur[v]  BY <1>16, <1>21
<1>23. SampleTypes'  BY <1>2, <1>16, <1>21 DEF SampleTypes
<1>24. SamplesOK(tab)'
  <2>1. ASSUME NEW v \in Units PROVE Within(tab, v, cur[v])'
    <3>1. CASE v = u
      <4>1. \A d \in Online : cur[u].seq[d] <= Done(d)' /\ (d \notin Members(u) => cur[u].seq[d] = 0)
        BY <1>6, <1>16, <1>17 DEF SamplesOK
      <4>2. \A d \in Online : sum.seq[d] <= Done(d)' /\ (d \notin Members(u) => sum.seq[d] = 0)
        BY <1>4, <1>9, <1>13, <1>20, <4>1
      <4> QED BY <1>18, <1>19, <1>22, <3>1, <4>2 DEF Within
    <3>2. CASE v # u
      <4>1. cur'[v] = cur[v] /\ cur[v] \in Samples /\ Within(old, v, cur[v])
        BY <1>6, <1>16, <1>22, <3>2 DEF SamplesOK
      <4> QED BY <1>17, <4>1 DEF Within
    <3> QED BY <3>1, <3>2
  <2>2. ASSUME NEW i \in 1 .. Len(hist), NEW v \in Units PROVE Within(tab, v, hist[i][v])'
    <3>1. hist[i][v] \in Samples /\ Within(old, v, hist[i][v])  BY <1>6, <1>16 DEF SamplesOK
    <3> QED BY <1>2, <1>17, <3>1 DEF Within
  <2> QED BY <1>2, <2>1, <2>2 DEF SamplesOK
<1>25. Ordered'
  <2>1. Ordered  BY DEF CoreIInv
  <2>2. ASSUME NEW i \in 1 .. Len(hist), NEW x \in Units, NEW v \in Units, NEW d \in Online,
               cur'[v].seq[d] # 0
        PROVE  hist[i][x].seq[d] <= cur'[v].seq[d]
    <3>1. CASE v = u /\ d = c
      <4>1. hist[i][x].seq[d] <= n - 1 /\ hist[i][x].seq[d] \in Nat
        <5>1. hist[i][x] \in Samples /\ Within(old, x, hist[i][x])
          BY <1>6, <1>16 DEF SamplesOK
        <5> QED BY <1>13, <3>1, <5>1 DEF Within, Samples, Numbers
      <4> QED BY <1>20, <1>22, <3>1, <4>1
    <3>2. CASE v # u \/ d # c
      <4>1. cur'[v].seq[d] = cur[v].seq[d]  BY <1>20, <1>22, <3>2
      <4> QED BY <1>4, <2>1, <2>2, <4>1 DEF Ordered
    <3> QED BY <3>1, <3>2
  <2> QED BY <1>2, <2>1, <2>2 DEF Ordered
<1>26. Progress'
  <2>1. Progress  BY DEF CoreIInv
  <2>2. CASE caller = "all"
    <3>1. u = c /\ task[c] = <<"read">>  BY <1>4, <2>2
    <3>2. task'[c] = <<>>  BY <1>1, <3>1, Tasks DEF Unfreeze, Types
    <3>3. u \notin Sockets \cup {System}  BY <3>1, ConstantsAssumption
    <3>4. \A v \in Sockets \cup {System} : cur'[v] = cur[v]  BY <1>22, <3>3
    <3>5. ASSUME NEW d \in Online PROVE cur'[d].seq[d] = 0 <=> task'[d] # <<>>
      <4>1. CASE d = c  BY <1>9, <1>20, <1>22, <3>1, <3>2, <4>1
      <4>2. CASE d # c  BY <1>2, <1>22, <2>1, <2>2, <3>1, <4>2 DEF Progress
      <4> QED BY <4>1, <4>2
    <3> QED BY <1>2, <2>1, <2>2, <3>4, <3>5 DEF Progress
  <2>3. CASE caller = "separate"
    <3>1. Free(c)' /\ \A d \in Online \ {c} : (Free(d)' <=> Free(d)) /\ exec'[d].unit = exec[d].unit
      BY <1>2 DEF Free, Idle
    <3>2. <<u, c>> \in Reads \ todo  BY <1>2, <1>3, <2>1, <2>3 DEF Progress, Free
    <3>3. \A v \in Units, d \in Online : v # u \/ d # c => cur'[v].seq[d] = cur[v].seq[d]
      BY <1>20, <1>22
    <3>4. cur'[u].seq[c] # 0  BY <1>9, <1>20, <1>22
    <3>5. ASSUME NEW x \in Reads
          PROVE  IF x \in todo THEN cur'[x[1]].seq[x[2]] = 0
                 ELSE \/ cur'[x[1]].seq[x[2]] # 0
                      \/ ~Free(x[2])' /\ exec'[x[2]].unit = x[1]
      <4>1. x = <<x[1], x[2]>> /\ x[1] \in Units /\ x[2] \in Online  BY DEF Reads
      <4>2. CASE x[1] = u /\ x[2] = c  BY <3>2, <3>4, <4>1, <4>2
      <4>3. CASE ~(x[1] = u /\ x[2] = c)
        <5>1. cur'[x[1]].seq[x[2]] = cur[x[1]].seq[x[2]]  BY <3>3, <4>1, <4>3
        <5>2. IF x \in todo THEN cur[x[1]].seq[x[2]] = 0
              ELSE \/ cur[x[1]].seq[x[2]] # 0
                   \/ ~Free(x[2]) /\ exec[x[2]].unit = x[1]
          BY <2>1, <2>3 DEF Progress
        <5>3. CASE x \in todo  BY <5>1, <5>2, <5>3
        <5>4. CASE x \notin todo /\ cur[x[1]].seq[x[2]] # 0  BY <5>1, <5>4
        <5>5. CASE x \notin todo /\ ~Free(x[2]) /\ exec[x[2]].unit = x[1]
          <6>1. x[2] # c  BY <1>3, <4>3, <5>5
          <6> QED BY <3>1, <4>1, <5>5, <6>1
        <5> QED BY <5>2, <5>3, <5>4, <5>5
      <4> QED BY <4>2, <4>3
    <3>6. ASSUME NEW d \in Online, ~Free(d)'
          PROVE  <<exec'[d].unit, d>> \in Reads \ todo /\ cur'[exec'[d].unit].seq[d] = 0
      <4>1. d # c /\ exec'[d].unit = exec[d].unit /\ ~Free(d)  BY <3>1, <3>6
      <4>2. <<exec[d].unit, d>> \in Reads \ todo /\ cur[exec[d].unit].seq[d] = 0
        BY <2>1, <2>3, <4>1 DEF Progress
      <4>3. exec[d].unit \in Units  BY <1>1 DEF Types, Execs
      <4> QED BY <3>3, <4>1, <4>2, <4>3
    <3> QED BY <1>2, <2>1, <2>3, <3>5, <3>6 DEF Progress
  <2> QED BY <1>4, <2>2, <2>3
<1>27. Data(tab)'  BY <1>12, <1>13, <1>14, <1>24 DEF Data, CoresOK
<1> QED BY <1>23, <1>25, <1>26, <1>27

\* The newest sample is put in front.
LEMMA Pushed ==
    ASSUME NEW S, NEW h \in Seq(S), NEW x \in S
    PROVE  /\ <<x>> \o h \in Seq(S) /\ Len(<<x>> \o h) = Len(h) + 1 /\ Len(h) \in Nat
           /\ (<<x>> \o h)[1] = x
           /\ \A i \in 2 .. Len(h) + 1 : i - 1 \in 1 .. Len(h) /\ (<<x>> \o h)[i] = h[i - 1]
  OBVIOUS

\* The cores of a core, of a socket and of the system.
LEMMA MembersOf ==
    /\ \A u \in Online : Members(u) = {u}
    /\ \A u \in Sockets : Members(u) = {c \in Online : SocketOf[c] = u}
    /\ Members(System) = Online
    /\ \A u \in Online : u \notin Sockets /\ u # System
    /\ System \notin Sockets
<1>1. /\ \A u \in Online : u \notin Sockets /\ u # System /\ SocketOf[u] \in Sockets
      /\ System \notin Sockets
    BY ConstantsAssumption
<1> QED BY <1>1 DEF Members

\* getAllCounterStates: each core's reading is in the sample of the core, of its
\* socket and of the system.
LEMMA AggregateFacts ==
    ASSUME NEW tab, TableOK(tab), NEW f \in [Units -> Samples],
           \A u \in Units : OfTable(tab, f[u]),
           \A u \in Sockets \cup {System}, c \in Online : f[u].seq[c] = 0,
           \A c, d \in Online : f[c].seq[d] = 0 <=> c # d,
           NEW u \in Units
    PROVE  /\ Aggregate(f)[u] \in Samples /\ OfTable(tab, Aggregate(f)[u])
           /\ \A c \in Online : Aggregate(f)[u].seq[c]
                                  = IF c \in Members(u) THEN f[c].seq[c] ELSE 0
<1> USE Basics
<1> DEFINE T(s) == {c \in Online : SocketOf[c] = s}
           sockets == [s \in Sockets |-> AddAll(f[s], f, T(s))]
<1>1. ASSUME NEW s \in Sockets
      PROVE  /\ sockets[s] \in Samples /\ OfTable(tab, sockets[s])
             /\ \A c \in Online : sockets[s].seq[c] = IF SocketOf[c] = s THEN f[c].seq[c] ELSE 0
  <2>1. IsFiniteSet(T(s))  BY OnlineFinite, FS_Subset
  <2>2. f[s] \in Samples /\ OfTable(tab, f[s]) /\ \A c \in Online : f[s].seq[c] = 0
    BY DEF Units
  <2>3. \A c \in T(s) : f[c] \in Samples /\ OfTable(tab, f[c])  OBVIOUS
  <2>4. \A c, d \in T(s), e \in Online : c # d => f[c].seq[e] = 0 \/ f[d].seq[e] = 0
    OBVIOUS
  <2>5. T(s) \subseteq Online  OBVIOUS
  <2>6. PICK S : S = T(s)  OBVIOUS
  <2>7. PICK a : a = AddAll(f[s], f, S)  OBVIOUS
  <2>8. /\ a \in Samples /\ OfTable(tab, a)
        /\ \A c \in Online : a.seq[c] = 0 \/ \E d \in S : a.seq[c] = f[d].seq[c]
        /\ \A d \in S, c \in Online : f[d].seq[c] # 0 => a.seq[c] = f[d].seq[c]
    <3> HIDE DEF T
    <3> QED BY <2>1, <2>2, <2>3, <2>4, <2>6, <2>7, AddAllSample
  <2>9. sockets[s] = a  BY <2>6, <2>7
  <2>10. ASSUME NEW c \in Online PROVE a.seq[c] = IF SocketOf[c] = s THEN f[c].seq[c] ELSE 0
    <3>1. CASE SocketOf[c] = s
      <4>1. c \in S /\ f[c].seq[c] # 0  BY <2>6, <3>1
      <4> QED BY <2>8, <3>1, <4>1
    <3>2. CASE SocketOf[c] # s
      <4>1. \A d \in S : f[d].seq[c] = 0  BY <2>6, <3>2
      <4> QED BY <2>8, <3>2, <4>1
    <3> QED BY <3>1, <3>2
  <2> QED BY <2>8, <2>9, <2>10
<1>2. Aggregate(f) = [v \in Units |-> CASE v \in Online -> f[v]
                                        [] v \in Sockets -> sockets[v]
                                        [] v = System -> AddAll(f[System], sockets, Sockets)]
    BY DEF Aggregate
<1>3. CASE u \in Online
  <2>1. Aggregate(f)[u] = f[u]  BY <1>2, <1>3, MembersOf
  <2> QED BY <1>3, <2>1, MembersOf
<1>4. CASE u \in Sockets
  <2>1. Aggregate(f)[u] = sockets[u]  BY <1>2, <1>4, MembersOf
  <2>2. \A c \in Online : c \in Members(u) <=> SocketOf[c] = u  BY <1>4, MembersOf
  <2> HIDE DEF sockets
  <2> QED BY <1>1, <1>4, <2>1, <2>2
<1>5. CASE u = System
  <2>1. Aggregate(f)[u] = AddAll(f[System], sockets, Sockets)  BY <1>2, <1>5, MembersOf
  <2> HIDE DEF sockets
  <2>2. IsFiniteSet(Sockets)  BY ConstantsAssumption
  <2>3. /\ f[System] \in Samples /\ OfTable(tab, f[System])
        /\ \A c \in Online : f[System].seq[c] = 0
    OBVIOUS
  <2>4. \A s \in Sockets : sockets[s] \in Samples /\ OfTable(tab, sockets[s])  BY <1>1
  <2>5. \A s, t \in Sockets, c \in Online :
           s # t => sockets[s].seq[c] = 0 \/ sockets[t].seq[c] = 0
    BY <1>1
  <2>6. PICK a : a = AddAll(f[System], sockets, Sockets)  OBVIOUS
  <2>7. /\ a \in Samples /\ OfTable(tab, a)
        /\ \A s \in Sockets, c \in Online :
              sockets[s].seq[c] # 0 => a.seq[c] = sockets[s].seq[c]
    BY <2>2, <2>3, <2>4, <2>5, <2>6, AddAllSample
  <2>8. ASSUME NEW c \in Online PROVE a.seq[c] = f[c].seq[c]
    <3>1. SocketOf[c] \in Sockets /\ f[c].seq[c] # 0  OBVIOUS
    <3>2. sockets[SocketOf[c]].seq[c] = f[c].seq[c]  BY <1>1, <3>1
    <3> QED BY <2>7, <3>1, <3>2
  <2>9. \A c \in Online : c \in Members(u)  BY <1>5, MembersOf
  <2> QED BY <2>1, <2>6, <2>7, <2>8, <2>9
<1> QED BY <1>3, <1>4, <1>5 DEF Units

\* A complete sample of all units goes to the caller.
LEMMA PushSamples ==
    ASSUME SampleTypes, Ordered, NEW tab, SamplesOK(tab),
           \A c \in Online : Done(c)' = Done(c),
           NEW x \in [Units -> Samples], \A u \in Units : Within(tab, u, x[u]),
           \A i \in 1 .. Len(hist), u \in Units, c \in Online : hist[i][u].seq[c] <= x[u].seq[c],
           Len(hist) < MaxReads, cur' = x, hist' = <<x>> \o hist, caller' = "ready"
    PROVE  SampleTypes' /\ Ordered' /\ Progress' /\ SamplesOK(tab)'
<1>1. hist \in Seq([Units -> Samples])  BY DEF SampleTypes
<1>2. /\ hist' \in Seq([Units -> Samples]) /\ Len(hist') = Len(hist) + 1 /\ Len(hist) \in Nat
      /\ hist'[1] = x
      /\ \A i \in 2 .. Len(hist) + 1 : i - 1 \in 1 .. Len(hist) /\ hist'[i] = hist[i - 1]
    BY <1>1, Pushed
<1>3. SampleTypes'  BY <1>2 DEF SampleTypes
<1>4. \A i \in 1 .. Len(hist') : i = 1 \/ i \in 2 .. Len(hist) + 1  BY <1>2
<1>5. Ordered'
  <2> SUFFICES ASSUME NEW i \in 1 .. Len(hist'), NEW j \in 1 .. Len(hist'), NEW u \in Units,
                      NEW c \in Online, i < j
               PROVE  hist'[j][u].seq[c] <= hist'[i][u].seq[c]
    BY DEF Ordered
  <2>1. j \in 2 .. Len(hist) + 1  BY <1>2
  <2>2. j - 1 \in 1 .. Len(hist) /\ hist'[j] = hist[j - 1]  BY <1>2, <2>1
  <2>3. CASE i = 1  BY <1>2, <2>2, <2>3
  <2>4. CASE i \in 2 .. Len(hist) + 1
    <3>1. i - 1 \in 1 .. Len(hist) /\ hist'[i] = hist[i - 1] /\ i - 1 < j - 1
      BY <1>2, <2>4
    <3> QED BY <2>2, <3>1 DEF Ordered
  <2> QED BY <1>4, <2>3, <2>4
<1>6. Progress'
  <2>1. Len(hist') <= MaxReads  BY <1>2, Basics
  <2> QED BY <2>1 DEF Progress
<1>7. SamplesOK(tab)'
  <2>1. \A u \in Units : Within(tab, u, cur[u])'  BY DEF Within
  <2>2. ASSUME NEW i \in 1 .. Len(hist'), NEW u \in Units PROVE Within(tab, u, hist[i][u])'
    <3>1. CASE i = 1  BY <1>2, <3>1 DEF Within
    <3>2. CASE i \in 2 .. Len(hist) + 1
      <4>1. i - 1 \in 1 .. Len(hist) /\ hist'[i] = hist[i - 1]  BY <1>2, <3>2
      <4>2. Within(tab, u, hist[i - 1][u])  BY <4>1 DEF SamplesOK
      <4> QED BY <4>1, <4>2 DEF Within
    <3> QED BY <1>4, <3>1, <3>2
  <2> QED BY <2>1, <2>2 DEF SamplesOK
<1> QED BY <1>3, <1>5, <1>6, <1>7

\* The calling thread starts samples, adds them up and hands them out.
LEMMA CallerSamples ==
    ASSUME CoreIInv, Called
    PROVE  SampleTypes' /\ Ordered' /\ Progress' /\ \E tab : Data(tab)'
<1> USE Basics
<1>1. Types /\ SampleTypes /\ Ordered /\ Progress /\ \A d \in Online : Phase(d) /\ Setup(d)
    BY DEF CoreIInv, Control
<1>2. PICK tab : Data(tab)  BY DEF CoreIInv
<1>3. \A d \in Online : CoreOK(tab, d)' /\ Done(d)' = Done(d)
    BY <1>1, <1>2, CallerCore DEF Data, CoresOK
<1>4. TableOK(tab) /\ SamplesOK(tab) /\ CoresOK(tab)'  BY <1>2, <1>3 DEF Data, CoresOK
<1>5. cur \in [Units -> Samples] /\ \A u \in Units, c \in Online : cur[u].seq[c] \in Nat
    BY <1>1 DEF SampleTypes, Samples, Numbers
<1>6. SUFFICES SampleTypes' /\ Ordered' /\ Progress' /\ SamplesOK(tab)'
    BY <1>4 DEF Data
<1>7. CASE StartProgram \/ Programmed
  <2>1. UNCHANGED <<cur, hist>> /\ caller' \in {"programming", "ready"}
    BY <1>7 DEF StartProgram, Programmed
  <2>2. SampleTypes' /\ Ordered' /\ Progress'
    BY <1>1, <2>1 DEF SampleTypes, Ordered, Progress
  <2>3. SamplesOK(tab)'  BY <1>3, <1>4, <2>1 DEF SamplesOK, Within
  <2> QED BY <2>2, <2>3
<1>8. CASE StartReadAll \/ StartReadSeparately
  <2>1. /\ hist' = hist /\ cur' = [u \in Units |-> Zero] /\ Len(hist) < MaxReads
        /\ caller = "ready" /\ exec' = exec
    BY <1>8 DEF StartReadAll, StartReadSeparately
  <2>2. Zero \in Samples /\ OfTable(tab, Zero) /\ \A c \in Online : Zero.seq[c] = 0
    BY <1>4, ZeroSample
  <2>3. SampleTypes'  BY <1>1, <2>1, <2>2 DEF SampleTypes
  <2>4. \A u \in Units, c \in Online : cur'[u].seq[c] = 0  BY <2>1, <2>2
  <2>5. Ordered'  BY <1>1, <2>1, <2>4 DEF Ordered
  <2>6. SamplesOK(tab)'
    <3>1. \A c \in Online : Done(c)' = Done(c) /\ Done(c) \in Nat  BY <1>1, <1>3, DoneFacts
    <3>2. \A u \in Units : Within(tab, u, cur[u])'  BY <2>1, <2>2, <3>1 DEF Within
    <3>3. \A i \in 1 .. Len(hist), u \in Units : Within(tab, u, hist[i][u])'
      BY <1>3, <1>4, <2>1 DEF SamplesOK, Within
    <3> QED BY <2>1, <3>2, <3>3 DEF SamplesOK
  <2>7. Len(hist') < MaxReads /\ Len(hist') <= MaxReads
    <3>1. Len(hist) \in Nat  BY <1>1 DEF SampleTypes
    <3> QED BY <2>1, <3>1
  <2>8. Progress'
    <3>1. CASE StartReadAll
      <4>1. \A c \in Online : task'[c] = <<"read">> /\ task'[c] # <<>>
        BY <1>1, <2>1, <3>1, Tasks DEF StartReadAll, PushTasks, Phase
      <4>2. caller' = "all"  BY <3>1 DEF StartReadAll
      <4> QED BY <2>4, <2>7, <4>1, <4>2 DEF Progress
    <3>2. CASE StartReadSeparately
      <4>1. caller' = "separate" /\ todo' = Reads  BY <3>2 DEF StartReadSeparately
      <4>2. \A c \in Online : Free(c)'  BY <1>1, <2>1 DEF Phase, Free
      <4>3. \A r \in Reads : r[1] \in Units /\ r[2] \in Online  BY DEF Reads
      <4> QED BY <2>4, <2>7, <4>1, <4>2, <4>3 DEF Progress
    <3> QED BY <1>8, <3>1, <3>2
  <2> QED BY <2>3, <2>5, <2>6, <2>8
<1>9. CASE ReadAllDone
  <2>1. /\ caller = "all" /\ caller' = "ready" /\ AllDone
        /\ cur' = Aggregate(cur) /\ hist' = <<cur'>> \o hist
    BY <1>9 DEF ReadAllDone
  <2>2. \A u \in Sockets \cup {System}, c \in Online : cur[u].seq[c] = 0
    BY <1>1, <2>1 DEF Progress
  <2>3. \A c \in Online : cur[c].seq[c] # 0  BY <1>1, <2>1 DEF Progress, AllDone
  <2>4. \A u \in Units : Within(tab, u, cur[u])  BY <1>4 DEF SamplesOK
  <2>5. ASSUME NEW c \in Online, NEW d \in Online PROVE cur[c].seq[d] = 0 <=> c # d
    <3>1. c # d => d \notin Members(c)  BY MembersOf
    <3> QED BY <2>3, <2>4, <3>1 DEF Within
  <2>6. \A u \in Units : OfTable(tab, cur[u])  BY <2>4 DEF Within
  <2>7. ASSUME NEW u \in Units
        PROVE  /\ cur'[u] \in Samples /\ OfTable(tab, cur'[u])
               /\ \A c \in Online : cur'[u].seq[c] = IF c \in Members(u) THEN cur[c].seq[c] ELSE 0
    BY <1>4, <1>5, <2>1, <2>2, <2>5, <2>6, AggregateFacts
  <2>8. cur' \in [Units -> Samples]
    <3> DEFINE sockets == [s \in Sockets |-> AddAll(cur[s], cur, {c \in Online : SocketOf[c] = s})]
               E(u) == CASE u \in Online -> cur[u]
                         [] u \in Sockets -> sockets[u]
                         [] u = System -> AddAll(cur[System], sockets, Sockets)
    <3>0. cur' = [u \in Units |-> E(u)]  BY <2>1 DEF Aggregate
    <3> HIDE DEF E
    <3>1. cur' = [u \in Units |-> cur'[u]]  BY <3>0
    <3> QED BY <2>7, <3>1
  <2>9. ASSUME NEW u \in Units PROVE Within(tab, u, cur'[u])
    <3>1. \A c \in Online : cur[c].seq[c] <= Done(c) /\ Done(c) \in Nat
      BY <1>1, <2>4, DoneFacts DEF Within
    <3> QED BY <2>7, <3>1 DEF Within
  <2>10. ASSUME NEW i \in 1 .. Len(hist), NEW u \in Units, NEW c \in Online
         PROVE  hist[i][u].seq[c] <= cur'[u].seq[c]
    <3>1. CASE c \in Members(u)
      <4>1. hist[i][u].seq[c] <= cur[c].seq[c]  BY <1>1, <2>1, <2>3 DEF Ordered
      <4> QED BY <2>7, <3>1, <4>1
    <3>2. CASE c \notin Members(u)
      <4>1. hist[i][u].seq[c] = 0  BY <1>4, <3>2 DEF SamplesOK, Within
      <4> QED BY <2>7, <3>2, <4>1
    <3> QED BY <3>1, <3>2
  <2>11. Len(hist) < MaxReads  BY <1>1, <2>1 DEF Progress
  <2>12. PICK x \in [Units -> Samples] : x = cur'  BY <2>8
  <2> QED BY <1>1, <1>3, <1>4, <2>1, <2>9, <2>10, <2>11, <2>12, PushSamples
<1>10. CASE DirectRead
  <2>1. /\ UNCHANGED <<cur, hist, caller>> /\ caller = "separate" /\ AllDone /\ todo # {}
    BY <1>10 DEF DirectRead
  <2>2. PICK r \in todo : r = NextRead  BY <1>1, <2>1, NextReadIn DEF Types
  <2>3. /\ todo' = todo \ {r}
        /\ exec' = [exec EXCEPT ![r[2]] = [Idle EXCEPT !.step = "freeze", !.unit = r[1]]]
    BY <1>10, <2>2 DEF DirectRead
  <2>4. r \in Reads /\ r = <<r[1], r[2]>> /\ r[1] \in Units /\ r[2] \in Online
    BY <1>1 DEF Types, Reads
  <2>5. SampleTypes' /\ Ordered'  BY <1>1, <2>1 DEF SampleTypes, Ordered
  <2>6. SamplesOK(tab)'  BY <1>3, <1>4, <2>1 DEF SamplesOK, Within
  <2>7. \A c \in Online : Free(c)  BY <2>1 DEF AllDone
  <2>8. /\ exec'[r[2]].step = "freeze" /\ exec'[r[2]].unit = r[1]
        /\ \A c \in Online \ {r[2]} : exec'[c] = exec[c]
    BY <1>1, <2>3, <2>4 DEF Types, Idle
  <2>9. ASSUME NEW x \in Reads
        PROVE  IF x \in todo' THEN cur'[x[1]].seq[x[2]] = 0
               ELSE \/ cur'[x[1]].seq[x[2]] # 0
                    \/ ~Free(x[2])' /\ exec'[x[2]].unit = x[1]
    <3>1. x[2] \in Online  BY DEF Reads
    <3>2. IF x \in todo THEN cur[x[1]].seq[x[2]] = 0 ELSE cur[x[1]].seq[x[2]] # 0
      BY <1>1, <2>1, <2>7, <3>1 DEF Progress
    <3>3. CASE x = r  BY <2>3, <2>8, <3>3 DEF Free
    <3>4. CASE x # r  BY <2>1, <2>3, <3>2, <3>4
    <3> QED BY <3>3, <3>4
  <2>10. ASSUME NEW c \in Online, ~Free(c)'
         PROVE  <<exec'[c].unit, c>> \in Reads \ todo' /\ cur'[exec'[c].unit].seq[c] = 0
    <3>1. c = r[2]  BY <2>7, <2>8, <2>10 DEF Free
    <3>2. <<exec'[c].unit, c>> = r  BY <2>4, <2>8, <3>1
    <3>3. cur[r[1]].seq[r[2]] = 0  BY <1>1, <2>1, <2>4 DEF Progress
    <3> QED BY <2>1, <2>3, <2>4, <2>8, <3>1, <3>2, <3>3
  <2>11. Progress'  BY <1>1, <2>1, <2>9, <2>10 DEF Progress
  <2> QED BY <2>5, <2>6, <2>11
<1>11. CASE ReadSeparatelyDone
  <2>1. /\ caller = "separate" /\ caller' = "ready" /\ AllDone /\ todo = {}
        /\ cur' = cur /\ hist' = <<cur>> \o hist
    BY <1>11 DEF ReadSeparatelyDone
  <2>2. ASSUME NEW u \in Units, NEW c \in Members(u) PROVE cur[u].seq[c] # 0
    <3>1. c \in Online  BY DEF Members
    <3>2. <<u, c>> \in Reads /\ Free(c)  BY <2>1, <3>1 DEF Reads, AllDone
    <3>3. PICK r \in Reads : r = <<u, c>>  BY <3>2
    <3>4. cur[r[1]].seq[r[2]] # 0  BY <1>1, <2>1, <3>2, <3>3 DEF Progress
    <3> QED BY <3>3, <3>4
  <2>3. ASSUME NEW i \in 1 .. Len(hist), NEW u \in Units, NEW c \in Online
        PROVE  hist[i][u].seq[c] <= cur[u].seq[c]
    <3>1. CASE c \in Members(u)  BY <1>1, <2>1, <2>2, <3>1 DEF Ordered
    <3>2. CASE c \notin Members(u)
      <4>1. hist[i][u].seq[c] = 0  BY <1>4, <3>2 DEF SamplesOK, Within
      <4> QED BY <1>5, <4>1
    <3> QED BY <3>1, <3>2
  <2>4. Len(hist) < MaxReads  BY <1>1, <2>1 DEF Progress
  <2>5. \A u \in Units : Within(tab, u, cur[u])  BY <1>4 DEF SamplesOK
  <2>6. PICK x \in [Units -> Samples] : x = cur  BY <1>5
  <2> QED BY <1>1, <1>3, <1>4, <2>1, <2>3, <2>4, <2>5, <2>6, PushSamples
<1> QED BY <1>7, <1>8, <1>9, <1>10, <1>11 DEF Called

-----------------------------------------------------------------------------
(* The invariant.                                                          *)

\* The table before the first reading.
NoReadings ==
    LET none == [c \in Online |-> [n \in Nat |-> 0]] IN
    [data |-> [k \in Counters |-> none], ovf |-> [k \in Counters |-> none],
     true |-> [k \in Counters |-> none],
     marked |-> [c \in Online |-> [n \in Nat |-> FALSE]]]

\* The table before the first reading is a table.
LEMMA NoReadingsOK == TableOK(NoReadings)
<1> DEFINE none == [c \in Online |-> [n \in Nat |-> 0]]
<1>1. none \in Readings /\ \A c \in Online, n \in Nat : none[c][n] = 0  BY DEF Readings
<1>2. /\ NoReadings.data = [k \in Counters |-> none] /\ NoReadings.ovf = [k \in Counters |-> none]
      /\ NoReadings.true = [k \in Counters |-> none]
      /\ NoReadings.marked = [c \in Online |-> [n \in Nat |-> FALSE]]
      /\ NoReadings = [data |-> NoReadings.data, ovf |-> NoReadings.ovf,
                       true |-> NoReadings.true, marked |-> NoReadings.marked]
    BY DEF NoReadings
<1> HIDE DEF none
<1>3. NoReadings \in Tables
  <2>1. /\ NoReadings.data \in [Counters -> Readings] /\ NoReadings.ovf \in [Counters -> Readings]
        /\ NoReadings.true \in [Counters -> Readings]
    BY <1>1, <1>2
  <2>2. NoReadings.marked \in [Online -> [Nat -> BOOLEAN]]  BY <1>2
  <2> QED BY <1>2, <2>1, <2>2 DEF Tables
<1>4. \A c \in Online : ~NoReadings.marked[c][0]  BY <1>2
<1>5. \A k \in Counters, c \in Online, n \in Nat :
         /\ NoReadings.data[k][c][n] = 0 /\ NoReadings.ovf[k][c][n] = 0
         /\ NoReadings.true[k][c][n] = 0
    BY <1>1, <1>2
<1>6. 0 < Modulus /\ Overflowing \subseteq Counters  BY Moduli DEF Overflowing, Counters
<1> QED BY <1>3, <1>4, <1>5, <1>6 DEF TableOK

\* The invariant holds at the start, with the empty table ...
LEMMA CoreIInvInit ==
    ASSUME Init
    PROVE  CoreIInv
<1> USE Basics
<1>1. Control /\ Types  BY ControlInit DEF Control
<1>2. /\ caller = "start" /\ hist = <<>> /\ cur = [u \in Units |-> Zero] /\ events = 0
      /\ \A c \in Online : /\ exec[c].step = "idle" /\ nread[c] = 0
                           /\ \A k \in Counters : total[c][k] = 0
    BY DEF Init
<1>3. TableOK(NoReadings)  BY NoReadingsOK
<1>4. Zero \in Samples /\ OfTable(NoReadings, Zero) /\ \A c \in Online : Zero.seq[c] = 0
    BY <1>3, ZeroSample
<1>5. Len(hist) = 0 /\ hist \in Seq([Units -> Samples])  BY <1>2
<1>6. SampleTypes  BY <1>2, <1>4, <1>5 DEF SampleTypes
<1>7. Ordered /\ Progress  BY <1>2, <1>5 DEF Ordered, Progress
<1>8. \A c \in Online : Done(c) = 0 /\ ~Live(c)
    BY <1>2 DEF Done, Frozen, Window, Live
<1>9. CoresOK(NoReadings)  BY <1>8 DEF CoresOK, CoreOK, Past
<1>10. SamplesOK(NoReadings)
  <2>1. \A u \in Units : Within(NoReadings, u, cur[u])  BY <1>2, <1>4, <1>8 DEF Within
  <2> QED BY <1>5, <2>1 DEF SamplesOK
<1>11. SlotsBound
  <2>1. SlotsCounted \in [Online -> Int] /\ \A c \in Online \ {} : SlotsCounted[c] = 0
    BY <1>2 DEF SlotsCounted, Counters
  <2>2. Sum(SlotsCounted, Online) = Sum(SlotsCounted, {})  BY <2>1, SumSupport
  <2>3. Sum(SlotsCounted, {}) = 0  BY <2>1, SumFacts
  <2> QED BY <1>2, <2>2, <2>3 DEF SlotsBound
<1> QED BY <1>1, <1>3, <1>6, <1>7, <1>9, <1>10, <1>11 DEF CoreIInv, Data

\* ... and every step preserves it, with the table it needs.
LEMMA CoreIInvNext ==
    ASSUME CoreIInv, [Next]_vars
    PROVE  CoreIInv'
<1>1. Control' /\ SlotsBound'  BY ControlNext, SlotsBoundNext DEF CoreIInv
<1>2. ASSUME NEW c \in Online, Quiet(c) PROVE CoreIInv'
    BY <1>1, <1>2, QuietSamples DEF CoreIInv
<1>3. ASSUME NEW c \in Online, Unfreeze(c) PROVE CoreIInv'
    BY <1>1, <1>3, UnfreezeSamples DEF CoreIInv
<1>4. CASE Called
    BY <1>1, <1>4, CallerSamples DEF CoreIInv
<1>5. CASE UNCHANGED vars
  <2>1. UNCHANGED <<caller, task, exec, todo, cur, hist>>
    BY <1>5 DEF vars, control
  <2>2. SampleTypes' /\ Ordered' /\ Progress'
    BY <2>1 DEF CoreIInv, SampleTypes, Ordered, Progress, Free
  <2>3. PICK tab : Data(tab)  BY DEF CoreIInv
  <2>4. \A d \in Online : Same(d)  BY <1>5 DEF Same, vars, hardware, pcm, control, ghosts
  <2>5. \A d \in Online : CoreOK(tab, d)' /\ Done(d)' = Done(d)
    BY <2>3, <2>4, SameCore DEF Data, CoresOK
  <2>6. SamplesOK(tab)'  BY <2>1, <2>3, <2>5 DEF Data, SamplesOK, Within
  <2>7. Data(tab)'  BY <2>3, <2>5, <2>6 DEF Data, CoresOK
  <2> QED BY <1>1, <2>2, <2>7 DEF CoreIInv
<1> QED BY <1>2, <1>3, <1>4, <1>5, Steps

\* The samples of every unit are sums of readings of its cores, each compared
\* with what the core has counted, in every state.
THEOREM CoreInvariant == Spec => []CoreIInv
<1>1. Init => CoreIInv  BY CoreIInvInit
<1>2. CoreIInv /\ [Next]_vars => CoreIInv'  BY CoreIInvNext
<1> QED BY <1>1, <1>2, PTL DEF Spec

-----------------------------------------------------------------------------
(* What follows from it.                                                   *)

\* The cores of unit u were read once between two samples, and each of these
\* readings is exact: then so is the difference of the samples.
LEMMA ExactDifference ==
    ASSUME NEW tab, TableOK(tab), NEW u, NEW k \in Overflowing,
           NEW a \in Samples, NEW b \in Samples, OfTable(tab, a), OfTable(tab, b),
           \A c \in Online \ Members(u) : a.seq[c] = 0 /\ b.seq[c] = 0,
           \A c \in Members(u) :
              LET n == a.seq[c]  m == b.seq[c] IN
              /\ tab.data[k][c][n] + tab.ovf[k][c][n] * Modulus - tab.data[k][c][m]
                    = tab.true[k][c][n] - tab.true[k][c][m]
              /\ tab.true[k][c][n] - tab.true[k][c][m] \in 0 .. Modulus
    PROVE  Minus(a, b, k) = True(a, b, k)
<1>1. k \in Counters /\ Members(u) \in SUBSET Online
    BY DEF Overflowing, Counters, Members
<1>2. a.seq \in Numbers /\ b.seq \in Numbers  BY DEF Samples
<1>3. /\ tab.data[k] \in Readings /\ tab.ovf[k] \in Readings /\ tab.true[k] \in Readings
      /\ \A d \in Online : /\ tab.data[k][d][0] = 0 /\ tab.ovf[k][d][0] = 0
                           /\ tab.true[k][d][0] = 0
    BY <1>1, TableTypes
<1> DEFINE A == Column(tab.data[k], a.seq)
           O == Column(tab.ovf[k], a.seq)
           B == Column(tab.data[k], b.seq)
           V == Column(tab.true[k], a.seq)
           W == Column(tab.true[k], b.seq)
           P == [c \in Online |-> O[c] * Modulus]
           D == [c \in Online |-> V[c] - W[c]]
           L == [c \in Online |-> A[c] + P[c]]
<1>4. /\ A \in [Online -> Int] /\ O \in [Online -> Int] /\ B \in [Online -> Int]
      /\ V \in [Online -> Int] /\ W \in [Online -> Int]
    BY <1>2, <1>3, ColumnType
<1>5. \A c \in Online : /\ A[c] = tab.data[k][c][a.seq[c]] /\ O[c] = tab.ovf[k][c][a.seq[c]]
                        /\ B[c] = tab.data[k][c][b.seq[c]]
                        /\ V[c] = tab.true[k][c][a.seq[c]] /\ W[c] = tab.true[k][c][b.seq[c]]
    BY <1>2, <1>3, ColumnType
<1> HIDE DEF A, O, B, V, W
<1>6. P \in [Online -> Int] /\ \A c \in Online : P[c] = O[c] * Modulus  BY <1>4, Moduli
<1>7. D \in [Online -> Int] /\ \A c \in Online : D[c] = V[c] - W[c] /\ V[c] = D[c] + W[c]
  <2>1. \A c \in Online : V[c] \in Int /\ W[c] \in Int  BY <1>4
  <2> QED BY <2>1
<1>8. L \in [Online -> Int] /\ \A c \in Online : L[c] = A[c] + P[c]
  <2>1. \A c \in Online : A[c] \in Int /\ P[c] \in Int  BY <1>4, <1>6
  <2> HIDE DEF P
  <2> QED BY <2>1
<1> HIDE DEF P, D, L
<1>9. ASSUME NEW c \in Online PROVE L[c] = B[c] + D[c]
  <2>0. A[c] \in Int /\ P[c] \in Int /\ B[c] \in Int /\ D[c] \in Int  BY <1>4, <1>6, <1>7
  <2>1. CASE c \in Members(u)
    <3>1. A[c] + P[c] - B[c] = D[c]
      BY <1>5, <1>6, <1>7, <2>1
    <3> QED BY <1>8, <2>0, <3>1
  <2>2. CASE c \notin Members(u)
    <3>1. A[c] = 0 /\ O[c] = 0 /\ B[c] = 0 /\ V[c] = 0 /\ W[c] = 0  BY <1>3, <1>5, <2>2
    <3>2. P[c] = 0  BY <1>6, <3>1, Moduli
    <3> QED BY <1>7, <1>8, <3>1, <3>2
  <2> QED BY <2>1, <2>2
<1>10. Sum(L, Online) = Sum(A, Online) + Sum(P, Online)  BY <1>4, <1>6, <1>8, SumLinear
<1>11. Sum(L, Online) = Sum(B, Online) + Sum(D, Online)
  <2>1. B \in [Online -> Int] /\ D \in [Online -> Int] /\ L \in [Online -> Int]
    BY <1>4, <1>7, <1>8
  <2>2. \A c \in Online : L[c] = B[c] + D[c]  BY <1>9
  <2> QED BY <2>1, <2>2, SumLinear
<1>12. Sum(V, Online) = Sum(D, Online) + Sum(W, Online)  BY <1>4, <1>7, SumLinear
<1>13. Sum(P, Online) = Sum(O, Online) * Modulus  BY <1>4, <1>6, Moduli, SumScale
<1>14. Sum(D, Online) \in 0 .. Word - 1
  <2>1. \A c \in Online \ Members(u) : D[c] = 0
    BY <1>3, <1>5, <1>7
  <2>2. \A c \in Online : D[c] \in 0 .. Modulus
    <3>1. \A c \in Members(u) : D[c] \in 0 .. Modulus  BY <1>1, <1>5, <1>7
    <3>2. 0 \in 0 .. Modulus  BY Moduli
    <3> QED BY <2>1, <3>1, <3>2
  <2>3. Sum(D, Online) = Sum(D, Members(u))  BY <1>1, <1>7, <2>1, SumSupport
  <2>4. Sum(D, Members(u)) \in 0 .. Cardinality(Members(u)) * Modulus
    BY <1>1, <1>7, <2>2, Moduli, SumBound
  <2>5. Cardinality(Members(u)) * Modulus < Word /\ Cardinality(Members(u)) \in Nat
    BY <1>1, Moduli
  <2>6. PICK m \in Nat : m = Cardinality(Members(u)) * Modulus  BY <2>5, Moduli
  <2> QED BY <2>3, <2>4, <2>5, <2>6, Moduli
<1>15. /\ a.data[k] = Sum(A, Online) /\ a.overflows[k] = Sum(O, Online)
       /\ b.data[k] = Sum(B, Online)
       /\ a.true[k] = Sum(V, Online) /\ b.true[k] = Sum(W, Online)
    BY <1>1 DEF OfTable, Total, A, O, B, V, W
<1>16. PICK s1 \in Int, s2 \in Int, s3 \in Int, s4 \in Int :
          /\ s1 = Sum(A, Online) /\ s2 = Sum(P, Online) /\ s3 = Sum(B, Online)
          /\ s4 = Sum(W, Online)
    BY <1>4, <1>6, SumFacts
<1>17. PICK d \in 0 .. Word - 1 : d = Sum(D, Online)  BY <1>14
<1>18. s1 + s2 - s3 = d  BY <1>10, <1>11, <1>16, <1>17
<1>19. Minus(a, b, k) = (s1 + s2 - s3) % Word
    BY <1>13, <1>15, <1>16 DEF Minus
<1>20. True(a, b, k) = d  BY <1>12, <1>15, <1>16, <1>17 DEF True
<1>21. d % Word = d
  <2>1. d \in Int /\ Word \in Nat \ {0}  BY Moduli
  <2> QED BY <2>1, ModRange
<1> QED BY <1>18, <1>19, <1>20, <1>21

\* Two samples of a unit: what they are made of.
LEMMA TwoSamples ==
    ASSUME CoreIInv, NEW tab, Data(tab), NEW p \in Pairs, NEW u \in Units,
           NEW i, NEW j, p = <<i, j>>
    PROVE  /\ i \in 1 .. Len(hist) /\ j \in 1 .. Len(hist) /\ i < j
           /\ hist[i][u] \in Samples /\ hist[j][u] \in Samples
           /\ Within(tab, u, hist[i][u]) /\ Within(tab, u, hist[j][u])
<1>1. i \in 1 .. Len(hist) /\ j \in 1 .. Len(hist) /\ i < j  BY DEF Pairs
<1>2. hist \in Seq([Units -> Samples])  BY DEF CoreIInv, SampleTypes
<1> QED BY <1>1, <1>2 DEF Data, SamplesOK

\* A reading that is exact, and how much was counted since the one before.
LEMMA PastReading ==
    ASSUME NEW tab, TableOK(tab), NEW c \in Online, Past(tab, c), Done(c) \in Nat,
           NEW n \in 1 .. Done(c), NEW k \in Overflowing
    PROVE  /\ tab.true[k][c][n] - tab.true[k][c][n - 1] \in 0 .. Modulus
           /\ k = "fixed" \/ taken[c] = -1 \/ n < taken[c] =>
                 tab.data[k][c][n] + tab.ovf[k][c][n] * Modulus - tab.data[k][c][n - 1]
                    = tab.true[k][c][n] - tab.true[k][c][n - 1]
<1>1. k \in Counters /\ Limit(k) = Modulus  BY DEF Overflowing, Counters, Limit
<1>2. PICK x \in Nat, y \in Nat : x = tab.true[k][c][n] /\ y = tab.true[k][c][n - 1]
  <2>1. n \in Nat /\ n - 1 \in Nat  OBVIOUS
  <2> QED BY <1>1, <2>1, Entries
<1>3. n - 1 \in 0 .. n  OBVIOUS
<1>4. x - y <= Modulus /\ y <= x  BY <1>1, <1>2, <1>3 DEF Past
<1>5. x - y \in 0 .. Modulus  BY <1>4, Moduli
<1> QED BY <1>2, <1>5 DEF Past

\* Two samples between which every core of the unit was read once.
LEMMA ConsecutivePair ==
    ASSUME CoreIInv, NEW tab, Data(tab), NEW u \in Units, NEW a \in Samples, NEW b \in Samples,
           Within(tab, u, a), Within(tab, u, b), ReadOnce(u, a, b)
    PROVE  Minus(a, b, "fixed") = True(a, b, "fixed")
<1>1. ASSUME NEW c \in Members(u)
      PROVE  LET n == a.seq[c]  m == b.seq[c] IN
             /\ tab.data["fixed"][c][n] + tab.ovf["fixed"][c][n] * Modulus - tab.data["fixed"][c][m]
                    = tab.true["fixed"][c][n] - tab.true["fixed"][c][m]
             /\ tab.true["fixed"][c][n] - tab.true["fixed"][c][m] \in 0 .. Modulus
  <2>1. c \in Online  BY DEF Members
  <2>2. a.seq[c] = b.seq[c] + 1 /\ b.seq[c] \in Nat  BY <2>1 DEF ReadOnce, Samples, Numbers
  <2>3. Done(c) \in Nat  BY <2>1, DoneFacts DEF CoreIInv, Control
  <2>4. PICK n \in 1 .. Done(c) : n = a.seq[c] /\ b.seq[c] = n - 1
    <3>1. a.seq[c] <= Done(c)  BY <2>1 DEF Within
    <3> QED BY <2>2, <2>3, <3>1
  <2>5. TableOK(tab) /\ Past(tab, c)  BY <2>1 DEF Data, CoresOK, CoreOK
  <2>6. "fixed" \in Overflowing  BY DEF Overflowing
  <2> QED BY <2>1, <2>3, <2>4, <2>5, <2>6, PastReading
<1>2. \A c \in Online \ Members(u) : a.seq[c] = 0 /\ b.seq[c] = 0  BY DEF Within
<1>3. TableOK(tab) /\ OfTable(tab, a) /\ OfTable(tab, b)  BY DEF Data, Within
<1>4. "fixed" \in Overflowing  BY DEF Overflowing
<1> QED BY <1>1, <1>2, <1>3, <1>4, ExactDifference

\* The invariant implies that consecutive differences are exact.
LEMMA ConsecutiveExactHolds ==
    ASSUME CoreIInv
    PROVE  ConsecutiveExact
<1>1. PICK tab : Data(tab)  BY DEF CoreIInv
<1>2. ASSUME NEW p \in Pairs, NEW u \in Units,
             ReadOnce(u, hist[p[1]][u], hist[p[2]][u])
      PROVE  Minus(hist[p[1]][u], hist[p[2]][u], "fixed")
                = True(hist[p[1]][u], hist[p[2]][u], "fixed")
  <2>1. p = <<p[1], p[2]>>  BY DEF Pairs
  <2>2. PICK a \in Samples, b \in Samples :
           /\ a = hist[p[1]][u] /\ b = hist[p[2]][u]
           /\ Within(tab, u, a) /\ Within(tab, u, b)
    BY <1>1, <2>1, TwoSamples
  <2>3. ReadOnce(u, a, b)  BY <1>2, <2>2
  <2>4. Minus(a, b, "fixed") = True(a, b, "fixed")  BY <1>1, <2>2, <2>3, ConsecutivePair
  <2> QED BY <2>2, <2>4
<1> QED BY <1>2 DEF ConsecutiveExact

\* Two samples of a core, neither of which is marked.
LEMMA UnmarkedPair ==
    ASSUME CoreIInv, NEW tab, Data(tab), NEW c \in Online, NEW a \in Samples, NEW b \in Samples,
           Within(tab, c, a), Within(tab, c, b), ReadOnce(c, a, b),
           ~a.marked, ~b.marked, taken[c] # a.seq[c]
    PROVE  Minus(a, b, "gen") = True(a, b, "gen")
<1>1. Members(c) = {c}  BY MembersOf
<1>2. a.seq[c] = b.seq[c] + 1 /\ b.seq[c] \in Nat  BY <1>1 DEF ReadOnce, Samples, Numbers
<1>3. Done(c) \in Nat /\ taken[c] \in Int  BY DoneFacts, CoreTypes DEF CoreIInv, Control
<1>4. PICK n \in 1 .. Done(c) : n = a.seq[c] /\ b.seq[c] = n - 1
  <2>1. a.seq[c] <= Done(c)  BY DEF Within
  <2> QED BY <1>2, <1>3, <2>1
<1>5. TableOK(tab) /\ OfTable(tab, a) /\ OfTable(tab, b)  BY DEF Data, Within
<1>6. Past(tab, c)  BY DEF Data, CoresOK, CoreOK
<1>7. ~tab.marked[c][n]
  <2>1. tab.marked[c][a.seq[c]] => a.marked  BY <1>5 DEF OfTable
  <2> QED BY <1>4, <2>1
<1>8. taken[c] = -1 \/ n < taken[c]
  <2>1. taken[c] # -1 /\ taken[c] < n => tab.marked[c][n]  BY <1>6 DEF Past
  <2>2. taken[c] # n  BY <1>4
  <2>3. n \in Int  BY <1>3
  <2> QED BY <1>3, <1>7, <2>1, <2>2, <2>3
<1>9. "gen" \in Overflowing  BY DEF Overflowing
<1>10. /\ tab.data["gen"][c][n] + tab.ovf["gen"][c][n] * Modulus - tab.data["gen"][c][n - 1]
             = tab.true["gen"][c][n] - tab.true["gen"][c][n - 1]
       /\ tab.true["gen"][c][n] - tab.true["gen"][c][n - 1] \in 0 .. Modulus
    BY <1>3, <1>5, <1>6, <1>8, <1>9, PastReading
<1>11. \A d \in Online \ Members(c) : a.seq[d] = 0 /\ b.seq[d] = 0  BY DEF Within
<1>12. \A d \in Members(c) :
          LET i == a.seq[d]  j == b.seq[d] IN
          /\ tab.data["gen"][d][i] + tab.ovf["gen"][d][i] * Modulus - tab.data["gen"][d][j]
                = tab.true["gen"][d][i] - tab.true["gen"][d][j]
          /\ tab.true["gen"][d][i] - tab.true["gen"][d][j] \in 0 .. Modulus
    BY <1>1, <1>4, <1>10
<1> QED BY <1>5, <1>9, <1>11, <1>12, ExactDifference

\* The invariant implies that a counter taken by another program shows: a
\* reading after it was taken is marked, one before it is exact.
LEMMA CorruptionShowsHolds ==
    ASSUME CoreIInv
    PROVE  CorruptionShows
<1>1. PICK tab : Data(tab)  BY DEF CoreIInv
<1>2. ASSUME NEW p \in Pairs, NEW c \in Online,
             ReadOnce(c, hist[p[1]][c], hist[p[2]][c]),
             ~hist[p[1]][c].marked, ~hist[p[2]][c].marked,
             taken[c] # hist[p[1]][c].seq[c]
      PROVE  Minus(hist[p[1]][c], hist[p[2]][c], "gen")
                = True(hist[p[1]][c], hist[p[2]][c], "gen")
  <2>1. p = <<p[1], p[2]>> /\ c \in Units  BY Basics DEF Pairs
  <2>2. PICK a \in Samples, b \in Samples :
           /\ a = hist[p[1]][c] /\ b = hist[p[2]][c]
           /\ Within(tab, c, a) /\ Within(tab, c, b)
    BY <1>1, <2>1, TwoSamples
  <2>3. ReadOnce(c, a, b) /\ ~a.marked /\ ~b.marked /\ taken[c] # a.seq[c]  BY <1>2, <2>2
  <2>4. Minus(a, b, "gen") = True(a, b, "gen")  BY <1>1, <2>2, <2>3, UnmarkedPair
  <2> QED BY <2>2, <2>4
<1> QED BY <1>2 DEF CorruptionShows

\* The readings of a core grow, and never exceed what it has counted.
LEMMA ReadingsGrow ==
    ASSUME CoreIInv, NEW tab, Data(tab), NEW c \in Online, NEW k \in Counters,
           NEW n \in 0 .. Done(c)
    PROVE  /\ \A m \in 0 .. n : tab.true[k][c][m] <= tab.true[k][c][n]
           /\ tab.true[k][c][n] <= total[c][k]
<1>1. TableOK(tab) /\ CoreOK(tab, c)  BY DEF Data, CoresOK
<1>2. Types /\ Phase(c) /\ Setup(c)  BY DEF CoreIInv, Control
<1>3. Done(c) \in Nat /\ Done(c) <= nread[c] /\ nread[c] \in Nat /\ total[c][k] \in Nat
    BY <1>2, DoneFacts, CoreTypes
<1>4. ASSUME NEW i \in 0 .. Done(c), NEW m \in 0 .. i
      PROVE  tab.true[k][c][m] <= tab.true[k][c][i]
  <2>1. tab.true[k][c][m] \in Nat /\ tab.true[k][c][i] \in Nat
    <3>1. m \in Nat /\ i \in Nat  BY <1>3
    <3> QED BY <1>1, <3>1, Entries
  <2>2. CASE i = 0
    <3>1. m = 0  BY <2>2
    <3> QED BY <2>1, <2>2, <3>1
  <2>3. CASE i # 0
    <3>1. i \in 1 .. Done(c)  BY <1>3, <2>3
    <3> QED BY <1>1, <3>1 DEF CoreOK, Past
  <2> QED BY <2>2, <2>3
<1>5. tab.true[k][c][Done(c)] <= total[c][k]
  <2>1. CASE Live(c)
    <3>1. PICK t \in Nat : t = tab.true[k][c][Done(c)]  BY <1>1, <1>3, Entries
    <3>2. total[c][k] - t >= 0  BY <1>1, <2>1, <3>1 DEF CoreOK, CountersOK, Since
    <3> QED BY <1>3, <3>1, <3>2
  <2>2. CASE ~Live(c)
    <3>1. Done(c) = 0  BY <1>2, <1>3, <2>2 DEF Setup
    <3>2. tab.true[k][c][0] = 0  BY <1>1 DEF TableOK
    <3> QED BY <1>3, <3>1, <3>2
  <2> QED BY <2>1, <2>2
<1>6. tab.true[k][c][n] <= tab.true[k][c][Done(c)]
  <2>1. Done(c) \in 0 .. Done(c)  BY <1>3
  <2> QED BY <1>4, <2>1
<1>7. tab.true[k][c][n] \in Nat /\ tab.true[k][c][Done(c)] \in Nat  BY <1>1, <1>3, Entries
<1> QED BY <1>3, <1>4, <1>5, <1>6, <1>7

\* Fewer slots are counted than a 64 bit number can hold.
EventsFit == MaxEvents < Word

\* The slot counters are exact between two samples of a unit, the one not older
\* than the other: the sum in software is the count modulo 2^64.
LEMMA SlotsPair ==
    ASSUME CoreIInv, EventsFit, NEW tab, Data(tab), NEW u \in Units,
           NEW a \in Samples, NEW b \in Samples, Within(tab, u, a), Within(tab, u, b),
           \A c \in Online : b.seq[c] <= a.seq[c]
    PROVE  Minus(a, b, "slots") = True(a, b, "slots")
<1>5. TableOK(tab) /\ "slots" \in Counters /\ Types  BY DEF Data, Counters, CoreIInv, Control
<1>6. PICK X \in Readings : X = tab.true["slots"]  BY <1>5, TableTypes
<1>7. a.seq \in Numbers /\ b.seq \in Numbers  BY DEF Samples
<1>8. ASSUME NEW c \in Online
      PROVE  /\ X[c][b.seq[c]] <= X[c][a.seq[c]]
             /\ X[c][a.seq[c]] <= total[c]["slots"]
  <2>1. Done(c) \in Nat  BY DoneFacts DEF CoreIInv, Control
  <2>2. a.seq[c] \in Nat /\ b.seq[c] \in Nat  BY <1>7 DEF Numbers
  <2>3. a.seq[c] <= Done(c) /\ b.seq[c] <= a.seq[c]  BY DEF Within
  <2>4. a.seq[c] \in 0 .. Done(c) /\ b.seq[c] \in 0 .. a.seq[c]  BY <2>1, <2>2, <2>3
  <2> QED BY <1>5, <1>6, <2>4, ReadingsGrow
<1>9. Total(X, b.seq) <= Total(X, a.seq)  BY <1>7, <1>8, TotalMono
<1>10. Total(X, a.seq) <= Sum(SlotsCounted, Online)
  <2>1. SlotsCounted \in [Online -> Int] /\ \A c \in Online : SlotsCounted[c] = total[c]["slots"]
    BY <1>5, Basics DEF SlotsCounted, Types
  <2>2. Column(X, a.seq) \in [Online -> Int]
        /\ \A c \in Online : Column(X, a.seq)[c] = X[c][a.seq[c]]
    BY <1>7, ColumnType
  <2>3. \A c \in Online : Column(X, a.seq)[c] <= SlotsCounted[c]  BY <1>8, <2>1, <2>2
  <2>4. Sum(Column(X, a.seq), Online) <= Sum(SlotsCounted, Online)
    <3>1. PICK f \in [Online -> Int], g \in [Online -> Int] :
             f = Column(X, a.seq) /\ g = SlotsCounted
      BY <2>1, <2>2
    <3>2. \A c \in Online : f[c] <= g[c]  BY <2>3, <3>1
    <3>3. Sum(f, Online) <= Sum(g, Online)  BY <3>2, SumMono
    <3> QED BY <3>1, <3>3
  <2> QED BY <2>4 DEF Total
<1>11. Sum(SlotsCounted, Online) <= events /\ events <= MaxEvents /\ events \in Nat
       /\ Sum(SlotsCounted, Online) \in Int
  <2>1. SlotsCounted \in [Online -> Int]  BY <1>5, Basics DEF SlotsCounted, Types
  <2>2. Sum(SlotsCounted, Online) \in Int  BY <2>1, SumFacts
  <2>3. Sum(SlotsCounted, Online) <= events  BY DEF CoreIInv, SlotsBound
  <2>4. events <= MaxEvents /\ events \in Nat  BY <1>5, Basics DEF Types
  <2> QED BY <2>2, <2>3, <2>4
<1>12. PICK x \in Nat, y \in Nat : x = Total(X, a.seq) /\ y = Total(X, b.seq)
    BY <1>7, TotalType
<1>13. x - y \in 0 .. Word - 1
  <2>1. PICK z \in Int : z = Sum(SlotsCounted, Online)  BY <1>11
  <2>2. y <= x /\ x <= z /\ z <= events  BY <1>9, <1>10, <1>11, <1>12, <2>1
  <2>3. MaxEvents < Word /\ Word \in Nat /\ MaxEvents \in Nat  BY Basics, Moduli DEF EventsFit
  <2>4. events \in Nat /\ events <= MaxEvents  BY <1>11
  <2>5. x < Word  BY <2>2, <2>3, <2>4
  <2> QED BY <2>2, <2>3, <2>5
<1>14. /\ a.true["slots"] = x /\ b.true["slots"] = y /\ a.overflows["slots"] = 0
       /\ a.data["slots"] = x % Word /\ b.data["slots"] = y % Word
  <2>1. OfTable(tab, a) /\ OfTable(tab, b)  BY DEF Within
  <2>2. /\ a.true["slots"] = Total(X, a.seq) /\ a.overflows["slots"] = 0
        /\ a.data["slots"] = Total(X, a.seq) % Word
    BY <1>5, <1>6, <2>1 DEF OfTable
  <2>3. /\ b.true["slots"] = Total(X, b.seq)
        /\ b.data["slots"] = Total(X, b.seq) % Word
    BY <1>5, <1>6, <2>1 DEF OfTable
  <2> QED BY <1>12, <2>2, <2>3
<1>15. PICK v \in Int, w \in Int : v = x % Word /\ w = y % Word  BY Moduli
<1>16. 0 * Modulus = 0 /\ v + 0 - w = v - w  BY Moduli
<1>17. Minus(a, b, "slots") = (v - w) % Word
    BY <1>14, <1>15, <1>16 DEF Minus
<1>18. x \in Int /\ y \in Int /\ Word \in Nat \ {0}  BY Moduli
<1>19. ((x % Word) - (y % Word)) % Word = (x - y) % Word  BY <1>18, ModSum
<1>20. PICK d \in 0 .. Word - 1 : d = x - y  BY <1>13
<1>21. d % Word = d
  <2>1. d \in Int  BY Moduli
  <2> QED BY <1>18, <2>1, ModRange
<1>22. Minus(a, b, "slots") = x - y  BY <1>15, <1>17, <1>19, <1>20, <1>21
<1> QED BY <1>14, <1>22 DEF True

\* The invariant implies that the slot counters are exact between any two
\* samples: the sum in software is the count modulo 2^64.
LEMMA SlotsExactHolds ==
    ASSUME CoreIInv, EventsFit
    PROVE  SlotsExact
<1>1. PICK tab : Data(tab)  BY DEF CoreIInv
<1>2. ASSUME NEW p \in Pairs, NEW u \in Units
      PROVE  Minus(hist[p[1]][u], hist[p[2]][u], "slots")
                = True(hist[p[1]][u], hist[p[2]][u], "slots")
  <2>1. p = <<p[1], p[2]>>  BY DEF Pairs
  <2>2. PICK a \in Samples, b \in Samples :
           /\ a = hist[p[1]][u] /\ b = hist[p[2]][u]
           /\ Within(tab, u, a) /\ Within(tab, u, b)
    BY <1>1, <2>1, TwoSamples
  <2>3. p[1] \in 1 .. Len(hist) /\ p[2] \in 1 .. Len(hist) /\ p[1] < p[2]
    BY <1>1, <2>1, TwoSamples
  <2>4. \A c \in Online : b.seq[c] <= a.seq[c]  BY <2>2, <2>3 DEF CoreIInv, Ordered
  <2>5. Minus(a, b, "slots") = True(a, b, "slots")  BY <1>1, <2>2, <2>4, SlotsPair
  <2> QED BY <2>2, <2>5
<1> QED BY <1>2 DEF SlotsExact

\* The invariant implies the type invariant, the bound on samples included.
LEMMA TypeOKHolds ==
    ASSUME CoreIInv
    PROVE  TypeOK
<1>1. Types  BY DEF CoreIInv, Control
<1>2. ASSUME NEW c \in Cores
      PROVE  /\ exec[c].step \in ProgramSteps \cup ReadSteps \cup {"idle"}
             /\ exec[c].ovf \subseteq Counters
             /\ exec[c].unit \in Units
             /\ exec[c].val \in [Counters -> Nat]
    BY <1>1 DEF Types, Execs
<1>3. ASSUME NEW u \in Units, NEW k \in Overflowing
      PROVE  cur[u].data[k] \in 0 .. Cardinality(Members(u)) * (Modulus - 1)
  <2>1. PICK tab : Data(tab)  BY DEF CoreIInv
  <2>2. cur[u] \in Samples /\ Within(tab, u, cur[u]) /\ TableOK(tab)
    BY <2>1 DEF CoreIInv, SampleTypes, Data, SamplesOK
  <2>3. PICK s \in Samples : s = cur[u]  BY <2>2
  <2>4. s.seq \in Numbers /\ \A d \in Online \ Members(u) : s.seq[d] = 0
    BY <2>2, <2>3 DEF Samples, Within
  <2>5. Members(u) \in SUBSET Online  BY DEF Members
  <2>6. Total(tab.data[k], s.seq) \in 0 .. Cardinality(Members(u)) * (Modulus - 1)
    BY <2>2, <2>4, <2>5, SampleBound
  <2>7. cur[u].data[k] = Total(tab.data[k], s.seq)  BY <2>2, <2>3 DEF Within, OfTable
  <2> QED BY <2>6, <2>7
<1>4. Len(hist) <= MaxReads  BY DEF CoreIInv, Progress
<1> QED BY <1>1, <1>2, <1>3, <1>4 DEF TypeOK, Types

\* The invariant implies that no core is left frozen between calls.
LEMMA CountingResumesHolds ==
    ASSUME CoreIInv
    PROVE  CountingResumes
<1> SUFFICES ASSUME caller = "ready", NEW c \in Online PROVE enabled[c]
    BY DEF CountingResumes
<1>1. Phase(c) /\ Setup(c) /\ Types  BY DEF CoreIInv, Control
<1>2. Live(c) /\ ~Frozen(c)  BY <1>1 DEF Live, Frozen, Phase, Free, Window
<1> QED BY <1>1, <1>2 DEF Setup

\* checked_uint64: the difference of two samples between which each core of the
\* unit was read once is what the counters have counted, for all sizes.
THEOREM ConsecutiveExactProved == Spec => []ConsecutiveExact
  BY CoreInvariant, ConsecutiveExactHolds, PTL

\* checkCustomCoreProgramming: two samples of a core that are not marked differ
\* by what was counted, unless the counter was taken during the later reading.
THEOREM CorruptionShowsProved == Spec => []CorruptionShows
  BY CoreInvariant, CorruptionShowsHolds, PTL

\* Types, no core left frozen between calls, and slot counters that are exact
\* between any two samples, as long as 64 bits hold the slots.
THEOREM CoreCorrect == EventsFit => (Spec => []CoreInv)
<1> SUFFICES ASSUME EventsFit PROVE Spec => []CoreInv  OBVIOUS
<1>1. CoreIInv => CoreInv
    BY SlotsExactHolds, TypeOKHolds, CountingResumesHolds DEF CoreInv
<1> QED BY <1>1, CoreInvariant, PTL

=============================================================================
