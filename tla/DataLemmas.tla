----------------------------- MODULE DataLemmas -----------------------------
(***************************************************************************)
(* What the proofs of several parts need to know of data: induction over   *)
(* numbers and finite sets; what is left of a sequence when one place of it *)
(* is taken out, a record unlinked from a list, an entry removed from an   *)
(* array whose rest shifts; and the sum of a function over a finite set.   *)
(***************************************************************************)
EXTENDS Sums, SequencesExt, SequenceTheorems, FiniteSetTheorems, WellFoundedInduction, TLAPS

(* Induction over the numbers, for a set of them: whoever walks a list by  *)
(* its places reaches every place.                                         *)
LEMMA LessThanWellFounded ==
  \E R : IsWellFoundedOn(R, Nat) /\ \A m, n \in Nat : <<m, n>> \in R <=> m < n
<1>1. \A m, n \in Nat : <<m, n>> \in OpToRel(<, Nat) <=> m < n
  BY DEF OpToRel
<1> QED
  BY <1>1, NatLessThanWellFounded, Zenon

LEMMA LeastNumber ==
  ASSUME NEW T, T \subseteq Nat, T # {}
  PROVE  \E n \in T : \A m \in T : n <= m
<1>1. PICK R : IsWellFoundedOn(R, Nat) /\ \A m, n \in Nat : <<m, n>> \in R <=> m < n
  BY LessThanWellFounded, Zenon
<1>2. \A U : U \subseteq Nat /\ U # {} => \E n \in U : \A m \in U : ~(<<m, n>> \in R)
  <2> SUFFICES ASSUME NEW U, U \subseteq Nat, U # {}
               PROVE  \E n \in U : \A m \in U : ~(<<m, n>> \in R)
    OBVIOUS
  <2>1. IsWellFoundedOn(R, Nat)
    BY <1>1
  <2> QED
    BY <2>1, WFMin, Zenon
<1>3. PICK n \in T : \A m \in T : ~(<<m, n>> \in R)
  BY <1>2, Zenon
<1>4. \A m \in T : m \in Nat /\ n \in Nat /\ ~(m < n)
  BY <1>1, <1>3, Zenon
<1> QED
  BY <1>4

LEMMA EveryNumber ==
  ASSUME NEW T, T \subseteq Nat, 0 \in T, \A n \in T : n + 1 \in T
  PROVE  T = Nat
<1> SUFFICES ASSUME Nat \ T # {} PROVE FALSE
  OBVIOUS
<1>1. PICK n \in Nat \ T : \A m \in Nat \ T : n <= m
  BY LeastNumber
<1>2. n # 0 /\ n - 1 \in Nat
  BY <1>1
<1>3. n - 1 \in T
  BY <1>1, <1>2
<1> QED
  BY <1>1, <1>2, <1>3

LEMMA RemoveAtProperties ==
  ASSUME NEW S, NEW q \in Seq(S), NEW k \in 1 .. Len(q)
  PROVE  /\ RemoveAt(q, k) \in Seq(S)
         /\ Len(RemoveAt(q, k)) = Len(q) - 1
         /\ \A i \in 1 .. Len(q) - 1 : RemoveAt(q, k)[i] = IF i < k THEN q[i] ELSE q[i + 1]
<1> DEFINE before == SubSeq(q, 1, k - 1)
           after  == SubSeq(q, k + 1, Len(q))
<1>1. Len(q) \in Nat /\ \A i \in 1 .. Len(q) : q[i] \in S
  BY LenProperties, ElementOfSeq
<1>2. /\ before \in Seq(S) /\ Len(before) = k - 1
      /\ \A i \in 1 .. k - 1 : before[i] = q[i]
  BY <1>1
<1>3. /\ after \in Seq(S) /\ Len(after) = Len(q) - k
      /\ \A i \in 1 .. Len(q) - k : after[i] = q[k + i]
  BY <1>1
<1> HIDE DEF before, after
<1>4. /\ before \o after \in Seq(S)
      /\ Len(before \o after) = Len(before) + Len(after)
      /\ \A i \in 1 .. Len(before) + Len(after) :
           (before \o after)[i] = IF i <= Len(before) THEN before[i] ELSE after[i - Len(before)]
  BY <1>2, <1>3, ConcatProperties
<1>5. RemoveAt(q, k) = before \o after
  BY DEF RemoveAt, before, after
<1>6. RemoveAt(q, k) \in Seq(S) /\ Len(RemoveAt(q, k)) = Len(q) - 1
  <2>1. Len(before) + Len(after) = Len(q) - 1
    BY <1>1, <1>2, <1>3
  <2> QED
    BY <1>4, <1>5, <2>1, Zenon
<1>7. ASSUME NEW i \in 1 .. Len(q) - 1
      PROVE  RemoveAt(q, k)[i] = IF i < k THEN q[i] ELSE q[i + 1]
  <2>1. RemoveAt(q, k)[i] = IF i <= Len(before) THEN before[i] ELSE after[i - Len(before)]
    <3>1. i \in 1 .. Len(before) + Len(after)
      BY <1>1, <1>2, <1>3
    <3> QED
      BY <1>4, <1>5, <3>1
  <2>2. CASE i < k
    <3>1. i \in 1 .. k - 1 /\ i <= Len(before)
      BY <1>1, <1>2, <2>2
    <3> QED
      BY <1>2, <2>1, <2>2, <3>1
  <2>3. CASE ~(i < k)
    <3>1. /\ ~(i <= Len(before)) /\ i - Len(before) = i - (k - 1)
          /\ i - (k - 1) \in 1 .. Len(q) - k /\ k + (i - (k - 1)) = i + 1
      BY <1>1, <1>2, <2>3
    <3> QED
      BY <1>3, <2>1, <2>3, <3>1
  <2> QED
    BY <2>2, <2>3
<1> QED
  BY <1>6, <1>7

(* Nothing that is there once is there twice, and only one is gone. *)
LEMMA RemoveAtInjective ==
  ASSUME NEW S, NEW q \in Seq(S), NEW k \in 1 .. Len(q), IsInjective(q)
  PROVE  /\ IsInjective(RemoveAt(q, k))
         /\ \A i \in 1 .. Len(q) - 1 :
              \E j \in 1 .. Len(q) : RemoveAt(q, k)[i] = q[j] /\ q[j] # q[k]
         /\ \A j \in 1 .. Len(q) :
              q[j] # q[k] => \E i \in 1 .. Len(q) - 1 : RemoveAt(q, k)[i] = q[j]
<1>1. Len(q) \in Nat /\ \A i, j \in 1 .. Len(q) : q[i] = q[j] => i = j
  BY LenProperties DEF IsInjective
<1>2. /\ DOMAIN RemoveAt(q, k) = 1 .. Len(q) - 1
      /\ \A i \in 1 .. Len(q) - 1 : RemoveAt(q, k)[i] = IF i < k THEN q[i] ELSE q[i + 1]
  BY RemoveAtProperties, LenProperties
<1>3. \A i, j \in 1 .. Len(q) - 1 : RemoveAt(q, k)[i] = RemoveAt(q, k)[j] => i = j
  BY <1>1, <1>2
<1>4. ASSUME NEW i \in 1 .. Len(q) - 1
      PROVE  \E j \in 1 .. Len(q) : RemoveAt(q, k)[i] = q[j] /\ q[j] # q[k]
  BY <1>1, <1>2
<1>5. ASSUME NEW j \in 1 .. Len(q), q[j] # q[k]
      PROVE  \E i \in 1 .. Len(q) - 1 : RemoveAt(q, k)[i] = q[j]
  <2>1. CASE j < k
    <3>1. j \in 1 .. Len(q) - 1
      BY <1>1, <2>1
    <3> QED
      BY <1>2, <2>1, <3>1
  <2>2. CASE j > k
    <3>1. j - 1 \in 1 .. Len(q) - 1 /\ ~(j - 1 < k) /\ j - 1 + 1 = j
      BY <1>1, <2>2
    <3> QED
      BY <1>2, <3>1
  <2> QED
    BY <1>1, <1>5, <2>1, <2>2
<1> QED
  BY <1>2, <1>3, <1>4, <1>5 DEF IsInjective

-----------------------------------------------------------------------------
(* Sums over finite sets. *)

(* total is the table of the sums over the subsets of S. *)
Totals(f, S, total) ==
  total = [T \in SUBSET S |-> IF T = {} THEN 0
                              ELSE LET x == CHOOSE x \in T : TRUE IN f[x] + total[T \ {x}]]

Numeric(f, S) == \A x \in S : f[x] \in Int

(* A set without one element. *)
LEMMA OneLess ==
  ASSUME NEW T, NEW x \in T, NEW n \in Nat, IsFiniteSet(T), Cardinality(T) = n + 1
  PROVE  IsFiniteSet(T \ {x}) /\ Cardinality(T \ {x}) = n
<1>1. IsFiniteSet(T \ {x}) /\ Cardinality(T \ {x}) = Cardinality(T) - 1
  BY FS_RemoveElement
<1> QED
  BY <1>1

(* What holds of the empty set and of a finite set as soon as it holds of  *)
(* those with one element less, holds of them all: P is the sets it is     *)
(* true of.                                                                *)
LEMMA EveryFiniteSet ==
  ASSUME NEW S, IsFiniteSet(S), NEW P,
         {} \in P,
         \A T \in SUBSET S : T # {} /\ (\A x \in T : T \ {x} \in P) => T \in P
  PROVE  \A T \in SUBSET S : T \in P
<1> DEFINE Upto == {n \in Nat : \A T \in SUBSET S : IsFiniteSet(T) /\ Cardinality(T) = n => T \in P}
<1>1. 0 \in Upto
  BY FS_EmptySet
<1>2. ASSUME NEW n \in Upto PROVE n + 1 \in Upto
  <2>1. n \in Nat /\ \A T \in SUBSET S : IsFiniteSet(T) /\ Cardinality(T) = n => T \in P
    OBVIOUS
  <2>2. ASSUME NEW T \in SUBSET S, IsFiniteSet(T), Cardinality(T) = n + 1 PROVE T \in P
    <3>1. T # {}
      BY <2>1, <2>2, FS_EmptySet
    <3>2. ASSUME NEW x \in T PROVE T \ {x} \in P
      BY <2>1, <2>2, OneLess
    <3> QED
      BY <3>1, <3>2
  <2> QED
    BY <2>1, <2>2
<1>3. Upto = Nat
  <2> HIDE DEF Upto
  <2>1. Upto \subseteq Nat
    BY DEF Upto
  <2> QED
    BY <1>1, <1>2, <2>1, EveryNumber
<1>4. ASSUME NEW T \in SUBSET S PROVE T \in P
  <2>1. IsFiniteSet(T) /\ Cardinality(T) \in Nat
    BY FS_Subset, FS_CardinalityType
  <2>2. Cardinality(T) \in Upto
    BY <1>3, <2>1
  <2> QED
    BY <2>1, <2>2
<1> QED
  BY <1>4

(* There is such a table for a finite set: grown by the size of subsets. *)
LEMMA TotalsExist ==
  ASSUME NEW S, IsFiniteSet(S), NEW f
  PROVE  \E total : Totals(f, S, total)
<1> DEFINE size(T) == Cardinality(T)
           Row(g, T) == IF T = {} THEN 0 ELSE LET x == CHOOSE x \in T : TRUE IN f[x] + g[T \ {x}]
           Good(g, n) == \A T \in SUBSET S : Cardinality(T) <= n => g[T] = Row(g, T)
           Upto == {n \in Nat : \E g : g = [T \in SUBSET S |-> g[T]] /\ Good(g, n)}
<1>0. \A T \in SUBSET S : IsFiniteSet(T) /\ Cardinality(T) \in Nat
  BY FS_Subset, FS_CardinalityType
<1>1. 0 \in Upto
  <2> DEFINE g == [T \in SUBSET S |-> 0]
  <2>1. ASSUME NEW T \in SUBSET S, Cardinality(T) <= 0 PROVE T = {}
    <3>1. IsFiniteSet(T) /\ Cardinality(T) = 0
      BY <1>0, <2>1
    <3> QED
      BY <3>1, FS_EmptySet
  <2>2. Good(g, 0)
    BY <2>1
  <2>3. g = [T \in SUBSET S |-> g[T]]
    OBVIOUS
  <2> HIDE DEF g, Good
  <2> QED
    BY <2>2, <2>3
<1>2. ASSUME NEW n \in Upto PROVE n + 1 \in Upto
  <2>1. n \in Nat
    OBVIOUS
  <2>2. PICK g : g = [T \in SUBSET S |-> g[T]] /\ Good(g, n)
    OBVIOUS
  <2> DEFINE h == [T \in SUBSET S |-> IF Cardinality(T) <= n THEN g[T] ELSE Row(g, T)]
  <2>3. ASSUME NEW T \in SUBSET S, Cardinality(T) <= n + 1 PROVE h[T] = Row(h, T)
    <3>1. CASE T = {}
      <4>1. Cardinality(T) <= n
        BY <2>1, <3>1, FS_EmptySet
      <4> QED
        BY <2>2, <3>1, <4>1
    <3>2. CASE T # {}
      <4> DEFINE x == CHOOSE x \in T : TRUE
      <4>1. x \in T
        BY <3>2
      <4> HIDE DEF x
      <4>2. IsFiniteSet(T) /\ Cardinality(T) \in Nat
        BY <1>0
      <4>3. IsFiniteSet(T \ {x}) /\ Cardinality(T \ {x}) = Cardinality(T) - 1
        BY <4>1, <4>2, FS_RemoveElement
      <4>4. Cardinality(T \ {x}) <= n /\ T \ {x} \in SUBSET S
        BY <2>1, <2>3, <4>2, <4>3
      <4>5. h[T \ {x}] = g[T \ {x}]
        BY <4>4
      <4>6. h[T] = f[x] + g[T \ {x}]
        BY <2>2, <3>2 DEF x
      <4> QED
        BY <3>2, <4>5, <4>6 DEF x
    <3> QED
      BY <3>1, <3>2
  <2>4. h = [T \in SUBSET S |-> h[T]]
    OBVIOUS
  <2>5. Good(h, n + 1)
    <3> HIDE DEF h, Row
    <3> QED
      BY <2>3
  <2> HIDE DEF h, Good
  <2> QED
    BY <2>1, <2>4, <2>5
<1>3. Upto = Nat
  <2> HIDE DEF Upto
  <2>1. Upto \subseteq Nat
    BY DEF Upto
  <2> QED
    BY <1>1, <1>2, <2>1, EveryNumber
<1>4. Cardinality(S) \in Upto
  BY <1>0, <1>3
<1>5. PICK g : g = [T \in SUBSET S |-> g[T]] /\ Good(g, Cardinality(S))
  BY <1>4
<1>6. \A T \in SUBSET S : Cardinality(T) <= Cardinality(S)
  BY FS_Subset
<1>7. \A T \in SUBSET S : g[T] = Row(g, T)
  BY <1>5, <1>6
<1>8. Totals(f, S, g)
  BY <1>5, <1>7 DEF Totals
<1> QED
  BY <1>8

LEMMA TotalTable ==
  ASSUME NEW S, IsFiniteSet(S), NEW f
  PROVE  \E total : Totals(f, S, total) /\ Total(f, S) = total[S]
<1> DEFINE total == CHOOSE total : Totals(f, S, total)
<1>1. Totals(f, S, total)
  <2>1. \E t : Totals(f, S, t)
    BY TotalsExist
  <2> QED
    BY <2>1
<1>2. Total(f, S) = total[S]
  BY Zenon DEF Total, Totals
<1> QED
  BY <1>1, <1>2

(* Every element may be the first that is added. *)
LEMMA TableSums ==
  ASSUME NEW S, IsFiniteSet(S), NEW f, Numeric(f, S), NEW total, Totals(f, S, total)
  PROVE  \A T \in SUBSET S : total[T] \in Int /\ \A x \in T : total[T] = f[x] + total[T \ {x}]
<1> DEFINE Z == {T \in SUBSET S : total[T] \in Int}
           P == {T \in SUBSET S : \A x \in T : total[T] = f[x] + total[T \ {x}]}
<1>1. {} \in Z /\ {} \in P
  BY DEF Totals
<1>2. ASSUME NEW T \in SUBSET S, T # {}
      PROVE  \E c \in T : total[T] = f[c] + total[T \ {c}]
  BY <1>2 DEF Totals
<1>3. ASSUME NEW T \in SUBSET S, T # {}, \A x \in T : T \ {x} \in Z PROVE T \in Z
  <2>1. PICK c \in T : total[T] = f[c] + total[T \ {c}]
    BY <1>2, <1>3
  <2>2. f[c] \in Int /\ total[T \ {c}] \in Int
    BY <1>3 DEF Numeric
  <2> QED
    BY <2>1, <2>2
<1>4. \A T \in SUBSET S : total[T] \in Int
  <2> HIDE DEF Z
  <2>1. \A T \in SUBSET S : T \in Z
    BY <1>1, <1>3, EveryFiniteSet
  <2> QED
    BY <2>1 DEF Z
<1>5. ASSUME NEW T \in SUBSET S, T # {}, \A x \in T : T \ {x} \in P PROVE T \in P
  <2>1. PICK c \in T : total[T] = f[c] + total[T \ {c}]
    BY <1>2, <1>5
  <2>2. \A x \in T : \A y \in T \ {x} : total[T \ {x}] = f[y] + total[(T \ {x}) \ {y}]
    BY <1>5
  <2>3. ASSUME NEW x \in T PROVE total[T] = f[x] + total[T \ {x}]
    <3>1. CASE x = c
      BY <2>1, <3>1, Zenon
    <3>2. CASE x # c
      <4> DEFINE R == (T \ {x}) \ {c}
      <4>1. total[T \ {c}] = f[x] + total[(T \ {c}) \ {x}]
        BY <2>2, <3>2
      <4>2. total[T \ {x}] = f[c] + total[R]
        BY <2>2, <3>2
      <4>3. (T \ {c}) \ {x} = R /\ R \in SUBSET S
        OBVIOUS
      <4>4. total[R] \in Int /\ f[x] \in Int /\ f[c] \in Int
        BY <1>4, <4>3 DEF Numeric
      <4>5. total[T \ {c}] = f[x] + total[R]
        BY <4>1, <4>3
      <4> HIDE DEF R
      <4> QED
        BY <2>1, <4>2, <4>4, <4>5
    <3> QED
      BY <3>1, <3>2
  <2> QED
    BY <2>3
<1>6. \A T \in SUBSET S : T \in P
  <2> HIDE DEF P
  <2> QED
    BY <1>1, <1>5, EveryFiniteSet
<1> QED
  BY <1>4, <1>6

(* What is summed outside of a set does not matter. *)
LEMMA TableSame ==
  ASSUME NEW S, IsFiniteSet(S), NEW f, Numeric(f, S), NEW total, Totals(f, S, total),
         NEW R, IsFiniteSet(R), NEW g, Numeric(g, R), NEW sum, Totals(g, R, sum)
  PROVE  \A T \in SUBSET (S \cap R) : (\A x \in T : f[x] = g[x]) => total[T] = sum[T]
<1> DEFINE P == {T \in SUBSET (S \cap R) : (\A x \in T : f[x] = g[x]) => total[T] = sum[T]}
<1>0. IsFiniteSet(S \cap R)
  BY FS_Intersection
<1>1. {} \in P
  BY DEF Totals
<1>4. \A T \in SUBSET S : total[T] \in Int /\ \A x \in T : total[T] = f[x] + total[T \ {x}]
  BY TableSums
<1>5. \A T \in SUBSET R : sum[T] \in Int /\ \A x \in T : sum[T] = g[x] + sum[T \ {x}]
  BY TableSums
<1>2. ASSUME NEW T \in SUBSET (S \cap R), T # {}, \A x \in T : T \ {x} \in P PROVE T \in P
  <2>1. PICK x : x \in T
    BY <1>2
  <2>2. total[T] = f[x] + total[T \ {x}]
    BY <1>4, <2>1
  <2>3. sum[T] = g[x] + sum[T \ {x}]
    BY <1>5, <2>1
  <2>4. (\A y \in T \ {x} : f[y] = g[y]) => total[T \ {x}] = sum[T \ {x}]
    BY <1>2, <2>1
  <2> QED
    BY <2>1, <2>2, <2>3, <2>4
<1> HIDE DEF P
<1>3. \A T \in SUBSET (S \cap R) : T \in P
  BY <1>0, <1>1, <1>2, EveryFiniteSet
<1> QED
  BY <1>3 DEF P

-----------------------------------------------------------------------------
(* What the sum over a finite set is.                                      *)

LEMMA TotalSame ==
  ASSUME NEW S, IsFiniteSet(S), NEW f, NEW g, Numeric(f, S), \A x \in S : g[x] = f[x]
  PROVE  Total(g, S) = Total(f, S)
<1>1. PICK total : Totals(f, S, total) /\ Total(f, S) = total[S]
  BY TotalTable
<1>2. PICK sum : Totals(g, S, sum) /\ Total(g, S) = sum[S]
  BY TotalTable
<1>3. S \in SUBSET (S \cap S) /\ Numeric(g, S)
  BY DEF Numeric
<1>4. \A x \in S : f[x] = g[x]
  OBVIOUS
<1>5. total[S] = sum[S]
  BY <1>1, <1>2, <1>3, <1>4, TableSame
<1> QED
  BY <1>1, <1>2, <1>5

LEMMA TotalSplit ==
  ASSUME NEW S, IsFiniteSet(S), NEW f, Numeric(f, S)
  PROVE  /\ Total(f, S) \in Int
         /\ S = {} => Total(f, S) = 0
         /\ \A x \in S : Total(f, S) = f[x] + Total(f, S \ {x})
<1>1. PICK total : Totals(f, S, total) /\ Total(f, S) = total[S]
  BY TotalTable
<1>2. Total(f, S) \in Int
  BY <1>1, TableSums
<1>3. S = {} => Total(f, S) = 0
  BY <1>1 DEF Totals
<1>4. ASSUME NEW x \in S PROVE Total(f, S) = f[x] + Total(f, S \ {x})
  <2> DEFINE R == S \ {x}
  <2>1. IsFiniteSet(R) /\ R \in SUBSET (S \cap R) /\ Numeric(f, R)
    BY FS_Subset DEF Numeric
  <2>2. total[S] = f[x] + total[R]
    BY <1>1, TableSums
  <2> HIDE DEF R
  <2>3. PICK sum : Totals(f, R, sum) /\ Total(f, R) = sum[R]
    BY <2>1, TotalTable
  <2>4. total[R] = sum[R]
    BY <1>1, <2>1, <2>3, TableSame
  <2> QED
    BY <1>1, <2>2, <2>3, <2>4 DEF R
<1> QED
  BY <1>2, <1>3, <1>4

(* The function changes in one place. *)
LEMMA TotalMoved ==
  ASSUME NEW S, IsFiniteSet(S), NEW f, Numeric(f, S), NEW g, Numeric(g, S),
         NEW x \in S, \A y \in S \ {x} : g[y] = f[y]
  PROVE  Total(g, S) = Total(f, S) + g[x] - f[x]
<1> DEFINE R == S \ {x}
<1>1. IsFiniteSet(R) /\ Numeric(f, R) /\ \A y \in R : g[y] = f[y]
  BY FS_Subset DEF Numeric
<1>2. Total(f, S) = f[x] + Total(f, R)
  BY TotalSplit
<1>3. Total(g, S) = g[x] + Total(g, R)
  BY TotalSplit
<1> HIDE DEF R
<1>4. Total(g, R) = Total(f, R) /\ Total(f, R) \in Int
  BY <1>1, TotalSame, TotalSplit
<1>5. f[x] \in Int /\ g[x] \in Int
  BY DEF Numeric
<1> QED
  BY <1>2, <1>3, <1>4, <1>5

LEMMA TotalUnion ==
  ASSUME NEW A, IsFiniteSet(A), NEW B, IsFiniteSet(B), A \cap B = {}, NEW f, Numeric(f, A \cup B)
  PROVE  Total(f, A \cup B) = Total(f, A) + Total(f, B)
<1> DEFINE P == {T \in SUBSET B : Total(f, A \cup T) = Total(f, A) + Total(f, T)}
<1>0. Numeric(f, A) /\ Numeric(f, B)
  BY DEF Numeric
<1>1. {} \in P
  <2>1. A \cup {} = A /\ IsFiniteSet({}) /\ Numeric(f, {})
    BY FS_EmptySet DEF Numeric
  <2>2. Total(f, {}) = 0 /\ Total(f, A) \in Int
    BY <1>0, <2>1, TotalSplit
  <2> QED
    BY <2>1, <2>2
<1>2. ASSUME NEW T \in SUBSET B, T # {}, \A x \in T : T \ {x} \in P PROVE T \in P
  <2>1. PICK x : x \in T
    BY <1>2
  <2> DEFINE U == A \cup T
             R == T \ {x}
  <2>2. IsFiniteSet(T) /\ IsFiniteSet(U) /\ IsFiniteSet(R)
    BY FS_Subset, FS_Union
  <2>3. Numeric(f, T) /\ Numeric(f, U) /\ Numeric(f, R) /\ x \in U
    BY <2>1 DEF Numeric
  <2>4. U \ {x} = A \cup R
    BY <2>1
  <2>5. Total(f, A \cup R) = Total(f, A) + Total(f, R)
    BY <1>2, <2>1
  <2> HIDE DEF U
  <2>6. Total(f, U) = f[x] + Total(f, U \ {x})
    BY <2>2, <2>3, TotalSplit
  <2>7. Total(f, T) = f[x] + Total(f, R)
    BY <2>1, <2>2, <2>3, TotalSplit
  <2> HIDE DEF R
  <2>8. Total(f, A) \in Int /\ Total(f, R) \in Int
    BY <1>0, <2>2, <2>3, TotalSplit
  <2>9. f[x] \in Int
    BY <2>3 DEF Numeric
  <2>10. Total(f, U) = f[x] + (Total(f, A) + Total(f, R))
    BY <2>4, <2>5, <2>6, Zenon
  <2>11. Total(f, U) = Total(f, A) + Total(f, T)
    BY <2>7, <2>8, <2>9, <2>10
  <2> QED
    BY <2>11 DEF U
<1> HIDE DEF P
<1>3. \A T \in SUBSET B : T \in P
  BY <1>1, <1>2, EveryFiniteSet
<1> QED
  BY <1>3 DEF P

(* The elements take other names. *)
LEMMA TotalImage ==
  ASSUME NEW S, IsFiniteSet(S), NEW f, Numeric(f, S), NEW g, NEW h,
         \A x \in S : g[h[x]] = f[x], \A x, y \in S : h[x] = h[y] => x = y,
         NEW Named, Named = {h[x] : x \in S}
  PROVE  IsFiniteSet(Named) /\ Total(g, Named) = Total(f, S)
<1> DEFINE H(T) == {h[x] : x \in T}
           P == {T \in SUBSET S : IsFiniteSet(H(T)) /\ Total(g, H(T)) = Total(f, T)}
<1>0. ASSUME NEW T \in SUBSET S PROVE Numeric(g, H(T)) /\ Numeric(f, T) /\ IsFiniteSet(T)
  BY FS_Subset DEF Numeric
<1>1. {} \in P
  <2>1. H({}) = {} /\ IsFiniteSet({}) /\ Numeric(f, {}) /\ Numeric(g, {})
    BY FS_EmptySet DEF Numeric
  <2>2. Total(f, {}) = 0 /\ Total(g, {}) = 0
    BY <2>1, TotalSplit
  <2> QED
    BY <2>1, <2>2
<1>2. ASSUME NEW T \in SUBSET S, T # {}, \A x \in T : T \ {x} \in P PROVE T \in P
  <2>1. PICK x : x \in T
    BY <1>2
  <2> DEFINE R == T \ {x}
             HT == H(T)
             HR == H(R)
  <2>2. HT = HR \cup {h[x]} /\ h[x] \notin HR
    BY <2>1
  <2>3. IsFiniteSet(HR) /\ Total(g, HR) = Total(f, R) /\ R \in SUBSET S
    BY <1>2, <2>1
  <2>4. Numeric(g, HT) /\ Numeric(f, T) /\ IsFiniteSet(T)
    BY <1>0
  <2> HIDE DEF HT, HR
  <2>5. IsFiniteSet(HT)
    BY <2>2, <2>3, FS_AddElement
  <2>6. HT \ {h[x]} = HR /\ h[x] \in HT
    BY <2>2
  <2>7. Total(g, HT) = g[h[x]] + Total(g, HR)
    BY <2>4, <2>5, <2>6, TotalSplit
  <2>8. Total(f, T) = f[x] + Total(f, R)
    BY <2>1, <2>4, TotalSplit
  <2> HIDE DEF R
  <2>9. Total(g, HT) = Total(f, T)
    BY <2>1, <2>3, <2>7, <2>8
  <2> QED
    BY <2>5, <2>9 DEF HT
<1> HIDE DEF P
<1>3. \A T \in SUBSET S : T \in P
  BY <1>1, <1>2, EveryFiniteSet
<1>4. S \in SUBSET S
  OBVIOUS
<1> QED
  BY <1>0, <1>3, <1>4 DEF P

LEMMA FiniteImage ==
  ASSUME NEW S, IsFiniteSet(S), NEW h
  PROVE  IsFiniteSet({h[x] : x \in S})
<1> DEFINE T == {h[x] : x \in S}
           f == [x \in S |-> h[x]]
<1>1. f \in Surjection(S, T)
  BY DEF Surjection
<1> QED
  BY <1>1, FS_Surjection
=============================================================================
