---------------------------- MODULE Sums_proofs ----------------------------
(***************************************************************************)
(* What the proofs of several components need of numbers and of the sums   *)
(* of the community modules, which are folds over finite sets: least and   *)
(* greatest members, induction, sequences defined from their first member, *)
(* and how a sum changes with what is summed.                              *)
(***************************************************************************)
EXTENDS Integers, Functions, FiniteSetTheorems, WellFoundedInduction, TLAPS

-----------------------------------------------------------------------------
(* Numbers.                                                                *)

\* A set of numbers that is not empty has a least one.
LEMMA LeastNumber ==
    ASSUME NEW T, T \subseteq Nat, T # {}
    PROVE  \E x \in T : \A y \in T : x <= y
<1> DEFINE Less == {ss \in Nat \X Nat : ss[1] < ss[2]}
<1>1. IsWellFoundedOn(Less, Nat)
    BY NatLessThanWellFounded DEF OpToRel
<1> HIDE DEF Less
<1>2. PICK x \in T : \A y \in T : <<y, x>> \notin Less
    BY <1>1, WFMin
<1>3. ASSUME NEW y \in T PROVE x <= y
  <2>1. x \in Nat /\ y \in Nat /\ <<y, x>> \notin Less
    BY <1>2
  <2>2. <<y, x>> \in Nat \X Nat /\ <<y, x>>[1] = y /\ <<y, x>>[2] = x
    BY <2>1
  <2>3. ~(y < x)
    BY <2>1, <2>2 DEF Less
  <2> QED BY <2>1, <2>3
<1> QED BY <1>2, <1>3

\* Induction: a set with 0 and the successor of each of its numbers has every number.
LEMMA NumbersFromZero ==
    ASSUME NEW S, 0 \in S, \A n \in Nat : n \in S => n + 1 \in S
    PROVE  Nat \subseteq S
<1> SUFFICES ASSUME Nat \ S # {} PROVE FALSE
    OBVIOUS
<1>1. PICK x \in Nat \ S : \A y \in Nat \ S : x <= y
    BY LeastNumber
<1>2. x # 0 /\ x - 1 \in Nat
    BY <1>1
<1>3. x - 1 \in S
    BY <1>1, <1>2
<1> QED BY <1>1, <1>2, <1>3


\* A set of numbers up to n that is not empty has a greatest one, the one Max chooses.
LEMMA GreatestNumber ==
    ASSUME NEW n \in Nat, NEW T, T \subseteq 0 .. n, T # {}
    PROVE  \E x \in T : \A y \in T : x >= y
<1> DEFINE Down == {n - x : x \in T}
<1>1. Down \subseteq Nat /\ Down # {}
  <2>1. \A x \in T : n - x \in Nat
    OBVIOUS
  <2> QED BY <2>1
<1>2. PICK d \in Down : \A e \in Down : d <= e
    BY <1>1, LeastNumber
<1>3. PICK x \in T : d = n - x
    BY <1>2
<1>4. ASSUME NEW y \in T PROVE x >= y
  <2>1. n - x <= n - y
    BY <1>2, <1>3
  <2>2. x \in Nat /\ y \in Nat
    OBVIOUS
  <2> QED BY <2>1, <2>2
<1> QED BY <1>4

\* A part of a finite set that leaves one out is smaller.
LEMMA Smaller ==
    ASSUME NEW S, IsFiniteSet(S), NEW T, T \subseteq S, NEW x \in S, x \notin T
    PROVE  Cardinality(T) < Cardinality(S)
<1>1. T \subseteq S \ {x} /\ IsFiniteSet(S \ {x})
    BY FS_Subset
<1>2. Cardinality(T) <= Cardinality(S \ {x}) /\ Cardinality(T) \in Nat
    BY <1>1, FS_Subset, FS_CardinalityType
<1>3. Cardinality(S) = Cardinality(S \ {x}) + 1 /\ Cardinality(S \ {x}) \in Nat
    BY <1>1, FS_RemoveElement, FS_CardinalityType
<1> QED BY <1>2, <1>3

\* The values of a function on a finite set are finitely many, and no more.
LEMMA ImageIsFinite ==
    ASSUME NEW S, IsFiniteSet(S), NEW f, DOMAIN f = S, f = [x \in S |-> f[x]], NEW T, T = {f[x] : x \in S}
    PROVE  IsFiniteSet(T) /\ Cardinality(T) <= Cardinality(S)
<1>1. f \in Surjection(S, T)
    BY DEF Surjection
<1> QED BY <1>1, FS_Surjection

\* Of finitely many things in a strict order one has no other before it.
LEMMA SomeFirst ==
    ASSUME NEW T, IsFiniteSet(T), T # {}, NEW R,
           \A x \in T : <<x, x>> \notin R,
           \A x, y, z \in T : <<x, y>> \in R /\ <<y, z>> \in R => <<x, z>> \in R
    PROVE  \E x \in T : \A y \in T : <<y, x>> \notin R
<1> DEFINE Below(x) == {y \in T : <<y, x>> \in R}
           Sizes == {Cardinality(Below(x)) : x \in T}
<1>1. \A x \in T : IsFiniteSet(Below(x)) /\ Cardinality(Below(x)) \in Nat
    BY FS_Subset, FS_CardinalityType
<1>2. Sizes \subseteq Nat /\ Sizes # {}
  <2> HIDE DEF Below
  <2> QED BY <1>1
<1> HIDE DEF Sizes
<1>3. PICK n \in Sizes : \A k \in Sizes : n <= k
    BY <1>2, LeastNumber
<1>4. PICK x \in T : n = Cardinality(Below(x))
    BY <1>3 DEF Sizes
<1>5. ASSUME NEW y \in T, <<y, x>> \in R PROVE FALSE
  <2>1. Below(y) \subseteq Below(x) /\ y \in Below(x) /\ y \notin Below(y)
    BY <1>5
  <2> HIDE DEF Below
  <2>2. Cardinality(Below(y)) < Cardinality(Below(x))
    BY <1>1, <2>1, Smaller
  <2>3. n <= Cardinality(Below(y)) /\ n \in Nat
    BY <1>2, <1>3 DEF Sizes
  <2> QED BY <1>1, <1>4, <2>2, <2>3
<1> QED BY <1>5

-----------------------------------------------------------------------------
(* Sums over finite sets, as the community modules fold them.              *)

\* What is taken first, and the partial sums of f over the subsets of S.
Chosen(s) == CHOOSE x \in s : TRUE
SumsFrom(f, S, sum) == sum = [s \in SUBSET S |-> IF s = {} THEN 0 ELSE f[Chosen(s)] + sum[s \ {Chosen(s)}]]

\* A set without one of its members has one member less.
LEMMA OneLess ==
    ASSUME NEW S, IsFiniteSet(S), NEW x \in S
    PROVE  /\ IsFiniteSet(S \ {x}) /\ Cardinality(S) \in Nat /\ Cardinality(S \ {x}) \in Nat
           /\ Cardinality(S) = Cardinality(S \ {x}) + 1
    BY FS_RemoveElement, FS_CardinalityType

\* The partial sums of the library's fold exist for a finite set.
LEMMA SumsExist ==
    ASSUME NEW f, NEW S, IsFiniteSet(S)
    PROVE  \E sum : SumsFrom(f, S, sum)
<1> DEFINE Step(sum, s) == IF s = {} THEN 0 ELSE f[Chosen(s)] + sum[s \ {Chosen(s)}]
<1> DEFINE Far == {n \in Nat : \E sum : \A s \in SUBSET S : Cardinality(s) <= n => sum[s] = Step(sum, s)}
<1>1. \A s \in SUBSET S : IsFiniteSet(s) /\ Cardinality(s) \in Nat /\ Cardinality(s) <= Cardinality(S)
    BY FS_Subset, FS_CardinalityType
<1>2. \A s \in SUBSET S : s # {} => Chosen(s) \in s
    BY DEF Chosen
<1>3. 0 \in Far
  <2>1. \A s \in SUBSET S : Cardinality(s) <= 0 => s = {}
    BY <1>1, FS_EmptySet
  <2>2. \A s \in SUBSET S : Cardinality(s) <= 0 => [t \in SUBSET S |-> 0][s] = Step([t \in SUBSET S |-> 0], s)
    BY <2>1
  <2> QED BY <2>2
<1>4. ASSUME NEW n \in Nat, n \in Far PROVE n + 1 \in Far
  <2>1. PICK sum : \A s \in SUBSET S : Cardinality(s) <= n => sum[s] = Step(sum, s)
    BY <1>4
  <2> DEFINE more == [s \in SUBSET S |-> Step(sum, s)]
  <2>2. ASSUME NEW s \in SUBSET S, Cardinality(s) <= n + 1 PROVE more[s] = Step(more, s)
    <3>1. CASE s = {}
      BY <3>1
    <3>2. CASE s # {}
      <4> DEFINE rest == s \ {Chosen(s)}
      <4>1. rest \in SUBSET S /\ Cardinality(rest) <= n
        BY <1>1, <1>2, <2>2, <3>2, OneLess
      <4>2. sum[rest] = Step(sum, rest)
        BY <2>1, <4>1
      <4>3. more[rest] = Step(sum, rest) /\ more[s] = Step(sum, s)
        BY <4>1
      <4>4. Step(sum, s) = f[Chosen(s)] + sum[rest] /\ Step(more, s) = f[Chosen(s)] + more[rest]
        BY <3>2
      <4> QED BY <4>2, <4>3, <4>4
    <3> QED BY <3>1, <3>2
  <2> HIDE DEF more, Step
  <2>3. \E m : \A s \in SUBSET S : Cardinality(s) <= n + 1 => m[s] = Step(m, s)
    BY <2>2
  <2>4. n + 1 \in Nat
    OBVIOUS
  <2> QED BY <2>3, <2>4
<1>5. Cardinality(S) \in Far
  <2> HIDE DEF Far
  <2>1. Nat \subseteq Far
    BY <1>3, <1>4, NumbersFromZero
  <2> QED BY <2>1, FS_CardinalityType
<1>6. PICK sum : \A s \in SUBSET S : Cardinality(s) <= Cardinality(S) => sum[s] = Step(sum, s)
    BY <1>5
<1>7. \A s \in SUBSET S : sum[s] = Step(sum, s)
    BY <1>1, <1>6
<1> DEFINE all == [s \in SUBSET S |-> sum[s]]
<1>8. ASSUME NEW s \in SUBSET S PROVE all[s] = Step(all, s)
  <2>1. s # {} => s \ {Chosen(s)} \in SUBSET S
    OBVIOUS
  <2> QED BY <1>7, <2>1
<1>9. all = [s \in SUBSET S |-> Step(all, s)]
  <2> HIDE DEF Step
  <2>1. all = [s \in SUBSET S |-> all[s]]
    OBVIOUS
  <2> HIDE DEF all
  <2> QED BY <2>1, <1>8
<1>10. SumsFrom(f, S, all)
    BY <1>9 DEF SumsFrom
<1> HIDE DEF all
<1> QED BY <1>10

\* The library's sum is a partial sum of the whole set.
LEMMA SumIsPartial ==
    ASSUME NEW f, NEW S, IsFiniteSet(S)
    PROVE  \E sum : SumsFrom(f, S, sum) /\ SumFunctionOnSet(f, S) = sum[S]
<1> DEFINE sum == CHOOSE t : SumsFrom(f, S, t)
<1>1. SumsFrom(f, S, sum)
    BY SumsExist
<1>2. SumFunctionOnSet(f, S) = sum[S]
    BY DEF SumFunctionOnSet, FoldFunctionOnSet, MapThenFoldSet, SumsFrom, Chosen
<1> HIDE DEF sum
<1> QED BY <1>1, <1>2

\* A partial sum is what is chosen first and the sum of the rest.
LEMMA PartialSums ==
    ASSUME NEW f, NEW S, NEW sum, SumsFrom(f, S, sum)
    PROVE  /\ sum[{}] = 0
           /\ \A s \in SUBSET S : s # {} => Chosen(s) \in s /\ sum[s] = f[Chosen(s)] + sum[s \ {Chosen(s)}]
<1>1. ASSUME NEW s \in SUBSET S
      PROVE  sum[s] = IF s = {} THEN 0 ELSE f[Chosen(s)] + sum[s \ {Chosen(s)}]
  <2>1. sum[s] = [t \in SUBSET S |-> IF t = {} THEN 0 ELSE f[Chosen(t)] + sum[t \ {Chosen(t)}]][s]
    BY DEF SumsFrom
  <2> QED BY <2>1
<1>2. {} \in SUBSET S
    OBVIOUS
<1>3. \A s \in SUBSET S : s # {} => Chosen(s) \in s
    BY DEF Chosen
<1>4. sum[{}] = 0
    BY <1>1, <1>2
<1> QED BY <1>1, <1>3, <1>4

\* The same, of one set.
LEMMA SumStep ==
    ASSUME NEW f, NEW S, NEW sum, SumsFrom(f, S, sum), NEW s \in SUBSET S, s # {}
    PROVE  Chosen(s) \in s /\ sum[s] = f[Chosen(s)] + sum[s \ {Chosen(s)}]
    BY PartialSums

\* Two functions that agree on a set have one sum over it.
LEMMA SumsAgree ==
    ASSUME NEW f, NEW g, NEW S, NEW T, NEW sum, NEW tum, IsFiniteSet(S),
           SumsFrom(f, S, sum), SumsFrom(g, T, tum), NEW R, R \subseteq S, R \subseteq T,
           \A x \in R : f[x] = g[x]
    PROVE  sum[R] = tum[R]
<1> DEFINE Alike == {n \in Nat : \A s \in SUBSET R : Cardinality(s) = n => sum[s] = tum[s]}
<1>0. /\ tum[{}] = 0
      /\ \A s \in SUBSET T : s # {} => Chosen(s) \in s /\ tum[s] = g[Chosen(s)] + tum[s \ {Chosen(s)}]
    BY PartialSums
<1>1. \A s \in SUBSET R : IsFiniteSet(s) /\ Cardinality(s) \in Nat
    BY FS_Subset, FS_CardinalityType
<1>2. 0 \in Alike
  <2>1. \A s \in SUBSET R : Cardinality(s) = 0 => s = {}
    BY <1>1, FS_EmptySet
  <2>2. sum[{}] = 0 /\ tum[{}] = 0
    BY PartialSums
  <2>3. \A s \in SUBSET R : Cardinality(s) = 0 => sum[s] = tum[s]
    BY <2>1, <2>2
  <2> QED BY <2>3
<1>3. ASSUME NEW n \in Nat, n \in Alike PROVE n + 1 \in Alike
  <2>1. ASSUME NEW s \in SUBSET R, Cardinality(s) = n + 1 PROVE sum[s] = tum[s]
    <3>1. s # {} /\ s \in SUBSET S /\ s \in SUBSET T
      BY <2>1, FS_EmptySet
    <3> DEFINE c == Chosen(s)
    <3>a. c \in s /\ sum[s] = f[c] + sum[s \ {c}]
      BY <3>1, PartialSums
    <3>b. tum[s] = g[c] + tum[s \ {c}]
      BY <1>0, <3>1
    <3> HIDE DEF c
    <3>2. c \in s /\ sum[s] = f[c] + sum[s \ {c}] /\ tum[s] = g[c] + tum[s \ {c}]
      BY <3>a, <3>b
    <3>3. s \ {c} \in SUBSET R /\ Cardinality(s \ {c}) = n
      BY <1>1, <2>1, <3>2, OneLess
    <3>4. sum[s \ {c}] = tum[s \ {c}]
      BY <1>3, <3>3
    <3>5. f[c] = g[c]
      BY <3>2
    <3> QED BY <3>2, <3>4, <3>5
  <2> QED BY <2>1
<1>4. Nat \subseteq Alike
  <2> HIDE DEF Alike
  <2> QED BY <1>2, <1>3, NumbersFromZero
<1> QED BY <1>1, <1>4

\* Sums of integers are integers.
LEMMA SumsAreInts ==
    ASSUME NEW f, NEW S, NEW sum, IsFiniteSet(S), SumsFrom(f, S, sum), \A x \in S : f[x] \in Int
    PROVE  \A s \in SUBSET S : sum[s] \in Int
<1> DEFINE Done == {n \in Nat : \A s \in SUBSET S : Cardinality(s) = n => sum[s] \in Int}
<1>0. ASSUME NEW s \in SUBSET S, s # {}
      PROVE  Chosen(s) \in s /\ sum[s] = f[Chosen(s)] + sum[s \ {Chosen(s)}]
    BY <1>0, SumStep
<1>1. \A s \in SUBSET S : IsFiniteSet(s) /\ Cardinality(s) \in Nat
    BY FS_Subset, FS_CardinalityType
<1>2. 0 \in Done
  <2>1. \A s \in SUBSET S : Cardinality(s) = 0 => s = {}
    BY <1>1, FS_EmptySet
  <2>2. sum[{}] = 0
    BY PartialSums
  <2>3. \A s \in SUBSET S : Cardinality(s) = 0 => sum[s] \in Int
    BY <2>1, <2>2
  <2> QED BY <2>3
<1>3. ASSUME NEW n \in Nat, n \in Done PROVE n + 1 \in Done
  <2>1. ASSUME NEW s \in SUBSET S, Cardinality(s) = n + 1 PROVE sum[s] \in Int
    <3>1. s # {}
      BY <2>1, FS_EmptySet
    <3> DEFINE c == Chosen(s)
    <3>2. c \in s /\ sum[s] = f[c] + sum[s \ {c}]
      BY <1>0, <3>1
    <3> HIDE DEF c
    <3>3. s \ {c} \in SUBSET S /\ Cardinality(s \ {c}) = n
      BY <1>1, <2>1, <3>2, OneLess
    <3>4. sum[s \ {c}] \in Int /\ f[c] \in Int
      BY <1>3, <3>2, <3>3
    <3> QED BY <3>2, <3>4
  <2> QED BY <2>1
<1>4. Nat \subseteq Done
  <2> HIDE DEF Done
  <2> QED BY <1>2, <1>3, NumbersFromZero
<1> QED BY <1>1, <1>4

\* Whatever is taken out first, the sum is the same: by induction on the size of the set.
LEMMA AnyFirst ==
    ASSUME NEW f, NEW S, NEW sum, IsFiniteSet(S), SumsFrom(f, S, sum), \A x \in S : f[x] \in Int
    PROVE  \A s \in SUBSET S : \A x \in s : sum[s] = f[x] + sum[s \ {x}]
<1> DEFINE Fine(s) == \A x \in s : sum[s] = f[x] + sum[s \ {x}]
<1> DEFINE Done == {n \in Nat : \A s \in SUBSET S : Cardinality(s) = n => Fine(s)}
<1>1. \A s \in SUBSET S : IsFiniteSet(s) /\ Cardinality(s) \in Nat
    BY FS_Subset, FS_CardinalityType
<1>2. 0 \in Done
  <2>1. \A s \in SUBSET S : Cardinality(s) = 0 => s = {}
    BY <1>1, FS_EmptySet
  <2> QED BY <2>1
<1>3. ASSUME NEW n \in Nat, n \in Done PROVE n + 1 \in Done
  <2>1. ASSUME NEW s \in SUBSET S, Cardinality(s) = n + 1, NEW x \in s PROVE sum[s] = f[x] + sum[s \ {x}]
    <3> DEFINE c == Chosen(s)
    <3>1. c \in s /\ sum[s] = f[c] + sum[s \ {c}]
      BY PartialSums
    <3> HIDE DEF c
    <3>2. ASSUME NEW y \in s PROVE s \ {y} \in SUBSET S /\ Fine(s \ {y})
      <4>1. s \ {y} \in SUBSET S /\ Cardinality(s \ {y}) = n
        BY <1>1, <2>1, OneLess
      <4> QED BY <1>3, <4>1
    <3>3. CASE x = c
      BY <3>1, <3>3
    <3>4. CASE x # c
      <4> DEFINE both == (s \ {x}) \ {c}
      <4>1. both = (s \ {c}) \ {x}
        OBVIOUS
      <4>2. sum[s \ {c}] = f[x] + sum[both]
        BY <3>1, <3>2, <3>4, <4>1
      <4>3. sum[s \ {x}] = f[c] + sum[both]
        BY <3>1, <3>2, <3>4
      <4>4. both \in SUBSET S /\ x \in S /\ c \in S
        BY <3>1
      <4> HIDE DEF both
      <4>5. sum[both] \in Int /\ f[x] \in Int /\ f[c] \in Int
        BY <4>4, SumsAreInts
      <4> QED BY <3>1, <4>2, <4>3, <4>5
    <3> QED BY <3>3, <3>4
  <2> HIDE DEF Fine
  <2>2. \A s \in SUBSET S : Cardinality(s) = n + 1 => Fine(s)
    BY <2>1 DEF Fine
  <2> QED BY <2>2
<1>4. Nat \subseteq Done
  <2> HIDE DEF Done
  <2> QED BY <1>2, <1>3, NumbersFromZero
<1> HIDE DEF Fine
<1>5. \A s \in SUBSET S : Fine(s)
    BY <1>1, <1>4
<1> QED BY <1>5 DEF Fine

\* The sum of nothing is nothing, and of integers an integer.
LEMMA SumOfNone ==
    ASSUME NEW f PROVE SumFunctionOnSet(f, {}) = 0
<1>1. IsFiniteSet({})
    BY FS_EmptySet
<1> QED BY <1>1, SumIsPartial, PartialSums

\* A sum of integers is an integer.
LEMMA SumIsInt ==
    ASSUME NEW f, NEW S, IsFiniteSet(S), \A x \in S : f[x] \in Int
    PROVE  SumFunctionOnSet(f, S) \in Int
    BY SumIsPartial, SumsAreInts

\* Functions that agree on a set have one sum over it.
LEMMA SumsOfAlike ==
    ASSUME NEW f, NEW g, NEW S, IsFiniteSet(S), \A x \in S : f[x] = g[x]
    PROVE  SumFunctionOnSet(f, S) = SumFunctionOnSet(g, S)
<1>1. PICK sum : SumsFrom(f, S, sum) /\ SumFunctionOnSet(f, S) = sum[S]
    BY SumIsPartial
<1>2. PICK tum : SumsFrom(g, S, tum) /\ SumFunctionOnSet(g, S) = tum[S]
    BY SumIsPartial
<1> QED BY <1>1, <1>2, SumsAgree

\* One member taken out of a sum.
LEMMA SumWithout ==
    ASSUME NEW f, NEW S, IsFiniteSet(S), NEW x \in S, \A y \in S : f[y] \in Int
    PROVE  SumFunctionOnSet(f, S) = f[x] + SumFunctionOnSet(f, S \ {x})
<1> DEFINE T == S \ {x}
<1>1. IsFiniteSet(T) /\ T \subseteq S
    BY FS_Subset
<1>2. PICK sum : SumsFrom(f, S, sum) /\ SumFunctionOnSet(f, S) = sum[S]
    BY SumIsPartial
<1>3. PICK tum : SumsFrom(f, T, tum) /\ SumFunctionOnSet(f, T) = tum[T]
    BY <1>1, SumIsPartial
<1>4. sum[S] = f[x] + sum[T]
    BY <1>2, AnyFirst
<1>5. sum[T] = tum[T]
  <2> HIDE DEF T
  <2> QED BY <1>1, <1>2, <1>3, SumsAgree
<1> QED BY <1>2, <1>3, <1>4, <1>5

\* One value that changes changes the sum by as much.
LEMMA SumChanges ==
    ASSUME NEW f, NEW g, NEW S, IsFiniteSet(S), NEW x \in S,
           \A y \in S : f[y] \in Int /\ g[y] \in Int, \A y \in S \ {x} : g[y] = f[y]
    PROVE  SumFunctionOnSet(g, S) = SumFunctionOnSet(f, S) - f[x] + g[x]
<1> DEFINE T == S \ {x}
<1>1. IsFiniteSet(T) /\ \A y \in T : f[y] \in Int /\ g[y] = f[y]
    BY FS_Subset
<1>2. SumFunctionOnSet(f, S) = f[x] + SumFunctionOnSet(f, T) /\ SumFunctionOnSet(g, S) = g[x] + SumFunctionOnSet(g, T)
    BY SumWithout
<1> HIDE DEF T
<1>3. SumFunctionOnSet(f, T) = SumFunctionOnSet(g, T) /\ SumFunctionOnSet(f, T) \in Int
    BY <1>1, SumsOfAlike, SumIsInt
<1> QED BY <1>2, <1>3

\* The sum of equal values is their number times the value.
LEMMA SumOfEqual ==
    ASSUME NEW f, NEW S, IsFiniteSet(S), NEW c \in Int, \A x \in S : f[x] = c
    PROVE  SumFunctionOnSet(f, S) = Cardinality(S) * c
<1> DEFINE Done == {n \in Nat : \A s \in SUBSET S : Cardinality(s) = n => SumFunctionOnSet(f, s) = n * c}
<1>1. \A s \in SUBSET S : IsFiniteSet(s) /\ Cardinality(s) \in Nat
    BY FS_Subset, FS_CardinalityType
<1>2. 0 \in Done
  <2>1. \A s \in SUBSET S : Cardinality(s) = 0 => SumFunctionOnSet(f, s) = 0
    BY <1>1, FS_EmptySet, SumOfNone
  <2>2. 0 * c = 0
    OBVIOUS
  <2> QED BY <2>1, <2>2
<1>3. ASSUME NEW n \in Nat, n \in Done PROVE n + 1 \in Done
  <2>1. ASSUME NEW s \in SUBSET S, Cardinality(s) = n + 1 PROVE SumFunctionOnSet(f, s) = (n + 1) * c
    <3>1. PICK x \in s : TRUE
      BY <2>1, FS_EmptySet
    <3>2. s \ {x} \in SUBSET S /\ Cardinality(s \ {x}) = n
      BY <1>1, <2>1, OneLess
    <3>3. SumFunctionOnSet(f, s \ {x}) = n * c
      BY <1>3, <3>2
    <3>4. SumFunctionOnSet(f, s) = f[x] + SumFunctionOnSet(f, s \ {x})
      BY <1>1, SumWithout
    <3>5. c + n * c = (n + 1) * c
      OBVIOUS
    <3> QED BY <3>3, <3>4, <3>5
  <2> QED BY <2>1
<1>4. Nat \subseteq Done
  <2> HIDE DEF Done
  <2> QED BY <1>2, <1>3, NumbersFromZero
<1> QED BY <1>1, <1>4

\* A sum of natural numbers over a part is a natural number, and no more than the whole.
LEMMA SumOfPart ==
    ASSUME NEW f, NEW S, IsFiniteSet(S), \A x \in S : f[x] \in Nat, NEW T, T \subseteq S
    PROVE  SumFunctionOnSet(f, T) \in Nat /\ SumFunctionOnSet(f, T) <= SumFunctionOnSet(f, S)
<1> DEFINE More(n) == \A P, U \in SUBSET S :
               P \subseteq U /\ Cardinality(U \ P) = n => SumFunctionOnSet(f, P) <= SumFunctionOnSet(f, U)
           Done == {n \in Nat : More(n)}
<1>1. \A U \in SUBSET S : IsFiniteSet(U) /\ Cardinality(U) \in Nat /\ SumFunctionOnSet(f, U) \in Int
  <2>1. ASSUME NEW U \in SUBSET S PROVE IsFiniteSet(U) /\ \A x \in U : f[x] \in Int
    BY FS_Subset
  <2> QED BY <2>1, FS_CardinalityType, SumIsInt
<1>2. 0 \in Done
  <2>1. \A U \in SUBSET S : Cardinality(U) = 0 => U = {}
    BY <1>1, FS_EmptySet
  <2>2. ASSUME NEW P \in SUBSET S, NEW U \in SUBSET S, P \subseteq U, Cardinality(U \ P) = 0
        PROVE  SumFunctionOnSet(f, P) <= SumFunctionOnSet(f, U)
    <3>1. U \ P = {}
      BY <2>1, <2>2
    <3>2. U = P
      BY <2>2, <3>1
    <3> QED BY <1>1, <3>2
  <2> QED BY <2>2
<1>3. ASSUME NEW n \in Nat, n \in Done PROVE n + 1 \in Done
  <2>1. ASSUME NEW P \in SUBSET S, NEW U \in SUBSET S, P \subseteq U, Cardinality(U \ P) = n + 1
        PROVE  SumFunctionOnSet(f, P) <= SumFunctionOnSet(f, U)
    <3>1. U \ P # {}
      BY <2>1, FS_EmptySet
    <3>2. PICK x \in U \ P : TRUE
      BY <3>1
    <3>3. P \subseteq U \ {x} /\ (U \ {x}) \ P = (U \ P) \ {x} /\ U \ {x} \in SUBSET S
      BY <2>1, <3>2
    <3>4. Cardinality((U \ P) \ {x}) = n
      <4>1. IsFiniteSet(U \ P) /\ Cardinality(U \ P) = n + 1
        BY <1>1, <2>1, FS_Subset
      <4> DEFINE W == U \ P
      <4>2. x \in W /\ IsFiniteSet(W) /\ Cardinality(W) = n + 1
        BY <3>2, <4>1
      <4> HIDE DEF W
      <4>3. Cardinality(W \ {x}) \in Nat /\ Cardinality(W) = Cardinality(W \ {x}) + 1
        BY <4>2, OneLess
      <4>4. Cardinality(W \ {x}) = n
        BY <4>2, <4>3
      <4> QED BY <4>4 DEF W
    <3>5. SumFunctionOnSet(f, P) <= SumFunctionOnSet(f, U \ {x})
      BY <1>3, <3>3, <3>4
    <3>6. SumFunctionOnSet(f, U) = f[x] + SumFunctionOnSet(f, U \ {x})
      <4>1. IsFiniteSet(U) /\ x \in U /\ \A y \in U : f[y] \in Int
        BY <1>1, <3>2
      <4> QED BY <4>1, SumWithout
    <3>7. f[x] \in Nat /\ SumFunctionOnSet(f, U \ {x}) \in Int /\ SumFunctionOnSet(f, P) \in Int
      BY <1>1, <3>2, <3>3
    <3> QED BY <3>5, <3>6, <3>7
  <2> QED BY <2>1
<1>4. Nat \subseteq Done
  <2> HIDE DEF Done
  <2> QED BY <1>2, <1>3, NumbersFromZero
<1>5. ASSUME NEW P \in SUBSET S, NEW U \in SUBSET S, P \subseteq U
      PROVE  SumFunctionOnSet(f, P) <= SumFunctionOnSet(f, U)
  <2>1. Cardinality(U \ P) \in Nat
    BY <1>1
  <2> QED BY <1>4, <1>5, <2>1
<1>6. SumFunctionOnSet(f, {}) = 0 /\ {} \in SUBSET S /\ T \in SUBSET S /\ S \in SUBSET S
    BY SumOfNone
<1>7. SumFunctionOnSet(f, {}) <= SumFunctionOnSet(f, T) /\ SumFunctionOnSet(f, T) <= SumFunctionOnSet(f, S)
    BY <1>5, <1>6
<1> HIDE DEF Done
<1> QED BY <1>1, <1>6, <1>7

-----------------------------------------------------------------------------
(* Sequences in which every member is made from the one before it.         *)

\* f starts at base, and every member is what its step makes of the one before it.
FromFirst(f, n, base, step) == \A i \in 1..n : f[i] = IF i = 1 THEN base ELSE step[i][f[i - 1]]

\* What is defined from its first value, each further one from the one before, exists.
LEMMA RecursionFromFirst ==
    ASSUME NEW n \in Nat, NEW V, NEW base \in V, NEW step \in [1..n -> [V -> V]]
    PROVE  \E f \in [1..n -> V] : FromFirst(f, n, base, step)
<1> DEFINE Fine(f, i) == f[i] = IF i = 1 THEN base ELSE step[i][f[i - 1]]
           Far == {k \in Nat : \E f \in [1..n -> V] : \A i \in 1..n : i <= k => Fine(f, i)}
<1>1. 0 \in Far
  <2>1. [i \in 1..n |-> base] \in [1..n -> V] /\ \A i \in 1..n : ~(i <= 0)
    OBVIOUS
  <2> QED BY <2>1
<1>2. ASSUME NEW k \in Nat, k \in Far PROVE k + 1 \in Far
  <2>1. PICK f \in [1..n -> V] : \A i \in 1..n : i <= k => Fine(f, i)
    BY <1>2
  <2> DEFINE v == IF k = 0 THEN base ELSE step[k + 1][f[k]]
             g == [f EXCEPT ![k + 1] = v]
  <2>2. CASE k + 1 > n
    <3>1. \A i \in 1..n : i <= k
      BY <2>2
    <3> HIDE DEF Fine
    <3> QED BY <2>1, <3>1
  <2>3. CASE k + 1 <= n
    <3>1. v \in V
      <4>1. CASE k = 0
        BY <4>1
      <4>2. CASE k # 0
        <5>1. k \in 1..n /\ k + 1 \in 1..n
          BY <2>3, <4>2
        <5> QED BY <4>2, <5>1
      <4> QED BY <4>1, <4>2
    <3>2. k + 1 \in 1..n
      BY <2>3
    <3> HIDE DEF v
    <3>3. g \in [1..n -> V] /\ g[k + 1] = v /\ \A i \in 1..n : i # k + 1 => g[i] = f[i]
      BY <3>1, <3>2
    <3> HIDE DEF g
    <3>4. ASSUME NEW i \in 1..n, i <= k + 1 PROVE Fine(g, i)
      <4>1. CASE i <= k
        <5>1. i # k + 1 /\ (i # 1 => i - 1 \in 1..n /\ i - 1 # k + 1)
          BY <4>1
        <5> QED BY <2>1, <3>3, <4>1, <5>1
      <4>2. CASE i = k + 1
        <5>1. CASE k = 0
          BY <3>3, <4>2, <5>1 DEF v
        <5>2. CASE k # 0
          <6>1. i # 1 /\ i - 1 = k /\ k \in 1..n /\ k # k + 1
            BY <2>3, <4>2, <5>2
          <6>2. g[i - 1] = f[k] /\ g[i] = step[k + 1][f[k]]
            BY <3>3, <4>2, <5>2, <6>1 DEF v
          <6> QED BY <4>2, <6>1, <6>2
        <5> QED BY <5>1, <5>2
      <4>3. i <= k \/ i = k + 1
        BY <3>4
      <4> QED BY <4>1, <4>2, <4>3
    <3> HIDE DEF Fine
    <3> QED BY <3>3, <3>4
  <2> QED BY <2>2, <2>3
<1>3. Nat \subseteq Far
  <2> HIDE DEF Far
  <2> QED BY <1>1, <1>2, NumbersFromZero
<1>4. PICK f \in [1..n -> V] : \A i \in 1..n : i <= n => Fine(f, i)
    BY <1>3
<1>5. \A i \in 1..n : i <= n
    OBVIOUS
<1> QED BY <1>4, <1>5 DEF FromFirst

=============================================================================
