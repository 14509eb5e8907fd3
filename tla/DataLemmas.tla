------------------------------ MODULE DataLemmas ------------------------------
(***************************************************************************)
(* Facts about sequences, remainders and sums that the proofs about the    *)
(* components cite by name.  A sum over a set is a fold, a recursive       *)
(* function on the subsets of the set: what is claimed of it is proved by  *)
(* looking at a smallest subset for which it would be false.               *)
(***************************************************************************)
EXTENDS Integers, Sequences, Functions, FiniteSetTheorems, TLAPS

\* An element of a sequence over S is in S.
LEMMA ElementType ==
    ASSUME NEW S, NEW q \in Seq(S), NEW j \in DOMAIN q
    PROVE  q[j] \in S
OBVIOUS

\* Appending keeps the elements and adds one.
LEMMA AppendElements ==
    ASSUME NEW S, NEW q \in Seq(S), NEW x \in S
    PROVE  /\ Append(q, x) \in Seq(S)
           /\ \A j \in DOMAIN Append(q, x) :
                 \/ Append(q, x)[j] = x
                 \/ j \in DOMAIN q /\ Append(q, x)[j] = q[j]
OBVIOUS

\* It is the function on one more place.
LEMMA AppendIsFunction ==
    ASSUME NEW S, NEW q \in Seq(S), NEW x \in S, NEW n \in Nat, Len(q) + 1 = n
    PROVE  Append(q, x) = [i \in 1 .. n |-> IF i = n THEN x ELSE q[i]]
<1>1. PICK m \in Nat : m = Len(q) /\ n = m + 1
  <2>1. Len(q) \in Nat
    OBVIOUS
  <2> QED
    BY <2>1
<1>2. PICK a \in Seq(S) : a = Append(q, x)
  <2>1. Append(q, x) \in Seq(S)
    OBVIOUS
  <2> QED
    BY <2>1
<1>3. /\ Len(a) = n /\ a[n] = x
      /\ \A i \in 1 .. m : a[i] = q[i]
  BY <1>1, <1>2
<1>4. \A i \in 1 .. n : a[i] = IF i = n THEN x ELSE q[i]
  BY <1>1, <1>3
<1>5. a = [i \in 1 .. n |-> a[i]]
  BY <1>3
<1> QED
  BY <1>2, <1>4, <1>5

\* The elements of a tail are elements of the sequence, one place further.
LEMMA TailElements ==
    ASSUME NEW S, NEW q \in Seq(S), q # <<>>
    PROVE  /\ Head(q) \in S
           /\ 1 \in DOMAIN q /\ Head(q) = q[1]
           /\ Tail(q) \in Seq(S)
           /\ \A j \in DOMAIN Tail(q) : j + 1 \in DOMAIN q /\ Tail(q)[j] = q[j + 1]
OBVIOUS

\* A prefix keeps elements and places.
LEMMA PrefixElements ==
    ASSUME NEW S, NEW q \in Seq(S), NEW n \in Nat, n <= Len(q)
    PROVE  /\ SubSeq(q, 1, n) \in Seq(S)
           /\ Len(SubSeq(q, 1, n)) = n
           /\ \A j \in DOMAIN SubSeq(q, 1, n) :
                 j \in DOMAIN q /\ SubSeq(q, 1, n)[j] = q[j]
OBVIOUS

\* What is left after a prefix of length n.
LEMMA SuffixElements ==
    ASSUME NEW S, NEW q \in Seq(S), NEW n \in Nat, n <= Len(q)
    PROVE  /\ SubSeq(q, n + 1, Len(q)) \in Seq(S)
           /\ Len(SubSeq(q, n + 1, Len(q))) = Len(q) - n
           /\ \A j \in DOMAIN SubSeq(q, n + 1, Len(q)) :
                 n + j \in DOMAIN q /\ SubSeq(q, n + 1, Len(q))[j] = q[n + j]
OBVIOUS

\* An element of a concatenation comes from one of its parts.
LEMMA ConcatElements ==
    ASSUME NEW S, NEW q \in Seq(S), NEW r \in Seq(S)
    PROVE  /\ q \o r \in Seq(S)
           /\ Len(q \o r) = Len(q) + Len(r)
           /\ \A j \in DOMAIN (q \o r) :
                 \/ j \in DOMAIN q /\ (q \o r)[j] = q[j]
                 \/ j - Len(q) \in DOMAIN r /\ (q \o r)[j] = r[j - Len(q)]
OBVIOUS

\* Two intervals from 1 are the same only if their ends are.
LEMMA SameInterval ==
    ASSUME NEW m \in Nat, NEW n \in Nat, 1 .. m = 1 .. n
    PROVE  m = n
<1>1. \A i : i \in 1 .. m <=> i \in 1 .. n
  OBVIOUS
<1>2. ~(m < n)
  <2>1. m < n => n \in 1 .. n /\ n \notin 1 .. m
    OBVIOUS
  <2> QED
    BY <1>1, <2>1
<1>3. ~(n < m)
  <2>1. n < m => m \in 1 .. m /\ m \notin 1 .. n
    OBVIOUS
  <2> QED
    BY <1>1, <2>1
<1> QED
  BY <1>2, <1>3

-----------------------------------------------------------------------------

\* Euclidean division by a positive number.
LEMMA DivMod ==
    ASSUME NEW P \in Nat \ {0}, NEW a \in Nat
    PROVE  /\ a \div P \in Int
           /\ a % P \in 0 .. P - 1
           /\ a = P * (a \div P) + (a % P)
OBVIOUS

\* Two numbers less than P apart with the same remainder are equal.
LEMMA SameRemainder ==
    ASSUME NEW P \in Nat \ {0}, NEW a \in Nat, NEW b \in Nat,
           a <= b, b - a < P, a % P = b % P
    PROVE  a = b
<1> DEFINE x == a \div P
           y == b \div P
           r == a % P
<1>1. /\ a = P * x + r /\ b = P * y + r
      /\ x \in Int /\ y \in Int /\ r \in Int
  BY DivMod
<1> HIDE DEF x, y, r
<1>2. b - a = P * (y - x)
  <2>1. P * (y - x) = P * y - P * x
    BY <1>1
  <2> QED BY <1>1, <2>1
<1>3. y - x = 0
  <2>1. CASE y - x >= 1
    <3>1. P * (y - x) >= P * 1
      BY <1>1, <2>1
    <3> QED BY <1>2, <3>1
  <2>2. CASE y - x <= -1
    <3>1. P * (y - x) <= P * (-1)
      BY <1>1, <2>2
    <3> QED BY <1>2, <3>1
  <2> QED BY <1>1, <2>1, <2>2
<1>4. P * (y - x) = 0
  BY <1>3
<1> QED BY <1>2, <1>4

\* A remainder counts up and starts again.
LEMMA NextRemainder ==
    ASSUME NEW P \in Nat \ {0}, NEW a \in Nat
    PROVE  (a + 1) % P = IF a % P = P - 1 THEN 0 ELSE (a % P) + 1
<1> DEFINE x == a \div P
           y == (a + 1) \div P
           r == a % P
           s == (a + 1) % P
<1>1. /\ a = P * x + r /\ a + 1 = P * y + s
      /\ x \in Int /\ y \in Int /\ r \in 0 .. P - 1 /\ s \in 0 .. P - 1
  BY DivMod
<1> HIDE DEF x, y, r, s
<1>2. P * (y - x) = r + 1 - s
  <2>1. P * (y - x) = P * y - P * x
    BY <1>1
  <2> QED BY <1>1, <2>1
<1>3. CASE y - x = 0
  <2>1. P * (y - x) = 0
    BY <1>3
  <2> QED BY <1>1, <1>2, <2>1 DEF r, s
<1>4. CASE y - x = 1
  <2>1. P * (y - x) = P
    BY <1>4
  <2> QED BY <1>1, <1>2, <2>1 DEF r, s
<1>5. CASE y - x >= 2
  <2>1. P * (y - x) >= P * 2
    BY <1>1, <1>5
  <2> QED BY <1>1, <1>2, <2>1
<1>6. CASE y - x <= -1
  <2>1. P * (y - x) <= P * (-1)
    BY <1>1, <1>6
  <2> QED BY <1>1, <1>2, <2>1
<1> QED BY <1>1, <1>3, <1>4, <1>5, <1>6

-----------------------------------------------------------------------------
(* Sums.                                                                   *)

\* A nonempty set of subsets of a finite set has a smallest one: what does not hold
\* of some subset fails first at one whose own subsets all have it.
LEMMA SmallestSubset ==
    ASSUME NEW S, IsFiniteSet(S), NEW F \in SUBSET (SUBSET S), F # {}
    PROVE  \E T \in F : \A R \in F : R \subseteq T => R = T
<1>1. IsWellFoundedOn(StrictSubsetOrdering(S), SUBSET S)
  BY FS_StrictSubsetOrderingWellFounded, FS_FiniteSubsetsOfFinite
<1>2. PICK T \in F : \A R \in F : <<R, T>> \notin StrictSubsetOrdering(S)
  BY <1>1, WFMin
<1> QED
  BY <1>2 DEF StrictSubsetOrdering

\* So has a set of numbers up to N: the one whose predecessors are the fewest.
LEMMA SmallestNumber ==
    ASSUME NEW N \in Nat, NEW T \in SUBSET (0 .. N), T # {}
    PROVE  \E n \in T : \A m \in T : n <= m
<1> DEFINE all == 0 .. N
           F == {0 .. n : n \in T}
<1>1. IsFiniteSet(all)
  BY FS_Interval
<1>2. F \in SUBSET (SUBSET all) /\ F # {}
  <2>1. ASSUME NEW n \in T
        PROVE  0 .. n \in SUBSET all
    OBVIOUS
  <2> HIDE DEF all
  <2> QED
    BY <2>1
<1>3. PICK R \in F : \A Q \in F : Q \subseteq R => Q = R
  <2> HIDE DEF F, all
  <2> QED
    BY <1>1, <1>2, SmallestSubset
<1>4. PICK n \in T : R = 0 .. n
  BY <1>3
<1>5. ASSUME NEW m \in T, m < n
      PROVE  FALSE
  <2>1. m \in Nat /\ n \in Nat
    OBVIOUS
  <2>2. 0 .. m \subseteq 0 .. n
    BY <1>5, <2>1
  <2>3. 0 .. m = 0 .. n
    <3>1. 0 .. m \in F
      OBVIOUS
    <3> HIDE DEF F
    <3> QED
      BY <1>3, <1>4, <2>2, <3>1
  <2>4. n \in 0 .. n /\ n \notin 0 .. m
    BY <1>5, <2>1
  <2> QED
    BY <2>3, <2>4
<1>6. \A m \in T : n <= m
  <2>1. \A m \in T : m \in Nat /\ n \in Nat
    OBVIOUS
  <2> QED
    BY <1>5, <2>1
<1> QED
  BY <1>6

\* The element a fold takes first.
Picked(s) == CHOOSE x \in s : TRUE

\* It is an element.
LEMMA PickedType == ASSUME NEW s, s # {} PROVE Picked(s) \in s
  BY DEF Picked

\* g is the fold of + over f on the subsets of S.
IsFold(f, S, g) ==
    g = [s \in SUBSET S |->
           IF s = {} THEN 0 ELSE f[Picked(s)] + g[s \ {Picked(s)}]]

\* The sum is what that function says of the whole set.
LEMMA SumIsFold ==
    ASSUME NEW f, NEW S
    PROVE  SumFunctionOnSet(f, S) = (CHOOSE g : IsFold(f, S, g))[S]
  BY DEF SumFunctionOnSet, FoldFunctionOnSet, MapThenFoldSet, IsFold, Picked

\* Two folds agree on the subsets they share.
LEMMA FoldUnique ==
    ASSUME NEW f, NEW S, IsFiniteSet(S), NEW T, T \subseteq S, NEW g, NEW h,
           IsFold(f, S, g), IsFold(f, T, h)
    PROVE  h[T] = g[T]
<1> DEFINE Bad == {s \in SUBSET T : h[s] # g[s]}
<1>1. ASSUME NEW s \in SUBSET T, \A r \in SUBSET s : r # s => h[r] = g[r]
      PROVE  h[s] = g[s]
  <2>1. CASE s = {}
    BY <2>1 DEF IsFold
  <2>2. CASE s # {}
    <3>1. Picked(s) \in s
      BY <2>2, PickedType
    <3>2. h[s \ {Picked(s)}] = g[s \ {Picked(s)}]
      BY <1>1, <3>1
    <3>3. h[s] = f[Picked(s)] + h[s \ {Picked(s)}]
      BY <2>2 DEF IsFold
    <3>4. g[s] = f[Picked(s)] + g[s \ {Picked(s)}]
      BY <2>2 DEF IsFold
    <3> QED
      BY <3>2, <3>3, <3>4
  <2> QED
    BY <2>1, <2>2
<1>2. Bad = {}
  <2> SUFFICES ASSUME Bad # {}
               PROVE  FALSE
    OBVIOUS
  <2>1. IsFiniteSet(T)
    BY FS_Subset
  <2>2. PICK s \in Bad : \A r \in Bad : r \subseteq s => r = s
    <3>1. Bad \in SUBSET (SUBSET T)
      OBVIOUS
    <3> HIDE DEF Bad
    <3> QED
      BY <2>1, <3>1, SmallestSubset
  <2> QED
    BY <1>1, <2>2
<1> QED
  BY <1>2

\* There is a fold over every finite set.
LEMMA FoldExists ==
    ASSUME NEW f, NEW S, IsFiniteSet(S)
    PROVE  \E g : IsFold(f, S, g)
<1> DEFINE Bad == {T \in SUBSET S : ~\E g : IsFold(f, T, g)}
<1> SUFFICES ASSUME Bad # {}
             PROVE  FALSE
  OBVIOUS
<1>1. PICK T \in Bad : \A R \in Bad : R \subseteq T => R = T
  <2>1. Bad \in SUBSET (SUBSET S)
    OBVIOUS
  <2> HIDE DEF Bad
  <2> QED
    BY <2>1, SmallestSubset
<1>2. IsFiniteSet(T) /\ T \subseteq S
  BY <1>1, FS_Subset
<1> DEFINE fold(R) == CHOOSE g : IsFold(f, R, g)
<1>3. \A R \in SUBSET T : R # T => IsFold(f, R, fold(R))
  BY <1>1
<1> DEFINE value(s) == IF s = {} THEN 0
                       ELSE f[Picked(s)] + fold(s \ {Picked(s)})[s \ {Picked(s)}]
           G == [s \in SUBSET T |-> value(s)]
<1>4. ASSUME NEW s \in SUBSET T, s # {}
      PROVE  G[s \ {Picked(s)}] = fold(s \ {Picked(s)})[s \ {Picked(s)}]
  <2>1. PICK r : r = s \ {Picked(s)}
    OBVIOUS
  <2>2. r \in SUBSET T /\ r # T
    BY <1>4, <2>1, PickedType
  <2>3. IsFold(f, r, fold(r))
    BY <1>3, <2>2
  <2>4. CASE r = {}
    <3>1. fold(r)[r] = 0
      BY <2>3, <2>4 DEF IsFold
    <3> QED
      BY <2>1, <2>2, <2>4, <3>1
  <2>5. CASE r # {}
    <3>1. PICK q : q = r \ {Picked(r)}
      OBVIOUS
    <3>2. q \subseteq r /\ q \in SUBSET T /\ q # T
      BY <2>2, <2>5, <3>1, PickedType
    <3>3. IsFold(f, q, fold(q))
      BY <1>3, <3>2
    <3>4. IsFiniteSet(r)
      BY <1>2, <2>2, FS_Subset
    <3>5. fold(q)[q] = fold(r)[q]
      <4> HIDE DEF fold
      <4> QED
        BY <2>3, <3>2, <3>3, <3>4, FoldUnique
    <3>6. fold(r)[r] = f[Picked(r)] + fold(r)[q]
      <4> HIDE DEF fold
      <4> QED
        BY <2>3, <2>5, <3>1 DEF IsFold
    <3>7. G[r] = f[Picked(r)] + fold(q)[q]
      <4> HIDE DEF fold
      <4> QED
        BY <2>2, <2>5, <3>1
    <3> HIDE DEF fold, G
    <3> QED
      BY <2>1, <3>5, <3>6, <3>7
  <2> QED
    BY <2>4, <2>5
<1>5. IsFold(f, T, G)
  <2> HIDE DEF fold
  <2> SUFFICES G = [s \in SUBSET T |-> IF s = {} THEN 0 ELSE f[Picked(s)] + G[s \ {Picked(s)}]]
    BY DEF IsFold
  <2>1. \A s \in SUBSET T :
           value(s) = IF s = {} THEN 0 ELSE f[Picked(s)] + G[s \ {Picked(s)}]
    <3> HIDE DEF G
    <3> QED
      BY <1>4
  <2> QED
    BY <2>1
<1> QED
  BY <1>1, <1>5

\* The sum over a set: the sum over what is left when one element is taken out.
LEMMA SumUnfolds ==
    ASSUME NEW f, NEW S, IsFiniteSet(S)
    PROVE  /\ S = {} => SumFunctionOnSet(f, S) = 0
           /\ S # {} => SumFunctionOnSet(f, S) =
                          f[Picked(S)] + SumFunctionOnSet(f, S \ {Picked(S)})
<1> DEFINE fold(R) == CHOOSE g : IsFold(f, R, g)
<1>1. \A R \in SUBSET S : IsFold(f, R, fold(R)) /\ SumFunctionOnSet(f, R) = fold(R)[R]
  BY FoldExists, FS_Subset, SumIsFold
<1> HIDE DEF fold
<1>2. CASE S = {}
  BY <1>1, <1>2 DEF IsFold
<1>3. CASE S # {}
  <2>1. PICK r : r = S \ {Picked(S)}
    OBVIOUS
  <2>2. r \subseteq S
    BY <2>1
  <2>3. fold(r)[r] = fold(S)[r]
    BY <1>1, <2>2, FoldUnique
  <2>4. fold(S)[S] = f[Picked(S)] + fold(S)[r]
    BY <1>1, <1>3, <2>1 DEF IsFold
  <2> QED
    BY <1>1, <1>3, <2>1, <2>2, <2>3, <2>4
<1> QED
  BY <1>2, <1>3

\* The sum over no element.
LEMMA SumEmpty == \A f, S : S = {} => SumFunctionOnSet(f, S) = 0
  BY SumUnfolds, FS_EmptySet

\* A sum of naturals is a natural.
LEMMA SumType ==
    ASSUME NEW f, NEW S, IsFiniteSet(S), \A x \in S : f[x] \in Nat
    PROVE  SumFunctionOnSet(f, S) \in Nat
<1> DEFINE Bad == {T \in SUBSET S : SumFunctionOnSet(f, T) \notin Nat}
<1> SUFFICES ASSUME Bad # {}
             PROVE  FALSE
  OBVIOUS
<1>1. Bad \in SUBSET (SUBSET S)
  OBVIOUS
<1>2. PICK T \in Bad : \A R \in Bad : R \subseteq T => R = T
  <2> HIDE DEF Bad
  <2> QED
    BY <1>1, SmallestSubset
<1>3. IsFiniteSet(T)
  BY <1>2, FS_Subset
<1>4. T # {}
  <2>1. T = {} => SumFunctionOnSet(f, T) = 0
    BY SumEmpty
  <2> QED
    BY <1>2, <2>1
<1>5. Picked(T) \in T
  BY <1>4, PickedType
<1>6. SumFunctionOnSet(f, T \ {Picked(T)}) \in Nat
  BY <1>2, <1>5
<1>7. f[Picked(T)] \in Nat
  BY <1>2, <1>5
<1>8. SumFunctionOnSet(f, T) = f[Picked(T)] + SumFunctionOnSet(f, T \ {Picked(T)})
  BY <1>3, <1>4, SumUnfolds
<1> QED
  BY <1>2, <1>6, <1>7, <1>8

\* Any element may be taken out, not only the one the fold picks.
LEMMA SumTakesOut ==
    ASSUME NEW f, NEW S, IsFiniteSet(S), \A y \in S : f[y] \in Nat, NEW x \in S
    PROVE  SumFunctionOnSet(f, S) = f[x] + SumFunctionOnSet(f, S \ {x})
<1> DEFINE Good(T) == \A y \in T :
              SumFunctionOnSet(f, T) = f[y] + SumFunctionOnSet(f, T \ {y})
           Bad == {T \in SUBSET S : ~Good(T)}
<1> SUFFICES ASSUME Bad # {}
             PROVE  FALSE
  OBVIOUS
<1>1. Bad \in SUBSET (SUBSET S)
  OBVIOUS
<1>2. PICK T \in Bad : \A R \in Bad : R \subseteq T => R = T
  <2> HIDE DEF Bad
  <2> QED
    BY <1>1, SmallestSubset
<1>3. IsFiniteSet(T)
  BY <1>2, FS_Subset
<1>4. PICK y \in T : SumFunctionOnSet(f, T) # f[y] + SumFunctionOnSet(f, T \ {y})
  BY <1>2
<1>5. PICK p : p = Picked(T)
  OBVIOUS
<1>6. p \in T
  BY <1>4, <1>5, PickedType
<1>7. SumFunctionOnSet(f, T) = f[p] + SumFunctionOnSet(f, T \ {p})
  BY <1>3, <1>4, <1>5, SumUnfolds
<1>8. y # p
  BY <1>4, <1>7
<1>9. Good(T \ {p}) /\ Good(T \ {y})
  BY <1>2, <1>4, <1>6
<1>10. (T \ {p}) \ {y} = (T \ {y}) \ {p}
  OBVIOUS
<1> DEFINE rest == SumFunctionOnSet(f, (T \ {y}) \ {p})
<1>11. SumFunctionOnSet(f, T \ {p}) = f[y] + rest
  BY <1>4, <1>8, <1>9, <1>10
<1>12. SumFunctionOnSet(f, T \ {y}) = f[p] + rest
  BY <1>6, <1>8, <1>9
<1>13. IsFiniteSet((T \ {y}) \ {p})
  BY <1>3, FS_Subset
<1>14. rest \in Nat
  BY <1>2, <1>13, SumType
<1>15. f[y] \in Nat /\ f[p] \in Nat
  BY <1>2, <1>4, <1>6
<1> HIDE DEF rest, Good, Bad
<1> QED
  BY <1>4, <1>7, <1>11, <1>12, <1>14, <1>15

\* Sums grow with their terms.
LEMMA SumMonotonic ==
    ASSUME NEW f, NEW g, NEW S, IsFiniteSet(S),
           \A x \in S : f[x] \in Nat /\ g[x] \in Nat /\ f[x] <= g[x]
    PROVE  SumFunctionOnSet(f, S) <= SumFunctionOnSet(g, S)
<1> DEFINE Bad == {T \in SUBSET S : ~(SumFunctionOnSet(f, T) <= SumFunctionOnSet(g, T))}
<1> SUFFICES ASSUME Bad # {}
             PROVE  FALSE
  OBVIOUS
<1>1. Bad \in SUBSET (SUBSET S)
  OBVIOUS
<1>2. PICK T \in Bad : \A R \in Bad : R \subseteq T => R = T
  <2> HIDE DEF Bad
  <2> QED
    BY <1>1, SmallestSubset
<1>3. IsFiniteSet(T)
  BY <1>2, FS_Subset
<1>4. T # {}
  <2>1. T = {} => SumFunctionOnSet(f, T) = 0 /\ SumFunctionOnSet(g, T) = 0
    BY SumEmpty
  <2> QED
    BY <1>2, <2>1
<1>5. Picked(T) \in T
  BY <1>4, PickedType
<1>6. PICK r : r = T \ {Picked(T)}
  OBVIOUS
<1>7. SumFunctionOnSet(f, r) <= SumFunctionOnSet(g, r)
  BY <1>2, <1>5, <1>6
<1>8. IsFiniteSet(r)
  BY <1>3, <1>6, FS_Subset
<1>9. SumFunctionOnSet(f, r) \in Nat /\ SumFunctionOnSet(g, r) \in Nat
  BY <1>2, <1>6, <1>8, SumType
<1>10. /\ f[Picked(T)] \in Nat /\ g[Picked(T)] \in Nat
       /\ f[Picked(T)] <= g[Picked(T)]
  BY <1>2, <1>5
<1>11. /\ SumFunctionOnSet(f, T) = f[Picked(T)] + SumFunctionOnSet(f, r)
       /\ SumFunctionOnSet(g, T) = g[Picked(T)] + SumFunctionOnSet(g, r)
  BY <1>3, <1>4, <1>6, SumUnfolds
<1> QED
  BY <1>2, <1>7, <1>9, <1>10, <1>11

\* A sum depends on its terms alone.
LEMMA SumSame ==
    ASSUME NEW f, NEW g, NEW S, IsFiniteSet(S),
           \A x \in S : f[x] \in Nat /\ f[x] = g[x]
    PROVE  SumFunctionOnSet(f, S) = SumFunctionOnSet(g, S)
<1>1. \A x \in S : f[x] <= g[x] /\ g[x] <= f[x] /\ g[x] \in Nat
  OBVIOUS
<1>2. /\ SumFunctionOnSet(f, S) <= SumFunctionOnSet(g, S)
      /\ SumFunctionOnSet(g, S) <= SumFunctionOnSet(f, S)
  BY <1>1, SumMonotonic
<1>3. SumFunctionOnSet(f, S) \in Nat /\ SumFunctionOnSet(g, S) \in Nat
  BY <1>1, SumType
<1> QED
  BY <1>2, <1>3

\* When one term changes, the sum changes by as much.
LEMMA SumChange ==
    ASSUME NEW f, NEW g, NEW S, IsFiniteSet(S), NEW x \in S,
           \A y \in S : f[y] \in Nat /\ g[y] \in Nat,
           \A y \in S : y # x => g[y] = f[y]
    PROVE  SumFunctionOnSet(g, S) = SumFunctionOnSet(f, S) + (g[x] - f[x])
<1>1. IsFiniteSet(S \ {x})
  BY FS_Subset
<1>2. SumFunctionOnSet(f, S \ {x}) = SumFunctionOnSet(g, S \ {x})
  BY <1>1, SumSame
<1>3. /\ SumFunctionOnSet(f, S) = f[x] + SumFunctionOnSet(f, S \ {x})
      /\ SumFunctionOnSet(g, S) = g[x] + SumFunctionOnSet(g, S \ {x})
  BY SumTakesOut
<1>4. SumFunctionOnSet(f, S \ {x}) \in Nat
  BY <1>1, SumType
<1> QED
  BY <1>2, <1>3, <1>4

\* A sum of zeros is zero.
LEMMA SumZero ==
    ASSUME NEW f, NEW S, IsFiniteSet(S), \A x \in S : f[x] = 0
    PROVE  SumFunctionOnSet(f, S) = 0
<1> DEFINE Bad == {T \in SUBSET S : SumFunctionOnSet(f, T) # 0}
<1> SUFFICES ASSUME Bad # {}
             PROVE  FALSE
  OBVIOUS
<1>1. Bad \in SUBSET (SUBSET S)
  OBVIOUS
<1>2. PICK T \in Bad : \A R \in Bad : R \subseteq T => R = T
  <2> HIDE DEF Bad
  <2> QED
    BY <1>1, SmallestSubset
<1>3. IsFiniteSet(T)
  BY <1>2, FS_Subset
<1>4. T # {}
  BY <1>2, SumEmpty
<1>5. Picked(T) \in T
  BY <1>4, PickedType
<1>6. SumFunctionOnSet(f, T \ {Picked(T)}) = 0
  BY <1>2, <1>5
<1>7. SumFunctionOnSet(f, T) = f[Picked(T)] + SumFunctionOnSet(f, T \ {Picked(T)})
  BY <1>3, <1>4, SumUnfolds
<1> QED
  BY <1>2, <1>5, <1>6, <1>7
===============================================================================
