---------------------------- MODULE TotalProofs ----------------------------
(***************************************************************************)
(* The laws of Total, the sum of a function over a finite set.  Total is a *)
(* fold: the set gives up one chosen element after the other.  The fold is *)
(* a recursive function, so the first lemmas show that it exists and what  *)
(* equation it satisfies; the laws follow by looking at a smallest subset  *)
(* for which they would fail.                                              *)
(***************************************************************************)
EXTENDS PresaleMath, FiniteSetTheorems, WellFoundedInduction, TLAPS

\* The element a set gives up first.
First(s) == CHOOSE x \in s : TRUE

\* g is the fold of f on the subsets of S.
IsSum(f, S, g) ==
    g = [s \in SUBSET S |-> IF s = {} THEN 0 ELSE f[First(s)] + g[s \ {First(s)}]]

Sums(f, S) == CHOOSE g : IsSum(f, S, g)

\* Total is the value of the fold at the whole set.
LEMMA TotalIsSums ==
    ASSUME NEW f, NEW S
    PROVE  Total(f, S) = Sums(f, S)[S]
BY DEF Total, MapThenSumSet, MapThenFoldSet, Sums, IsSum, First

\* Induction on finite sets, in the form of a smallest counterexample.
LEMMA SmallestSubset ==
    ASSUME NEW S, IsFiniteSet(S), NEW T, T \subseteq SUBSET S, T # {}
    PROVE  \E m \in T : \A s \in SUBSET m : s # m => s \notin T
<1>1. T \subseteq FiniteSubsetsOf(S)
  BY FS_Subset DEF FiniteSubsetsOf
<1>2. PICK m \in T : \A s \in T : <<s, m>> \notin StrictSubsetOrdering(S)
  BY <1>1, FS_StrictSubsetOrderingWellFounded, WFMin
<1>3. ASSUME NEW s \in SUBSET m, s # m, s \in T PROVE FALSE
  BY <1>2, <1>3 DEF StrictSubsetOrdering
<1> QED
  BY <1>3
-----------------------------------------------------------------------------
(***************************************************************************)
(* The fold exists and is unique.                                          *)
(***************************************************************************)

\* The element given up is a member, so what is left is smaller.
LEMMA FirstMember ==
    ASSUME NEW s, s # {}
    PROVE  First(s) \in s /\ s \ {First(s)} \in SUBSET s /\ s \ {First(s)} # s
BY DEF First

\* No two folds of f differ.
LEMMA SumUnique ==
    ASSUME NEW S, IsFiniteSet(S), NEW f, NEW g, NEW h, IsSum(f, S, g), IsSum(f, S, h)
    PROVE  g = h
<1> DEFINE T == {s \in SUBSET S : g[s] # h[s]}
<1>1. T = {}
  <2> SUFFICES ASSUME T # {} PROVE FALSE
    OBVIOUS
  <2>0. T \subseteq SUBSET S
    OBVIOUS
  <2>1. PICK m \in T : \A s \in SUBSET m : s # m => s \notin T
    <3> HIDE DEF T
    <3> QED
      BY <2>0, SmallestSubset, Zenon
  <2>2. m \in SUBSET S /\ g[m] # h[m]
    OBVIOUS
  <2>3. CASE m = {}
    BY <2>2, <2>3 DEF IsSum
  <2>4. CASE m # {}
    <3> DEFINE rest == m \ {First(m)}
    <3>1. rest \in SUBSET S /\ rest \notin T
      BY <2>1, <2>2, <2>4, FirstMember
    <3>2. g[rest] = h[rest]
      BY <3>1
    <3>3. g[m] = f[First(m)] + g[rest] /\ h[m] = f[First(m)] + h[rest]
      BY <2>2, <2>4 DEF IsSum
    <3> QED
      BY <2>2, <3>2, <3>3
  <2> QED
    BY <2>3, <2>4
<1>2. \A s \in SUBSET S : g[s] = h[s]
  BY <1>1
<1>3. g = [s \in SUBSET S |-> g[s]] /\ h = [s \in SUBSET S |-> h[s]]
  BY DEF IsSum
<1> QED
  BY <1>2, <1>3

\* A fold on a set, cut down to the subsets of a subset, is a fold there.
LEMMA SumRestrict ==
    ASSUME NEW S, NEW U \in SUBSET S, NEW f, NEW g, IsSum(f, S, g)
    PROVE  IsSum(f, U, [s \in SUBSET U |-> g[s]])
<1> DEFINE h == [s \in SUBSET U |-> g[s]]
<1>1. ASSUME NEW s \in SUBSET U
      PROVE  h[s] = IF s = {} THEN 0 ELSE f[First(s)] + h[s \ {First(s)}]
  <2>1. s \in SUBSET S /\ s \ {First(s)} \in SUBSET U
    OBVIOUS
  <2>2. h[s] = g[s] /\ h[s \ {First(s)}] = g[s \ {First(s)}]
    BY <2>1
  <2>3. g[s] = IF s = {} THEN 0 ELSE f[First(s)] + g[s \ {First(s)}]
    BY <2>1 DEF IsSum
  <2> QED
    BY <2>2, <2>3
<1>2. h = [s \in SUBSET U |-> h[s]]
  OBVIOUS
<1> HIDE DEF h
<1>3. IsSum(f, U, h)
  BY <1>1, <1>2 DEF IsSum
<1> QED
  BY <1>3 DEF h

\* The fold of f on the subsets of S, wherever some fold there exists.
LEMMA SumsChosen ==
    ASSUME NEW S, NEW f, NEW g, IsSum(f, S, g)
    PROVE  IsSum(f, S, Sums(f, S))
BY DEF Sums

\* Every function has a fold on every finite set.
LEMMA SumExists ==
    ASSUME NEW S, IsFiniteSet(S), NEW f
    PROVE  IsSum(f, S, Sums(f, S))
<1> DEFINE T == {s \in SUBSET S : ~IsSum(f, s, Sums(f, s))}
<1> SUFFICES ASSUME T # {} PROVE FALSE
  OBVIOUS
<1>1. PICK m \in T : \A s \in SUBSET m : s # m => s \notin T
  <2>1. T \subseteq SUBSET S
    OBVIOUS
  <2> HIDE DEF T
  <2> QED
    BY <2>1, SmallestSubset
<1>2. m \in SUBSET S /\ IsFiniteSet(m) /\ ~IsSum(f, m, Sums(f, m))
  BY FS_Subset
<1>3. \A s \in SUBSET m : s # m => IsSum(f, s, Sums(f, s))
  BY <1>1, <1>2
<1> HIDE DEF T
<1> DEFINE rest(s) == s \ {First(s)}
           g == [s \in SUBSET m |->
                    IF s = {} THEN 0 ELSE f[First(s)] + Sums(f, rest(s))[rest(s)]]
<1>4. ASSUME NEW s \in SUBSET m, s # m
      PROVE  g[s] = Sums(f, s)[s]
  <2>1. IsSum(f, s, Sums(f, s))
    BY <1>3, <1>4
  <2>2. s \in SUBSET s
    OBVIOUS
  <2>3. CASE s = {}
    BY <2>1, <2>2, <2>3 DEF IsSum
  <2>4. CASE s # {}
    <3>1. rest(s) \in SUBSET s /\ rest(s) \in SUBSET m /\ rest(s) # m
      BY <2>4, FirstMember
    <3> DEFINE h == [u \in SUBSET rest(s) |-> Sums(f, s)[u]]
    <3>2. IsSum(f, rest(s), h)
      BY <2>1, <3>1, SumRestrict
    <3>3. IsSum(f, rest(s), Sums(f, rest(s)))
      BY <1>3, <3>1
    <3>4. IsFiniteSet(rest(s))
      BY <1>2, <3>1, FS_Subset
    <3>5. h = Sums(f, rest(s))
      BY <3>2, <3>3, <3>4, SumUnique
    <3>6. Sums(f, rest(s))[rest(s)] = Sums(f, s)[rest(s)]
      BY <3>5
    <3>7. Sums(f, s)[s] = f[First(s)] + Sums(f, s)[rest(s)]
      BY <2>1, <2>2, <2>4 DEF IsSum
    <3>8. g[s] = f[First(s)] + Sums(f, rest(s))[rest(s)]
      BY <2>4
    <3> QED
      BY <3>6, <3>7, <3>8
  <2> QED
    BY <2>3, <2>4
<1>5. ASSUME NEW s \in SUBSET m
      PROVE  g[s] = IF s = {} THEN 0 ELSE f[First(s)] + g[rest(s)]
  <2>1. CASE s = {}
    BY <2>1
  <2>2. CASE s # {}
    <3>1. rest(s) \in SUBSET m /\ rest(s) # m
      BY <2>2, FirstMember
    <3>2. g[rest(s)] = Sums(f, rest(s))[rest(s)]
      BY <1>4, <3>1
    <3>3. g[s] = f[First(s)] + Sums(f, rest(s))[rest(s)]
      BY <2>2
    <3> QED
      BY <2>2, <3>2, <3>3
  <2> QED
    BY <2>1, <2>2
<1>6. g = [s \in SUBSET m |-> g[s]]
  OBVIOUS
<1> HIDE DEF g
<1>7. IsSum(f, m, g)
  BY <1>5, <1>6 DEF IsSum
<1> QED
  BY <1>2, <1>7, SumsChosen

\* What the fold of a finite set is, element by element.
LEMMA TotalFold ==
    ASSUME NEW S, IsFiniteSet(S), NEW f
    PROVE  \A s \in SUBSET S :
              Total(f, s) = IF s = {} THEN 0 ELSE f[First(s)] + Total(f, s \ {First(s)})
<1> SUFFICES ASSUME NEW s \in SUBSET S
             PROVE  Total(f, s) = IF s = {} THEN 0 ELSE f[First(s)] + Total(f, s \ {First(s)})
  OBVIOUS
<1>1. IsFiniteSet(s) /\ s \in SUBSET s
  BY FS_Subset
<1>2. IsSum(f, s, Sums(f, s))
  BY <1>1, SumExists
<1>3. Total(f, s) = Sums(f, s)[s]
  BY TotalIsSums
<1>4. CASE s = {}
  BY <1>1, <1>2, <1>3, <1>4 DEF IsSum
<1>5. CASE s # {}
  <2> DEFINE rest == s \ {First(s)}
  <2>1. rest \in SUBSET s /\ IsFiniteSet(rest)
    BY <1>1, <1>5, FirstMember, FS_Subset
  <2> HIDE DEF rest
  <2> DEFINE h == [u \in SUBSET rest |-> Sums(f, s)[u]]
  <2>2. IsSum(f, rest, h)
    <3> DEFINE g == Sums(f, s)
    <3>1. IsSum(f, s, g)
      BY <1>2
    <3> HIDE DEF g
    <3>2. IsSum(f, rest, [u \in SUBSET rest |-> g[u]])
      BY <2>1, <3>1, SumRestrict
    <3> QED
      BY <3>2 DEF g
  <2>3. IsSum(f, rest, Sums(f, rest))
    BY <2>1, SumExists
  <2>4. h = Sums(f, rest)
    BY <2>1, <2>2, <2>3, SumUnique
  <2>5. rest \in SUBSET rest
    OBVIOUS
  <2>6. h[rest] = Sums(f, s)[rest]
    BY <2>5
  <2>7. Total(f, rest) = Sums(f, s)[rest]
    BY <2>4, <2>6, TotalIsSums
  <2>8. Sums(f, s)[s] = f[First(s)] + Sums(f, s)[rest]
    BY <1>1, <1>2, <1>5 DEF IsSum, rest
  <2> QED
    BY <1>3, <1>5, <2>7, <2>8 DEF rest
<1> QED
  BY <1>4, <1>5

-----------------------------------------------------------------------------
(***************************************************************************)
(* The laws.                                                               *)
(***************************************************************************)

\* A sum of natural numbers is one.
LEMMA TotalType ==
    ASSUME NEW S, IsFiniteSet(S), NEW f, \A x \in S : f[x] \in Nat
    PROVE  Total(f, S) \in Nat
<1> DEFINE T == {s \in SUBSET S : Total(f, s) \notin Nat}
<1> SUFFICES ASSUME T # {} PROVE FALSE
  OBVIOUS
<1>1. PICK m \in T : \A s \in SUBSET m : s # m => s \notin T
  <2>1. T \subseteq SUBSET S
    OBVIOUS
  <2> HIDE DEF T
  <2> QED
    BY <2>1, SmallestSubset
<1>2. m \in SUBSET S /\ Total(f, m) \notin Nat
  OBVIOUS
<1>3. Total(f, m) = IF m = {} THEN 0 ELSE f[First(m)] + Total(f, m \ {First(m)})
  BY <1>2, TotalFold
<1>4. m # {}
  BY <1>2, <1>3
<1>5. First(m) \in S /\ m \ {First(m)} \in SUBSET S /\ m \ {First(m)} \notin T
  BY <1>1, <1>2, <1>4, FirstMember
<1>6. Total(f, m \ {First(m)}) \in Nat
  BY <1>5
<1>7. f[First(m)] \in Nat
  BY <1>5
<1> QED
  BY <1>2, <1>3, <1>4, <1>6, <1>7

\* Changing f at x changes the sum of every set with x by as much.
LEMMA TotalUpdate ==
    ASSUME NEW S, IsFiniteSet(S), NEW x \in S, NEW f, NEW h,
           \A y \in S : f[y] \in Nat /\ h[y] \in Nat,
           \A y \in S : y # x => h[y] = f[y]
    PROVE  Total(h, S) + f[x] = Total(f, S) + h[x]
<1> DEFINE Law(s) == IF x \in s THEN Total(h, s) + f[x] = Total(f, s) + h[x]
                     ELSE Total(h, s) = Total(f, s)
           T == {s \in SUBSET S : ~Law(s)}
<1> SUFFICES ASSUME T # {} PROVE FALSE
  OBVIOUS
<1>1. PICK m \in T : \A s \in SUBSET m : s # m => s \notin T
  <2>1. T \subseteq SUBSET S
    OBVIOUS
  <2> HIDE DEF T
  <2> QED
    BY <2>1, SmallestSubset
<1>2. m \in SUBSET S /\ ~Law(m)
  OBVIOUS
<1> DEFINE y == First(m)
           rest == m \ {First(m)}
<1>3. /\ Total(f, m) = IF m = {} THEN 0 ELSE f[y] + Total(f, rest)
      /\ Total(h, m) = IF m = {} THEN 0 ELSE h[y] + Total(h, rest)
  BY <1>2, TotalFold
<1>4. m # {}
  BY <1>2, <1>3
<1>5. y \in m /\ y \in S /\ rest \in SUBSET S /\ rest \notin T
  BY <1>1, <1>2, <1>4, FirstMember
<1>6. Law(rest)
  BY <1>5
<1>7. IsFiniteSet(rest)
  BY <1>5, FS_Subset
<1>8. /\ Total(f, rest) \in Nat /\ Total(h, rest) \in Nat
      /\ f[x] \in Nat /\ h[x] \in Nat /\ f[y] \in Nat /\ h[y] \in Nat
      /\ y # x => h[y] = f[y]
  BY <1>5, <1>7, TotalType
<1>9. x \in rest <=> x \in m /\ x # y
  OBVIOUS
<1> HIDE DEF y, rest, T
<1>10. CASE y = x
  BY <1>2, <1>3, <1>4, <1>5, <1>6, <1>8, <1>9, <1>10
<1>11. CASE y # x
  BY <1>2, <1>3, <1>4, <1>5, <1>6, <1>8, <1>9, <1>11
<1> QED
  BY <1>10, <1>11

\* A sum of zeros is zero, and so is an empty sum.
LEMMA TotalZero ==
    ASSUME NEW S, IsFiniteSet(S), NEW f, \A x \in S : f[x] = 0
    PROVE  Total(f, S) = 0
<1> DEFINE T == {s \in SUBSET S : Total(f, s) # 0}
<1> SUFFICES ASSUME T # {} PROVE FALSE
  OBVIOUS
<1>1. PICK m \in T : \A s \in SUBSET m : s # m => s \notin T
  <2>1. T \subseteq SUBSET S
    OBVIOUS
  <2> HIDE DEF T
  <2> QED
    BY <2>1, SmallestSubset
<1>2. m \in SUBSET S /\ Total(f, m) # 0
  OBVIOUS
<1>3. Total(f, m) = IF m = {} THEN 0 ELSE f[First(m)] + Total(f, m \ {First(m)})
  BY <1>2, TotalFold
<1>4. m # {}
  BY <1>2, <1>3
<1>5. First(m) \in S /\ m \ {First(m)} \in SUBSET S /\ m \ {First(m)} \notin T
  BY <1>1, <1>2, <1>4, FirstMember
<1>6. Total(f, m \ {First(m)}) = 0 /\ f[First(m)] = 0
  BY <1>5
<1> QED
  BY <1>2, <1>3, <1>4, <1>6

\* When every value times n is at most c times the other, so are the sums: with
\* n and c both one this is monotony, with the code's shares it bounds a payout.
LEMMA TotalScaled ==
    ASSUME NEW S, IsFiniteSet(S), NEW f, NEW h, NEW n \in Nat, NEW c \in Nat,
           \A x \in S : f[x] \in Nat /\ h[x] \in Nat /\ n * f[x] <= c * h[x]
    PROVE  n * Total(f, S) <= c * Total(h, S)
<1> DEFINE T == {s \in SUBSET S : ~(n * Total(f, s) <= c * Total(h, s))}
<1> SUFFICES ASSUME T # {} PROVE FALSE
  OBVIOUS
<1>1. PICK m \in T : \A s \in SUBSET m : s # m => s \notin T
  <2>1. T \subseteq SUBSET S
    OBVIOUS
  <2> HIDE DEF T
  <2> QED
    BY <2>1, SmallestSubset
<1>2. m \in SUBSET S /\ ~(n * Total(f, m) <= c * Total(h, m))
  OBVIOUS
<1> DEFINE x == First(m)
           rest == m \ {First(m)}
           F == Total(f, rest)
           H == Total(h, rest)
<1>3. /\ Total(f, m) = IF m = {} THEN 0 ELSE f[x] + F
      /\ Total(h, m) = IF m = {} THEN 0 ELSE h[x] + H
  <2>1. m \in SUBSET S
    BY <1>2
  <2>2. Total(f, m) = IF m = {} THEN 0 ELSE f[x] + F
    BY <2>1, TotalFold, Zenon
  <2>3. Total(h, m) = IF m = {} THEN 0 ELSE h[x] + H
    BY <2>1, TotalFold, Zenon
  <2> QED
    BY <2>2, <2>3
<1>4. m # {}
  <2>1. n * 0 <= c * 0
    OBVIOUS
  <2> QED
    BY <1>2, <1>3, <2>1
<1>5. x \in S /\ rest \in SUBSET S /\ rest \notin T
  BY <1>1, <1>2, <1>4, FirstMember
<1>6. n * F <= c * H
  BY <1>5
<1>7. /\ F \in Nat /\ H \in Nat /\ f[x] \in Nat /\ h[x] \in Nat
      /\ n * f[x] <= c * h[x]
  BY <1>5, FS_Subset, TotalType
<1> DEFINE fx == f[x]
           hx == h[x]
<1> HIDE DEF x, rest, F, H, T
<1>8. fx \in Nat /\ hx \in Nat /\ n * fx <= c * hx
  BY <1>7
<1>9. ~(n * (fx + F) <= c * (hx + H))
  BY <1>2, <1>3, <1>4
<1> HIDE DEF fx, hx
<1>10. n * (fx + F) = n * fx + n * F /\ c * (hx + H) = c * hx + c * H
  BY <1>7, <1>8
<1>11. n * fx \in Nat /\ n * F \in Nat /\ c * hx \in Nat /\ c * H \in Nat
  BY <1>7, <1>8
<1> QED
  BY <1>6, <1>8, <1>9, <1>10, <1>11

\* The shares of everybody, each rounded down, fit in what is shared out.
THEOREM SharesFit ==
    ASSUME NEW S, IsFiniteSet(S), NEW half \in Nat, NEW raise \in Nat \ {0},
           NEW f, \A x \in S : f[x] \in Nat, Total(f, S) = raise
    PROVE  Total([x \in S |-> Claimable(half, f[x], raise)], S) <= half
<1> DEFINE q == [x \in S |-> Claimable(half, f[x], raise)]
<1>1. ASSUME NEW x \in S
      PROVE  q[x] \in Nat /\ raise * q[x] <= half * f[x]
  <2> DEFINE product == half * f[x]
  <2>1. product \in Nat
    OBVIOUS
  <2>2. q[x] = product \div raise
    BY DEF Claimable
  <2> HIDE DEF product, q
  <2>3. product \div raise \in Nat /\ raise * (product \div raise) <= product
    BY <2>1
  <2> QED
    BY <2>2, <2>3 DEF product
<1> DEFINE Q == Total(q, S)
<1>2. Q \in Nat
  BY <1>1, TotalType
<1> HIDE DEF q
<1>3. raise * Q <= half * Total(f, S)
  BY <1>1, TotalScaled
<1> HIDE DEF Q
<1>4. raise * Q <= raise * half
  BY <1>3
<1>5. ~(Q > half)
  <2> SUFFICES ASSUME Q >= half + 1 PROVE FALSE
    BY <1>2
  <2>1. raise * Q >= raise * (half + 1)
    BY <1>2
  <2>2. raise * (half + 1) = raise * half + raise
    OBVIOUS
  <2>3. raise * half \in Nat /\ raise * Q \in Nat
    BY <1>2
  <2> QED
    BY <1>4, <2>1, <2>2, <2>3
<1> QED
  BY <1>2, <1>5 DEF Q, q

=============================================================================
