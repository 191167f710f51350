------------------------------ MODULE SumTheorems ------------------------------
(***************************************************************************)
(* Facts about the sums the books are compared with: adding a row to one,  *)
(* taking one out, changing one, and what a sum of such is bounded by.     *)
(* The library's induction theorems take an operator, so induction over    *)
(* the natural numbers and over a finite set is first stated here about a  *)
(* set of those for which something holds.                                 *)
(***************************************************************************)
EXTENDS Integers, Sequences, FiniteSets, Functions, FiniteSetTheorems, WellFoundedInduction, TLAPS

\* What holds of 0, and of n + 1 when it holds of n, holds of every number.
LEMMA NaturalsBySteps ==
  ASSUME NEW T, 0 \in T, \A n \in Nat : n \in T => n + 1 \in T
  PROVE  Nat \subseteq T
<1> DEFINE Left == {n \in Nat : n \notin T}
<1> SUFFICES ASSUME Left # {} PROVE FALSE
  OBVIOUS
<1>1. Left \subseteq Nat
  OBVIOUS
<1> HIDE DEF Left
<1>2. PICK n \in Left : \A m \in Left : ~(<<m, n>> \in OpToRel(<, Nat))
  BY <1>1, NatLessThanWellFounded, WFMin
<1> USE DEF Left
<1>3. n # 0 /\ n \in Nat /\ n - 1 \in Nat /\ n - 1 < n /\ (n - 1) + 1 = n
  OBVIOUS
<1>4. n - 1 \in Left
  BY <1>3
<1> QED
  BY <1>2, <1>3, <1>4 DEF OpToRel

\* What holds of no rows, and of one more row, holds of a finite set of rows.
LEMMA RowByRow ==
  ASSUME NEW S, IsFiniteSet(S), NEW T, {} \in T,
         \A R \in SUBSET S : \A x \in S \ R : R \in T => R \cup {x} \in T
  PROVE  S \in T
<1> DEFINE Sized == {n \in Nat : \A R \in SUBSET S : Cardinality(R) = n => R \in T}
<1>1. 0 \in Sized
  BY FS_Subset, FS_EmptySet
<1>2. ASSUME NEW n \in Nat, n \in Sized PROVE n + 1 \in Sized
  <2> SUFFICES ASSUME NEW R \in SUBSET S, Cardinality(R) = n + 1 PROVE R \in T
    OBVIOUS
  <2>1. IsFiniteSet(R)
    BY FS_Subset
  <2>2. R # {}
    <3>1. Cardinality({}) = 0 /\ n + 1 # 0
      BY FS_EmptySet
    <3> QED
      BY <3>1
  <2>3. PICK x \in R : TRUE
    BY <2>2
  <2>4. Cardinality(R \ {x}) = n
    <3>1. Cardinality(R \ {x}) = Cardinality(R) - 1
      BY <2>1, <2>3, FS_RemoveElement
    <3> QED
      BY <3>1
  <2>5. R \ {x} \in SUBSET S /\ x \in S \ (R \ {x}) /\ (R \ {x}) \cup {x} = R
    OBVIOUS
  <2>6. R \ {x} \in T
    BY <1>2, <2>4, <2>5
  <2> QED
    BY <2>5, <2>6
<1> HIDE DEF Sized
<1>3. Nat \subseteq Sized
  BY <1>1, <1>2, NaturalsBySteps
<1>4. Cardinality(S) \in Nat
  BY FS_CardinalityType
<1> QED
  BY <1>3, <1>4 DEF Sized

-------------------------------------------------------------------------------
\* The row the library's fold takes out of a set first.
Pick(s) == CHOOSE x \in s : TRUE

\* g sums f over every subset of S, the way the fold does.
SumsUp(g, f, S) == g = [s \in SUBSET S |-> IF s = {} THEN 0 ELSE f[Pick(s)] + g[s \ {Pick(s)}]]

LEMMA SumUnfolds ==
  ASSUME NEW f, NEW S
  PROVE  SumFunctionOnSet(f, S) = (CHOOSE g : SumsUp(g, f, S))[S]
BY DEF SumFunctionOnSet, FoldFunctionOnSet, MapThenFoldSet, SumsUp, Pick

\* There is such a g: its values on subsets of n + 1 rows follow from those on n.
LEMMA SumsExist ==
  ASSUME NEW S, IsFiniteSet(S), NEW f, \A x \in S : f[x] \in Int
  PROVE  \E g : SumsUp(g, f, S)
<1> DEFINE Small(n) == {s \in SUBSET S : Cardinality(s) <= n}
           Next(g, s) == IF s = {} THEN 0 ELSE f[Pick(s)] + g[s \ {Pick(s)}]
           Done == {n \in Nat : \E g \in [Small(n) -> Int] : \A s \in Small(n) : g[s] = Next(g, s)}
<1>0. ASSUME NEW s \in SUBSET S
      PROVE  /\ Cardinality(s) \in Nat /\ (Cardinality(s) = 0 <=> s = {})
             /\ s # {} => /\ Pick(s) \in s /\ f[Pick(s)] \in Int
                          /\ s \ {Pick(s)} \in SUBSET S /\ Cardinality(s \ {Pick(s)}) = Cardinality(s) - 1
  <2>1. IsFiniteSet(s)
    BY FS_Subset
  <2>2. Cardinality(s) \in Nat /\ (Cardinality(s) = 0 <=> s = {})
    BY <2>1, FS_CardinalityType, FS_EmptySet
  <2>3. s # {} => Pick(s) \in s
    BY DEF Pick
  <2>4. s # {} => Cardinality(s \ {Pick(s)}) = Cardinality(s) - 1
    BY <2>1, <2>3, FS_RemoveElement
  <2> QED
    BY <2>2, <2>3, <2>4
<1>1. 0 \in Done
  <2> DEFINE g == [s \in Small(0) |-> 0]
  <2>1. ASSUME NEW s \in Small(0) PROVE s = {}
    <3>1. s \in SUBSET S /\ Cardinality(s) <= 0
      OBVIOUS
    <3>2. Cardinality(s) \in Nat /\ (Cardinality(s) = 0 <=> s = {})
      BY <1>0, <3>1
    <3> QED
      BY <3>1, <3>2
  <2>2. g \in [Small(0) -> Int] /\ \A s \in Small(0) : g[s] = Next(g, s)
    BY <2>1
  <2> QED
    BY <2>2
<1>2. ASSUME NEW n \in Nat, n \in Done PROVE n + 1 \in Done
  <2>1. PICK g \in [Small(n) -> Int] : \A s \in Small(n) : g[s] = Next(g, s)
    BY <1>2
  <2> DEFINE h == [s \in Small(n + 1) |-> IF s \in Small(n) THEN g[s] ELSE Next(g, s)]
  <2>2. ASSUME NEW s \in Small(n + 1)
        PROVE  h[s] \in Int /\ h[s] = Next(h, s)
    <3>1. CASE s = {}
      <4>1. s \in Small(n)
        <5>1. {} \in SUBSET S /\ Cardinality({}) = 0
          BY FS_EmptySet
        <5> QED
          BY <3>1, <5>1
      <4> QED
        BY <2>1, <3>1, <4>1
    <3>2. CASE s # {}
      <4> DEFINE r == s \ {Pick(s)}
      <4>1. r \in Small(n) /\ r \in Small(n + 1) /\ f[Pick(s)] \in Int
        BY <1>0, <3>2
      <4>2. h[r] = g[r] /\ g[r] \in Int
        BY <2>1, <4>1
      <4>3. h[s] = f[Pick(s)] + g[r]
        <5>1. s \in Small(n) => g[s] = f[Pick(s)] + g[r]
          BY <2>1, <3>2
        <5> QED
          BY <3>2, <5>1
      <4> HIDE DEF h
      <4> QED
        BY <3>2, <4>1, <4>2, <4>3
    <3> QED
      BY <3>1, <3>2
  <2>3. h \in [Small(n + 1) -> Int] /\ \A s \in Small(n + 1) : h[s] = Next(h, s)
    <3> HIDE DEF Next, Small
    <3> QED
      BY <2>2
  <2> HIDE DEF h, Small, Next
  <2> QED
    BY <2>3
<1> HIDE DEF Done
<1>3. Nat \subseteq Done
  BY <1>1, <1>2, NaturalsBySteps
<1>4. Cardinality(S) \in Nat /\ Small(Cardinality(S)) = SUBSET S
  <2>1. \A s \in SUBSET S : Cardinality(s) <= Cardinality(S)
    BY FS_Subset
  <2> QED
    BY <2>1, <1>0
<1>5. PICK g \in [SUBSET S -> Int] : \A s \in SUBSET S : g[s] = Next(g, s)
  <2>1. Cardinality(S) \in Done
    BY <1>3, <1>4
  <2> HIDE DEF Small, Next
  <2> QED
    BY <2>1, <1>4 DEF Done
<1>6. g = [s \in SUBSET S |-> Next(g, s)]
  <2> HIDE DEF Next
  <2> QED
    BY <1>5
<1> QED
  BY <1>6 DEF SumsUp

\* Two that sum rows with the same amounts agree where both are defined, in whole amounts.
LEMMA SumsAgree ==
  ASSUME NEW S, IsFiniteSet(S), NEW R \in SUBSET S, NEW f, NEW e,
         \A x \in R : f[x] \in Int /\ e[x] = f[x],
         NEW g, NEW h, SumsUp(g, f, S), SumsUp(h, e, R)
  PROVE  \A s \in SUBSET R : g[s] = h[s] /\ g[s] \in Int
<1> DEFINE Same == {n \in Nat : \A s \in SUBSET R : Cardinality(s) = n => g[s] = h[s] /\ g[s] \in Int}
<1>0. ASSUME NEW s \in SUBSET R
      PROVE  /\ Cardinality(s) \in Nat /\ (Cardinality(s) = 0 <=> s = {})
             /\ s # {} => /\ Pick(s) \in s
                          /\ s \ {Pick(s)} \in SUBSET R /\ Cardinality(s \ {Pick(s)}) = Cardinality(s) - 1
             /\ g[s] = IF s = {} THEN 0 ELSE f[Pick(s)] + g[s \ {Pick(s)}]
             /\ h[s] = IF s = {} THEN 0 ELSE e[Pick(s)] + h[s \ {Pick(s)}]
  <2>1. IsFiniteSet(s) /\ s \in SUBSET S
    BY FS_Subset
  <2>2. Cardinality(s) \in Nat /\ (Cardinality(s) = 0 <=> s = {})
    BY <2>1, FS_CardinalityType, FS_EmptySet
  <2>3. s # {} => Pick(s) \in s
    BY DEF Pick
  <2>4. s # {} => Cardinality(s \ {Pick(s)}) = Cardinality(s) - 1
    BY <2>1, <2>3, FS_RemoveElement
  <2>5. g[s] = IF s = {} THEN 0 ELSE f[Pick(s)] + g[s \ {Pick(s)}]
    BY <2>1 DEF SumsUp
  <2>6. h[s] = IF s = {} THEN 0 ELSE e[Pick(s)] + h[s \ {Pick(s)}]
    BY DEF SumsUp
  <2> QED
    BY <2>2, <2>3, <2>4, <2>5, <2>6
<1>1. 0 \in Same
  <2> SUFFICES ASSUME NEW s \in SUBSET R, Cardinality(s) = 0 PROVE g[s] = h[s] /\ g[s] \in Int
    OBVIOUS
  <2>1. s = {} /\ g[s] = 0 /\ h[s] = 0
    BY <1>0
  <2> QED
    BY <2>1
<1>2. ASSUME NEW n \in Nat, n \in Same PROVE n + 1 \in Same
  <2> SUFFICES ASSUME NEW s \in SUBSET R, Cardinality(s) = n + 1 PROVE g[s] = h[s] /\ g[s] \in Int
    OBVIOUS
  <2> DEFINE r == s \ {Pick(s)}
  <2>1. s # {} /\ r \in SUBSET R /\ Cardinality(r) = n /\ Pick(s) \in R
    BY <1>0
  <2>2. g[r] = h[r] /\ g[r] \in Int
    BY <1>2, <2>1
  <2>3. g[s] = f[Pick(s)] + g[r] /\ h[s] = e[Pick(s)] + h[r]
    BY <1>0, <2>1
  <2> QED
    BY <2>1, <2>2, <2>3
<1> HIDE DEF Same
<1>3. Nat \subseteq Same
  BY <1>1, <1>2, NaturalsBySteps
<1> QED
  BY <1>0, <1>3 DEF Same

-------------------------------------------------------------------------------
\* A sum looks at the rows it is over, and is a whole amount when they are.
LEMMA SumOfSame ==
  ASSUME NEW S, IsFiniteSet(S), NEW f, NEW e, \A x \in S : f[x] \in Int /\ e[x] = f[x]
  PROVE  SumFunctionOnSet(e, S) = SumFunctionOnSet(f, S) /\ SumFunctionOnSet(f, S) \in Int
<1> DEFINE g == CHOOSE g : SumsUp(g, f, S)
           h == CHOOSE h : SumsUp(h, e, S)
<1>1. SumsUp(g, f, S)
  BY SumsExist
<1>2. SumsUp(h, e, S)
  BY SumsExist
<1>3. SumFunctionOnSet(f, S) = g[S] /\ SumFunctionOnSet(e, S) = h[S]
  BY SumUnfolds
<1> HIDE DEF g, h
<1>4. g[S] = h[S] /\ g[S] \in Int
  BY <1>1, <1>2, SumsAgree
<1> QED
  BY <1>3, <1>4

LEMMA SumInt ==
  ASSUME NEW S, IsFiniteSet(S), NEW f, \A x \in S : f[x] \in Int
  PROVE  SumFunctionOnSet(f, S) \in Int
BY SumOfSame

LEMMA SumOfNone ==
  ASSUME NEW f
  PROVE  SumFunctionOnSet(f, {}) = 0
<1> DEFINE g == CHOOSE g : SumsUp(g, f, {})
<1>1. SumsUp(g, f, {})
  BY SumsExist, FS_EmptySet
<1>2. SumFunctionOnSet(f, {}) = g[{}]
  BY SumUnfolds
<1> HIDE DEF g
<1> QED
  BY <1>1, <1>2 DEF SumsUp

\* The first row the fold takes.
LEMMA SumOfPicked ==
  ASSUME NEW S, IsFiniteSet(S), S # {}, NEW f, \A x \in S : f[x] \in Int
  PROVE  SumFunctionOnSet(f, S) = f[Pick(S)] + SumFunctionOnSet(f, S \ {Pick(S)})
<1> DEFINE R == S \ {Pick(S)}
           g == CHOOSE g : SumsUp(g, f, S)
           h == CHOOSE h : SumsUp(h, f, R)
<1>0. IsFiniteSet(R) /\ R \in SUBSET S
  BY FS_RemoveElement
<1>1. SumsUp(g, f, S)
  BY SumsExist
<1>2. SumsUp(h, f, R)
  BY <1>0, SumsExist
<1>3. SumFunctionOnSet(f, S) = g[S] /\ SumFunctionOnSet(f, R) = h[R]
  BY SumUnfolds
<1> HIDE DEF g, h
<1>4. g[S] = f[Pick(S)] + g[R]
  BY <1>1 DEF SumsUp
<1>5. g[R] = h[R]
  BY <1>0, <1>1, <1>2, SumsAgree
<1> QED
  BY <1>3, <1>4, <1>5

\* Any row may be taken first.
LEMMA SumTakes ==
  ASSUME NEW S, IsFiniteSet(S), NEW f, \A x \in S : f[x] \in Int, NEW a \in S
  PROVE  SumFunctionOnSet(f, S) = f[a] + SumFunctionOnSet(f, S \ {a})
<1> DEFINE Done == {n \in Nat : \A R \in SUBSET S : \A x \in R : Cardinality(R) = n =>
                                  SumFunctionOnSet(f, R) = f[x] + SumFunctionOnSet(f, R \ {x})}
<1>1. 0 \in Done
  <2>1. ASSUME NEW R \in SUBSET S, NEW x \in R PROVE Cardinality(R) # 0
    BY FS_Subset, FS_EmptySet
  <2> QED
    BY <2>1
<1>2. ASSUME NEW n \in Nat, n \in Done PROVE n + 1 \in Done
  <2> SUFFICES ASSUME NEW R \in SUBSET S, NEW x \in R, Cardinality(R) = n + 1
               PROVE  SumFunctionOnSet(f, R) = f[x] + SumFunctionOnSet(f, R \ {x})
    OBVIOUS
  <2> DEFINE y == Pick(R)
             Rest == (R \ {x}) \ {y}
  <2>1. IsFiniteSet(R) /\ R # {} /\ y \in R
    BY FS_Subset DEF Pick
  <2>2. SumFunctionOnSet(f, R) = f[y] + SumFunctionOnSet(f, R \ {y})
    BY <2>1, SumOfPicked
  <2> HIDE DEF y
  <2>3. CASE y = x
    BY <2>2, <2>3
  <2>4. CASE y # x
    <3>1. /\ IsFiniteSet(R \ {y}) /\ Cardinality(R \ {y}) = n
          /\ IsFiniteSet(R \ {x}) /\ Cardinality(R \ {x}) = n
      <4>1. Cardinality(R \ {y}) = Cardinality(R) - 1 /\ Cardinality(R \ {x}) = Cardinality(R) - 1
        BY <2>1, FS_RemoveElement
      <4> QED
        BY <2>1, <4>1, FS_RemoveElement
    <3>2. IsFiniteSet(Rest) /\ Rest = (R \ {y}) \ {x}
      BY <3>1, FS_RemoveElement
    <3>3. SumFunctionOnSet(f, R \ {y}) = f[x] + SumFunctionOnSet(f, Rest)
      BY <1>2, <2>4, <3>1, <3>2
    <3>4. SumFunctionOnSet(f, R \ {x}) = f[y] + SumFunctionOnSet(f, Rest)
      BY <1>2, <2>1, <2>4, <3>1
    <3>5. SumFunctionOnSet(f, Rest) \in Int /\ f[x] \in Int /\ f[y] \in Int
      BY <2>1, <3>2, SumInt
    <3> HIDE DEF Rest
    <3> QED
      BY <2>2, <3>3, <3>4, <3>5
  <2> QED
    BY <2>3, <2>4
<1> HIDE DEF Done
<1>3. Nat \subseteq Done
  BY <1>1, <1>2, NaturalsBySteps
<1>4. Cardinality(S) \in Nat
  BY FS_CardinalityType
<1> QED
  BY <1>3, <1>4 DEF Done

\* One row more.
LEMMA SumAdds ==
  ASSUME NEW S, IsFiniteSet(S), NEW a, a \notin S, NEW f, \A x \in S \cup {a} : f[x] \in Int
  PROVE  SumFunctionOnSet(f, S \cup {a}) = SumFunctionOnSet(f, S) + f[a]
<1>1. IsFiniteSet(S \cup {a}) /\ (S \cup {a}) \ {a} = S
  BY FS_AddElement
<1>2. SumFunctionOnSet(f, S \cup {a}) = f[a] + SumFunctionOnSet(f, (S \cup {a}) \ {a})
  BY <1>1, SumTakes
<1>3. SumFunctionOnSet(f, S) \in Int /\ f[a] \in Int
  BY SumInt
<1>4. SumFunctionOnSet(f, (S \cup {a}) \ {a}) = SumFunctionOnSet(f, S)
  BY <1>1
<1> QED
  BY <1>2, <1>3, <1>4

\* One row changed.
LEMMA SumChanges ==
  ASSUME NEW S, IsFiniteSet(S), NEW a \in S, NEW f, NEW e,
         \A x \in S : f[x] \in Int /\ e[x] \in Int, \A x \in S \ {a} : e[x] = f[x]
  PROVE  SumFunctionOnSet(e, S) = SumFunctionOnSet(f, S) - f[a] + e[a]
<1> DEFINE R == S \ {a}
<1>1. IsFiniteSet(R)
  BY FS_RemoveElement
<1>2. SumFunctionOnSet(e, S) = e[a] + SumFunctionOnSet(e, R) /\ SumFunctionOnSet(f, S) = f[a] + SumFunctionOnSet(f, R)
  BY SumTakes
<1>3. SumFunctionOnSet(e, R) = SumFunctionOnSet(f, R) /\ SumFunctionOnSet(f, R) \in Int
  BY <1>1, SumOfSame
<1> QED
  BY <1>2, <1>3

\* Rows of nothing.
LEMMA SumOfZeros ==
  ASSUME NEW S, IsFiniteSet(S), NEW f, \A x \in S : f[x] = 0
  PROVE  SumFunctionOnSet(f, S) = 0
<1> DEFINE T == {R \in SUBSET S : SumFunctionOnSet(f, R) = 0}
<1>1. {} \in T
  BY SumOfNone
<1>2. ASSUME NEW R \in SUBSET S, NEW x \in S \ R, R \in T PROVE R \cup {x} \in T
  <2>1. IsFiniteSet(R)
    BY FS_Subset
  <2>2. SumFunctionOnSet(f, R \cup {x}) = SumFunctionOnSet(f, R) + f[x]
    <3>1. \A y \in R \cup {x} : f[y] \in Int
      OBVIOUS
    <3> QED
      BY <2>1, <3>1, SumAdds
  <2> QED
    BY <1>2, <2>2
<1> HIDE DEF T
<1>3. S \in T
  BY <1>1, <1>2, RowByRow
<1> QED
  BY <1>3 DEF T

\* Two things at most.
LEMMA PairCounted ==
  ASSUME NEW x, NEW y
  PROVE  IsFiniteSet({x, y}) /\ Cardinality({x, y}) <= 2
<1>1. IsFiniteSet({x}) /\ Cardinality({x}) = 1 /\ {x, y} = {x} \cup {y}
  BY FS_Singleton
<1>2. IsFiniteSet({x} \cup {y}) /\ Cardinality({x} \cup {y}) = IF y \in {x} THEN 1 ELSE 2
  BY <1>1, FS_AddElement
<1> QED
  BY <1>1, <1>2

\* A sum that one row adds to, having added nothing before.
LEMMA SumGrows ==
  ASSUME NEW S, IsFiniteSet(S), NEW a \in S, NEW f, NEW e, DOMAIN f = S, DOMAIN e = S,
         \A x \in S : f[x] \in Int /\ e[x] \in Int, \A x \in S \ {a} : e[x] = f[x], f[a] = 0
  PROVE  SumFunction(e) = SumFunction(f) + e[a]
<1>1. SumFunctionOnSet(e, S) = SumFunctionOnSet(f, S) - f[a] + e[a]
  BY SumChanges
<1>2. SumFunctionOnSet(f, S) \in Int /\ e[a] \in Int
  BY SumInt
<1> QED
  BY <1>1, <1>2 DEF SumFunction

\* One row more at the end: the sums up to each row before it stay.
LEMMA SumAppends ==
  ASSUME NEW n \in Nat, NEW f, NEW e, \A i \in 1..n : f[i] \in Int /\ e[i] = f[i], e[n + 1] \in Int
  PROVE  /\ \A m \in 0..n : /\ SumFunctionOnSet(e, 1..m) = SumFunctionOnSet(f, 1..m)
                            /\ SumFunctionOnSet(f, 1..m) \in Int
         /\ SumFunctionOnSet(e, 1..(n + 1)) = SumFunctionOnSet(f, 1..n) + e[n + 1]
<1>1. ASSUME NEW m \in 0..n
      PROVE  /\ SumFunctionOnSet(e, 1..m) = SumFunctionOnSet(f, 1..m)
             /\ SumFunctionOnSet(f, 1..m) \in Int
  <2>1. IsFiniteSet(1..m) /\ \A i \in 1..m : i \in 1..n
    <3>1. 1 \in Int /\ m \in Int
      OBVIOUS
    <3> QED
      BY <3>1, FS_Interval
  <2>2. \A i \in 1..m : f[i] \in Int /\ e[i] = f[i]
    BY <2>1
  <2> QED
    BY <2>1, <2>2, SumOfSame
<1>2. SumFunctionOnSet(e, 1..(n + 1)) = SumFunctionOnSet(e, 1..n) + e[n + 1]
  <2>1. IsFiniteSet(1..n)
    <3>1. 1 \in Int /\ n \in Int
      OBVIOUS
    <3> QED
      BY <3>1, FS_Interval
  <2>2. 1..(n + 1) = (1..n) \cup {n + 1} /\ n + 1 \notin 1..n
    OBVIOUS
  <2>3. \A x \in (1..n) \cup {n + 1} : e[x] \in Int
    OBVIOUS
  <2>4. SumFunctionOnSet(e, (1..n) \cup {n + 1}) = SumFunctionOnSet(e, 1..n) + e[n + 1]
    BY <2>1, <2>2, <2>3, SumAdds
  <2> QED
    BY <2>2, <2>4
<1>3. n \in 0..n
  OBVIOUS
<1> QED
  BY <1>1, <1>2, <1>3

LEMMA SumOfAppended ==
  ASSUME NEW s \in Seq(Int), NEW a \in Int
  PROVE  SumFunction(Append(s, a)) = SumFunction(s) + a /\ SumFunction(s) \in Int
<1> DEFINE e == Append(s, a)
           n == Len(s)
<1>1. n \in Nat /\ DOMAIN s = 1..n /\ DOMAIN e = 1..(n + 1) /\ e[n + 1] = a
  OBVIOUS
<1>2. /\ \A i \in 1..n : s[i] \in Int /\ e[i] = s[i]
      /\ e[n + 1] \in Int
  OBVIOUS
<1>3. n \in 0..n
  BY <1>1
<1> HIDE DEF e, n
<1>4. /\ \A m \in 0..n : /\ SumFunctionOnSet(e, 1..m) = SumFunctionOnSet(s, 1..m)
                         /\ SumFunctionOnSet(s, 1..m) \in Int
      /\ SumFunctionOnSet(e, 1..(n + 1)) = SumFunctionOnSet(s, 1..n) + e[n + 1]
  BY <1>1, <1>2, SumAppends, Zenon
<1>5. SumFunction(e) = SumFunctionOnSet(e, 1..(n + 1)) /\ SumFunction(s) = SumFunctionOnSet(s, 1..n)
  BY <1>1, Zenon DEF SumFunction
<1>6. SumFunctionOnSet(s, 1..n) \in Int
  BY <1>3, <1>4, Zenon
<1>7. SumFunctionOnSet(e, 1..(n + 1)) = SumFunctionOnSet(s, 1..n) + e[n + 1]
  BY <1>4, Zenon
<1>8. SumFunction(e) = SumFunction(s) + a /\ SumFunction(s) \in Int
  BY <1>1, <1>5, <1>6, <1>7
<1> QED
  BY <1>8 DEF e

\* Two columns added up row by row.
LEMMA SumOfSums ==
  ASSUME NEW S, IsFiniteSet(S), NEW f, NEW e, NEW g, \A x \in S : f[x] \in Int /\ e[x] \in Int /\ g[x] = f[x] + e[x]
  PROVE  SumFunctionOnSet(g, S) = SumFunctionOnSet(f, S) + SumFunctionOnSet(e, S)
<1> DEFINE T == {R \in SUBSET S : SumFunctionOnSet(g, R) = SumFunctionOnSet(f, R) + SumFunctionOnSet(e, R)}
<1>1. {} \in T
  BY SumOfNone
<1>2. ASSUME NEW R \in SUBSET S, NEW x \in S \ R, R \in T PROVE R \cup {x} \in T
  <2>1. IsFiniteSet(R) /\ x \notin R
    BY FS_Subset
  <2>2. \A y \in R \cup {x} : f[y] \in Int /\ e[y] \in Int /\ g[y] \in Int
    OBVIOUS
  <2>3. /\ SumFunctionOnSet(f, R \cup {x}) = SumFunctionOnSet(f, R) + f[x]
        /\ SumFunctionOnSet(e, R \cup {x}) = SumFunctionOnSet(e, R) + e[x]
        /\ SumFunctionOnSet(g, R \cup {x}) = SumFunctionOnSet(g, R) + g[x]
    BY <2>1, <2>2, SumAdds
  <2>4. SumFunctionOnSet(f, R) \in Int /\ SumFunctionOnSet(e, R) \in Int
    BY <2>1, SumInt
  <2>5. SumFunctionOnSet(g, R) = SumFunctionOnSet(f, R) + SumFunctionOnSet(e, R)
    BY <1>2
  <2>6. f[x] \in Int /\ e[x] \in Int /\ g[x] = f[x] + e[x]
    OBVIOUS
  <2>7. SumFunctionOnSet(g, R \cup {x}) = SumFunctionOnSet(f, R \cup {x}) + SumFunctionOnSet(e, R \cup {x})
    BY <2>3, <2>4, <2>5, <2>6
  <2> QED
    BY <2>7
<1> HIDE DEF T
<1>3. S \in T
  BY <1>1, <1>2, RowByRow
<1> QED
  BY <1>3 DEF T

\* Some of the rows are all of them with nothing in the others.
LEMMA SumOfPart ==
  ASSUME NEW S, IsFiniteSet(S), NEW R \in SUBSET S, NEW f, NEW e,
         \A x \in R : f[x] \in Int /\ e[x] = f[x], \A x \in S \ R : e[x] = 0
  PROVE  SumFunctionOnSet(f, R) = SumFunctionOnSet(e, S)
<1> DEFINE T == {Q \in SUBSET S : SumFunctionOnSet(f, Q \cap R) = SumFunctionOnSet(e, Q)}
<1>1. {} \in T
  <2>1. {} \cap R = {}
    OBVIOUS
  <2> QED
    BY <2>1, SumOfNone
<1>2. ASSUME NEW Q \in SUBSET S, NEW x \in S \ Q, Q \in T PROVE Q \cup {x} \in T
  <2>1. IsFiniteSet(Q) /\ IsFiniteSet(Q \cap R) /\ x \notin Q /\ x \notin Q \cap R
    BY FS_Subset
  <2>2. \A y \in Q \cup {x} : e[y] \in Int
    OBVIOUS
  <2>3. SumFunctionOnSet(e, Q \cup {x}) = SumFunctionOnSet(e, Q) + e[x] /\ SumFunctionOnSet(e, Q) \in Int
    BY <2>1, <2>2, SumAdds, SumInt
  <2>4. SumFunctionOnSet(f, (Q \cup {x}) \cap R) = SumFunctionOnSet(f, Q \cap R) + e[x]
    <3>1. CASE x \in R
      <4>1. (Q \cup {x}) \cap R = (Q \cap R) \cup {x} /\ e[x] = f[x]
        BY <3>1
      <4>2. \A y \in (Q \cap R) \cup {x} : f[y] \in Int
        BY <3>1
      <4>3. SumFunctionOnSet(f, (Q \cap R) \cup {x}) = SumFunctionOnSet(f, Q \cap R) + f[x]
        BY <2>1, <4>2, SumAdds
      <4> QED
        BY <4>1, <4>3
    <3>2. CASE x \notin R
      <4>1. (Q \cup {x}) \cap R = Q \cap R /\ e[x] = 0
        BY <3>2
      <4>2. SumFunctionOnSet(f, Q \cap R) \in Int
        <5>1. \A y \in Q \cap R : f[y] \in Int
          OBVIOUS
        <5> QED
          BY <2>1, <5>1, SumInt
      <4>3. SumFunctionOnSet(f, (Q \cup {x}) \cap R) = SumFunctionOnSet(f, Q \cap R)
        BY <4>1, Zenon
      <4> QED
        BY <4>1, <4>2, <4>3
    <3> QED
      BY <3>1, <3>2
  <2>5. SumFunctionOnSet(f, Q \cap R) = SumFunctionOnSet(e, Q)
    BY <1>2
  <2>6. SumFunctionOnSet(f, (Q \cup {x}) \cap R) = SumFunctionOnSet(e, Q \cup {x})
    BY <2>3, <2>4, <2>5
  <2> QED
    BY <2>6
<1> HIDE DEF T
<1>3. S \in T
  BY <1>1, <1>2, RowByRow
<1>4. S \cap R = R
  OBVIOUS
<1> QED
  BY <1>3, <1>4 DEF T

\* Nothing below zero adds up to nothing below zero, and to no less than any of it.
LEMMA SumNat ==
  ASSUME NEW S, IsFiniteSet(S), NEW f, \A x \in S : f[x] \in Nat
  PROVE  SumFunctionOnSet(f, S) \in Nat /\ \A x \in S : f[x] <= SumFunctionOnSet(f, S)
<1> DEFINE T == {R \in SUBSET S : SumFunctionOnSet(f, R) \in Nat}
<1>1. {} \in T
  BY SumOfNone
<1>2. ASSUME NEW R \in SUBSET S, NEW x \in S \ R, R \in T PROVE R \cup {x} \in T
  <2>1. IsFiniteSet(R) /\ x \notin R
    BY FS_Subset
  <2>2. \A y \in R \cup {x} : f[y] \in Int
    OBVIOUS
  <2>3. SumFunctionOnSet(f, R \cup {x}) = SumFunctionOnSet(f, R) + f[x]
    BY <2>1, <2>2, SumAdds
  <2>4. SumFunctionOnSet(f, R) \in Nat /\ f[x] \in Nat
    BY <1>2
  <2>5. SumFunctionOnSet(f, R \cup {x}) \in Nat
    BY <2>3, <2>4
  <2> QED
    BY <2>5
<1>3. \A R \in SUBSET S : R \in T
  <2> SUFFICES ASSUME NEW R \in SUBSET S PROVE R \in T
    OBVIOUS
  <2>1. IsFiniteSet(R)
    BY FS_Subset
  <2>2. /\ \A Q \in SUBSET R : \A x \in R \ Q : Q \in T => Q \cup {x} \in T
    BY <1>2
  <2> HIDE DEF T
  <2> QED
    BY <1>1, <2>1, <2>2, RowByRow
<1>4. SumFunctionOnSet(f, S) \in Nat
  BY <1>3
<1>5. ASSUME NEW x \in S PROVE f[x] <= SumFunctionOnSet(f, S)
  <2>1. SumFunctionOnSet(f, S) = f[x] + SumFunctionOnSet(f, S \ {x})
    BY SumTakes
  <2>2. SumFunctionOnSet(f, S \ {x}) \in Nat
    BY <1>3
  <2> QED
    BY <2>1, <2>2
<1> QED
  BY <1>4, <1>5
===============================================================================
