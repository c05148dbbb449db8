-------------------------------- MODULE Sums --------------------------------
(***************************************************************************)
(* What a sum over finitely many rows is, and how it changes with them.    *)
(* SumFunction is defined by recursion over the subsets of the domain; the *)
(* lemmas of this module are proved by induction over their size, in which *)
(* a property is the set of what has it.                                   *)
(***************************************************************************)
EXTENDS Integers, Functions, FiniteSetTheorems, WellFoundedInduction, TLAPS

-----------------------------------------------------------------------------
(* Induction. *)

Below == {ss \in Nat \X Nat : ss[1] < ss[2]}

\* Every set of numbers that is not empty has a least one.
LEMMA LeastNumber ==
    ASSUME NEW T \in SUBSET Nat, T # {}
    PROVE  \E x \in T : \A y \in T : x <= y
<1>1. IsWellFoundedOn(Below, Nat)
  BY NatLessThanWellFounded, Zenon DEF OpToRel, Below
<1>2. \E x \in T : \A y \in T : ~ (<<y, x>> \in Below)
  BY <1>1, WFMin, Zenon
<1>3. PICK x \in T : \A y \in T : ~ (<<y, x>> \in Below)
  BY <1>2
<1>4. \A y \in T : ~ (y < x)
  BY <1>3 DEF Below
<1> QED BY <1>4

\* Zero has it, and the successor of what has it: all numbers have it.
LEMMA ByNumber ==
    ASSUME NEW Good, 0 \in Good, \A n \in Nat : n \in Good => n + 1 \in Good
    PROVE  Nat \subseteq Good
<1>1. SUFFICES ASSUME Nat \ Good # {} PROVE FALSE
  OBVIOUS
<1>2. PICK x \in Nat \ Good : \A y \in Nat \ Good : x <= y
  BY <1>1, LeastNumber
<1>3. x # 0 /\ x - 1 \in Nat
  BY <1>2
<1>4. x - 1 \in Good
  BY <1>2, <1>3
<1>5. (x - 1) + 1 \in Good
  BY <1>3, <1>4
<1> QED BY <1>2, <1>5

Pick(s) == CHOOSE x \in s : TRUE
Rest(s) == s \ {Pick(s)}

\* The empty set has it, and a set if the set without the element picked from
\* it has it: all subsets of a finite set have it.
LEMMA BySize ==
    ASSUME NEW D, IsFiniteSet(D), NEW Good, {} \in Good,
           \A s \in SUBSET D : s # {} /\ Rest(s) \in Good => s \in Good
    PROVE  SUBSET D \subseteq Good
<1> DEFINE Sized == {n \in Nat : \A s \in SUBSET D : Cardinality(s) = n => s \in Good}
<1>1. \A s \in SUBSET D : IsFiniteSet(s) /\ Cardinality(s) \in Nat
  BY FS_Subset, FS_CardinalityType
<1>2. 0 \in Sized
  BY <1>1, FS_EmptySet
<1>3. ASSUME NEW n \in Nat, n \in Sized PROVE n + 1 \in Sized
  <2>1. ASSUME NEW s \in SUBSET D, Cardinality(s) = n + 1 PROVE s \in Good
    <3>1. s # {}
      BY <1>1, <2>1, FS_EmptySet
    <3>2. Pick(s) \in s /\ Rest(s) \in SUBSET D
      BY <3>1 DEF Pick, Rest
    <3>3. Cardinality(Rest(s)) = n
      BY <1>1, <2>1, <3>2, FS_RemoveElement DEF Rest
    <3>4. Rest(s) \in Good
      BY <1>3, <3>2, <3>3
    <3> QED BY <3>1, <3>4
  <2> QED BY <2>1
<1>4. Nat \subseteq Sized
  <2> HIDE DEF Sized
  <2> QED BY <1>2, <1>3, ByNumber
<1> QED BY <1>1, <1>4

-----------------------------------------------------------------------------
(* Sums. *)

\* g has the sums of f over the subsets of its domain, by the definition.
SumsTo(f, g) ==
    g = [s \in SUBSET DOMAIN f |-> IF s = {} THEN 0 ELSE f[Pick(s)] + g[Rest(s)]]

Sums(f) == CHOOSE g : SumsTo(f, g)

\* A sum is the last of them.
LEMMA SumIsDefined ==
    ASSUME NEW f
    PROVE  SumFunction(f) = Sums(f)[DOMAIN f]
BY Zenon DEF SumFunction, SumFunctionOnSet, FoldFunctionOnSet, MapThenFoldSet, Sums, SumsTo, Pick, Rest

\* There is such a g: step by step for larger sets.
LEMMA SumsExist ==
    ASSUME NEW f, IsFiniteSet(DOMAIN f)
    PROVE  SumsTo(f, Sums(f))
<1> DEFINE D == DOMAIN f
           Value(g, s) == IF s = {} THEN 0 ELSE f[Pick(s)] + g[Rest(s)]
           UpTo(g, n) == \A s \in SUBSET D : Cardinality(s) <= n => g[s] = Value(g, s)
           Good == {n \in Nat : \E g : g = [s \in SUBSET D |-> g[s]] /\ UpTo(g, n)}
<1>1. \A s \in SUBSET D : /\ IsFiniteSet(s) /\ Cardinality(s) \in Nat
                          /\ Cardinality(s) <= Cardinality(D)
                          /\ Cardinality(s) = 0 <=> s = {}
  BY FS_Subset, FS_CardinalityType, FS_EmptySet
<1>2. \A s \in SUBSET D : s # {} => /\ Rest(s) \in SUBSET D
                                    /\ Cardinality(Rest(s)) = Cardinality(s) - 1
  <2>1. ASSUME NEW s \in SUBSET D, s # {}
        PROVE  Rest(s) \in SUBSET D /\ Cardinality(Rest(s)) = Cardinality(s) - 1
    <3>1. Pick(s) \in s
      BY <2>1 DEF Pick
    <3> QED BY <1>1, <3>1, FS_RemoveElement DEF Rest
  <2> QED BY <2>1
<1>3. 0 \in Good
  <2>1. PICK g : g = [s \in SUBSET D |-> 0]
    OBVIOUS
  <2>2. g = [s \in SUBSET D |-> g[s]] /\ UpTo(g, 0)
    BY <1>1, <2>1
  <2> QED BY <2>2
<1>4. ASSUME NEW n \in Nat, n \in Good PROVE n + 1 \in Good
  <2>1. PICK g : g = [s \in SUBSET D |-> g[s]] /\ UpTo(g, n)
    BY <1>4
  <2>2. PICK h : h = [s \in SUBSET D |-> IF Cardinality(s) <= n THEN g[s] ELSE Value(g, s)]
    OBVIOUS
  <2>3. ASSUME NEW s \in SUBSET D, Cardinality(s) <= n + 1 PROVE h[s] = Value(h, s)
    <3>1. h[s] = Value(g, s)
      BY <2>1, <2>2
    <3>2. ASSUME s # {} PROVE h[Rest(s)] = g[Rest(s)]
      BY <1>1, <1>2, <2>2, <2>3, <3>2
    <3> QED BY <3>1, <3>2
  <2>4. h = [s \in SUBSET D |-> h[s]]
    BY <2>2
  <2>5. UpTo(h, n + 1)
    BY <2>3
  <2>6. n + 1 \in Nat
    OBVIOUS
  <2> HIDE DEF UpTo
  <2> QED BY <2>4, <2>5, <2>6
<1>5. Nat \subseteq Good
  <2> HIDE DEF Good
  <2> QED BY <1>3, <1>4, ByNumber
<1>6. PICK g : g = [s \in SUBSET D |-> g[s]] /\ UpTo(g, Cardinality(D))
  BY <1>1, <1>5
<1>7. SumsTo(f, g)
  BY <1>1, <1>6 DEF SumsTo
<1> QED BY <1>7 DEF Sums

\* Of a set that is not empty it is the picked row and the sum of the rest.
LEMMA SumStep ==
    ASSUME NEW f, IsFiniteSet(DOMAIN f)
    PROVE  /\ Sums(f)[{}] = 0
           /\ \A s \in SUBSET DOMAIN f : s # {} =>
                /\ Pick(s) \in s /\ Rest(s) \in SUBSET DOMAIN f
                /\ Sums(f)[s] = f[Pick(s)] + Sums(f)[Rest(s)]
<1>1. PICK g : g = Sums(f)
  OBVIOUS
<1>2. g = [s \in SUBSET DOMAIN f |-> IF s = {} THEN 0 ELSE f[Pick(s)] + g[Rest(s)]]
  BY <1>1, SumsExist DEF SumsTo
<1>3. {} \in SUBSET DOMAIN f
  OBVIOUS
<1>4. g[{}] = 0
  BY <1>2, <1>3
<1>5. ASSUME NEW s \in SUBSET DOMAIN f, s # {}
      PROVE  Pick(s) \in s /\ Rest(s) \in SUBSET DOMAIN f /\ g[s] = f[Pick(s)] + g[Rest(s)]
  <2>1. Pick(s) \in s
    BY <1>5 DEF Pick
  <2>2. Rest(s) \in SUBSET DOMAIN f
    BY DEF Rest
  <2>3. g[s] = f[Pick(s)] + g[Rest(s)]
    BY <1>2, <1>5
  <2> QED BY <2>1, <2>2, <2>3
<1> QED BY <1>1, <1>4, <1>5

\* A sum of integers is one.
LEMMA SumIsInt ==
    ASSUME NEW D, IsFiniteSet(D), NEW f \in [D -> Int]
    PROVE  SumFunction(f) \in Int /\ \A s \in SUBSET D : Sums(f)[s] \in Int
<1>1. PICK Good : Good = {s \in SUBSET D : Sums(f)[s] \in Int}
  OBVIOUS
<1>2. {} \in Good
  BY <1>1, SumStep
<1>3. \A s \in SUBSET D : s # {} /\ Rest(s) \in Good => s \in Good
  BY <1>1, SumStep
<1>4. SUBSET D \subseteq Good
  BY <1>2, <1>3, BySize
<1>5. D \in SUBSET D /\ SumFunction(f) = Sums(f)[D]
  BY SumIsDefined
<1> QED BY <1>1, <1>4, <1>5

\* Row by row no larger, the sum is no larger.
LEMMA SumOrder ==
    ASSUME NEW D, IsFiniteSet(D), NEW f \in [D -> Int], NEW g \in [D -> Int],
           \A x \in D : f[x] <= g[x]
    PROVE  SumFunction(f) <= SumFunction(g)
<1>1. PICK Good : Good = {s \in SUBSET D : Sums(f)[s] <= Sums(g)[s]}
  OBVIOUS
<1>2. {} \in Good
  BY <1>1, SumStep
<1>3. ASSUME NEW s \in SUBSET D, s # {}, Rest(s) \in Good PROVE s \in Good
  <2>1. /\ Pick(s) \in D /\ Rest(s) \in SUBSET D
        /\ Sums(f)[s] = f[Pick(s)] + Sums(f)[Rest(s)]
        /\ Sums(g)[s] = g[Pick(s)] + Sums(g)[Rest(s)]
    BY <1>3, SumStep
  <2>2. Sums(f)[Rest(s)] \in Int /\ Sums(g)[Rest(s)] \in Int
    BY <2>1, SumIsInt
  <2>3. Sums(f)[Rest(s)] <= Sums(g)[Rest(s)] /\ f[Pick(s)] <= g[Pick(s)]
    BY <1>1, <1>3, <2>1
  <2>4. f[Pick(s)] \in Int /\ g[Pick(s)] \in Int
    BY <2>1
  <2>5. Sums(f)[s] <= Sums(g)[s]
    BY <2>1, <2>2, <2>3, <2>4
  <2> QED BY <1>1, <2>5
<1>4. SUBSET D \subseteq Good
  BY <1>2, <1>3, BySize
<1>5. D \in SUBSET D /\ SumFunction(f) = Sums(f)[D] /\ SumFunction(g) = Sums(g)[D]
  BY SumIsDefined
<1> QED BY <1>1, <1>4, <1>5

\* The sum of the differences is the difference of the sums.
LEMMA SumDifference ==
    ASSUME NEW D, IsFiniteSet(D), NEW f \in [D -> Int], NEW g \in [D -> Int],
           NEW h \in [D -> Int], \A x \in D : h[x] = g[x] - f[x]
    PROVE  SumFunction(h) = SumFunction(g) - SumFunction(f)
<1>1. PICK Good : Good = {s \in SUBSET D : Sums(h)[s] = Sums(g)[s] - Sums(f)[s]}
  OBVIOUS
<1>2. {} \in Good
  BY <1>1, SumStep
<1>3. ASSUME NEW s \in SUBSET D, s # {}, Rest(s) \in Good PROVE s \in Good
  <2>1. PICK x, r : x = Pick(s) /\ r = Rest(s)
    OBVIOUS
  <2>2. /\ x \in D /\ r \in SUBSET D
        /\ Sums(f)[s] = f[x] + Sums(f)[r]
        /\ Sums(g)[s] = g[x] + Sums(g)[r]
        /\ Sums(h)[s] = h[x] + Sums(h)[r]
    BY <1>3, <2>1, SumStep
  <2>3. Sums(f)[r] \in Int /\ Sums(g)[r] \in Int /\ Sums(h)[r] \in Int
    BY <2>2, SumIsInt
  <2>4. Sums(h)[r] = Sums(g)[r] - Sums(f)[r]
    BY <1>1, <1>3, <2>1
  <2>5. f[x] \in Int /\ g[x] \in Int /\ h[x] = g[x] - f[x]
    BY <2>2
  <2>6. Sums(h)[s] = Sums(g)[s] - Sums(f)[s]
    BY <2>2, <2>3, <2>4, <2>5
  <2> QED BY <1>1, <2>6
<1>4. SUBSET D \subseteq Good
  BY <1>2, <1>3, BySize
<1>5. /\ D \in SUBSET D /\ SumFunction(f) = Sums(f)[D] /\ SumFunction(g) = Sums(g)[D]
      /\ SumFunction(h) = Sums(h)[D]
  BY SumIsDefined
<1> QED BY <1>1, <1>4, <1>5

\* What is zero but at one place adds up to what is there.
LEMMA SumOfOne ==
    ASSUME NEW D, IsFiniteSet(D), NEW f \in [D -> Int], NEW x \in D,
           \A y \in D : y # x => f[y] = 0
    PROVE  SumFunction(f) = f[x]
<1>1. PICK Good : Good = {s \in SUBSET D : Sums(f)[s] = IF x \in s THEN f[x] ELSE 0}
  OBVIOUS
<1>2. {} \in Good
  BY <1>1, SumStep
<1>3. ASSUME NEW s \in SUBSET D, s # {}, Rest(s) \in Good PROVE s \in Good
  <2>1. PICK y, r : y = Pick(s) /\ r = Rest(s)
    OBVIOUS
  <2>2. y \in s /\ y \in D /\ r \in SUBSET D /\ r = s \ {y} /\ Sums(f)[s] = f[y] + Sums(f)[r]
    BY <1>3, <2>1, SumStep DEF Rest
  <2>3. Sums(f)[r] = IF x \in r THEN f[x] ELSE 0
    BY <1>1, <1>3, <2>1
  <2>4. Sums(f)[s] = IF x \in s THEN f[x] ELSE 0
    BY <2>2, <2>3
  <2> QED BY <1>1, <2>4
<1>4. SUBSET D \subseteq Good
  BY <1>2, <1>3, BySize
<1>5. D \in SUBSET D /\ SumFunction(f) = Sums(f)[D]
  BY SumIsDefined
<1> QED BY <1>1, <1>4, <1>5

\* Nothing adds up to nothing.
LEMMA SumOfNone ==
    ASSUME NEW D, IsFiniteSet(D), NEW f \in [D -> Int], \A x \in D : f[x] = 0
    PROVE  SumFunction(f) = 0
<1>1. \A x \in D : f[x] = f[x] - f[x]
  OBVIOUS
<1>2. SumFunction(f) = SumFunction(f) - SumFunction(f)
  BY <1>1, SumDifference
<1> QED BY <1>2, SumIsInt

\* A sum changes by what changes at one place.
LEMMA SumChanges ==
    ASSUME NEW D, IsFiniteSet(D), NEW f \in [D -> Int], NEW g \in [D -> Int], NEW x \in D,
           \A y \in D : y # x => g[y] = f[y]
    PROVE  SumFunction(g) = SumFunction(f) + (g[x] - f[x])
<1>1. PICK h : h = [y \in D |-> g[y] - f[y]]
  OBVIOUS
<1>2. h \in [D -> Int] /\ (\A y \in D : h[y] = g[y] - f[y]) /\ \A y \in D : y # x => h[y] = 0
  BY <1>1
<1>3. SumFunction(h) = SumFunction(g) - SumFunction(f)
  BY <1>2, SumDifference
<1>4. SumFunction(h) = h[x]
  BY <1>2, SumOfOne
<1> QED BY <1>2, <1>3, <1>4, SumIsInt

\* What is taken from the rows is taken from the sum.
LEMMA SumLess ==
    ASSUME NEW D, IsFiniteSet(D), NEW f \in [D -> Int], NEW less \in [D -> Int], NEW g,
           g = [x \in D |-> f[x] - less[x]]
    PROVE  SumFunction(g) = SumFunction(f) - SumFunction(less)
<1>1. g \in [D -> Int] /\ \A x \in D : less[x] = f[x] - g[x]
  OBVIOUS
<1>2. SumFunction(less) = SumFunction(f) - SumFunction(g)
  BY <1>1, SumDifference
<1> QED BY <1>1, <1>2, SumIsInt

\* Of amounts that are not negative none is larger than the sum.
LEMMA SumOfAmounts ==
    ASSUME NEW D, IsFiniteSet(D), NEW f \in [D -> Nat]
    PROVE  SumFunction(f) \in Nat /\ \A x \in D : f[x] <= SumFunction(f)
<1>1. PICK none : none = [x \in D |-> 0]
  OBVIOUS
<1>2. none \in [D -> Int] /\ f \in [D -> Int] /\ \A x \in D : none[x] <= f[x]
  BY <1>1
<1>3. SumFunction(none) = 0
  BY <1>1, <1>2, SumOfNone
<1>4. SumFunction(f) \in Int /\ SumFunction(f) >= 0
  BY <1>2, <1>3, SumOrder, SumIsInt
<1>5. ASSUME NEW x \in D PROVE f[x] <= SumFunction(f)
  <2>1. PICK only : only = [y \in D |-> IF y = x THEN f[x] ELSE 0]
    OBVIOUS
  <2>2. only \in [D -> Int] /\ only[x] = f[x] /\ \A y \in D : only[y] <= f[y]
    BY <2>1
  <2>3. SumFunction(only) = f[x]
    BY <2>1, <2>2, SumOfOne
  <2> QED BY <1>2, <2>2, <2>3, SumOrder
<1> QED BY <1>4, <1>5
=============================================================================
