---------------------------- MODULE SumTheorems ----------------------------
(***************************************************************************)
(* Sums over finite sets, as the models write them: SumFunctionOnSet of    *)
(* the community modules.                                                  *)
(***************************************************************************)
EXTENDS Functions, FiniteSetTheorems, TLAPS

\* Induction over the subsets of a finite set.
LEMMA SubsetInduction ==
  ASSUME NEW S, IsFiniteSet(S), NEW Good,
         {} \in Good,
         \A T \in SUBSET S, x \in S : x \notin T /\ T \in Good => T \cup {x} \in Good
  PROVE  SUBSET S \subseteq Good
<1> DEFINE Bad == (SUBSET S) \ Good
           R == StrictSubsetOrdering(S)
<1> SUFFICES ASSUME Bad # {} PROVE FALSE
  OBVIOUS
<1>1. IsWellFoundedOn(R, SUBSET S)
  BY FS_StrictSubsetOrderingWellFounded, FS_FiniteSubsetsOfFinite
<1>2. PICK T \in Bad : \A U \in Bad : <<U, T>> \notin R
  <2> HIDE DEF R
  <2> QED  BY <1>1, WFMin
<1>3. PICK x \in T : TRUE
  OBVIOUS
<1>4. <<T \ {x}, T>> \in R
  BY DEF StrictSubsetOrdering
<1>5. T \ {x} \in Good
  BY <1>2, <1>4
<1> QED  BY <1>5

-----------------------------------------------------------------------------
(***************************************************************************)
(* The recursion of MapThenFoldSet has a solution over the subsets of a    *)
(* finite set.                                                             *)
(***************************************************************************)
Chosen(s) == CHOOSE x \in s : TRUE

Sums(f, S, g) ==
  g = [s \in SUBSET S |-> IF s = {} THEN 0 ELSE f[Chosen(s)] + g[s \ {Chosen(s)}]]

Iter(f, S) == CHOOSE g : Sums(f, S, g)

LEMMA SumIsIter ==
  ASSUME NEW f, NEW S
  PROVE  SumFunctionOnSet(f, S) = Iter(f, S)[S]
BY Zenon DEF SumFunctionOnSet, FoldFunctionOnSet, MapThenFoldSet, Iter, Sums, Chosen

\* The recursion holds for the subsets with at most n elements.
SumsTo(f, S, g, n) ==
  \A s \in SUBSET S : Cardinality(s) <= n =>
    g[s] = IF s = {} THEN 0 ELSE f[Chosen(s)] + g[s \ {Chosen(s)}]

LEMMA NatSetInduction ==
  ASSUME NEW Good, 0 \in Good, \A n \in Nat : n \in Good => n + 1 \in Good
  PROVE  Nat \subseteq Good
<1> DEFINE Bad == Nat \ Good
           R == OpToRel(<, Nat)
<1> SUFFICES ASSUME Bad # {} PROVE FALSE
  OBVIOUS
<1>1. PICK n \in Bad : \A m \in Bad : <<m, n>> \notin R
  <2>1. IsWellFoundedOn(R, Nat)
    BY NatLessThanWellFounded
  <2> HIDE DEF R
  <2> QED  BY <2>1, WFMin
<1>2. n # 0 /\ n - 1 \in Nat
  OBVIOUS
<1>3. <<n - 1, n>> \in R
  BY <1>2 DEF OpToRel
<1> HIDE DEF R
<1> QED  BY <1>1, <1>2, <1>3

LEMMA SumsExist ==
  ASSUME NEW f, NEW S, IsFiniteSet(S)
  PROVE  \E g : Sums(f, S, g)
<1> DEFINE Step(g, s) == IF s = {} THEN 0 ELSE f[Chosen(s)] + g[s \ {Chosen(s)}]
           Good == {n \in Nat : \E g : SumsTo(f, S, g, n)}
<1>1. \A s \in SUBSET S : IsFiniteSet(s) /\ Cardinality(s) \in Nat
  BY FS_Subset, FS_CardinalityType
<1>2. \A s \in SUBSET S : s # {} => Chosen(s) \in s
  BY DEF Chosen
<1>3. 0 \in Good
  <2>1. SumsTo(f, S, [s \in SUBSET S |-> 0], 0)
    BY <1>1, FS_EmptySet DEF SumsTo
  <2> QED  BY <2>1
<1>4. ASSUME NEW n \in Nat, n \in Good PROVE n + 1 \in Good
  <2>1. PICK g : SumsTo(f, S, g, n)
    BY <1>4
  <2> DEFINE h == [s \in SUBSET S |-> IF Cardinality(s) <= n THEN g[s] ELSE Step(g, s)]
  <2>2. ASSUME NEW s \in SUBSET S, Cardinality(s) <= n + 1 PROVE h[s] = Step(h, s)
    <3>1. CASE s = {}
      BY <3>1, <2>1, <1>1 DEF SumsTo
    <3>2. CASE s # {}
      <4>1. /\ s \ {Chosen(s)} \in SUBSET S
            /\ Cardinality(s \ {Chosen(s)}) = Cardinality(s) - 1
        BY <1>1, <1>2, <3>2, FS_RemoveElement
      <4>2. h[s \ {Chosen(s)}] = g[s \ {Chosen(s)}]
        BY <4>1, <1>1, <2>2
      <4>3. h[s] = Step(g, s)
        BY <2>1, <3>2 DEF SumsTo
      <4> QED  BY <4>2, <4>3, <3>2
    <3> QED  BY <3>1, <3>2
  <2>3. SumsTo(f, S, h, n + 1)
    BY <2>2 DEF SumsTo
  <2> QED  BY <2>3
<1>5. Cardinality(S) \in Good
  BY <1>1, <1>3, <1>4, NatSetInduction
<1>6. PICK g : SumsTo(f, S, g, Cardinality(S))
  BY <1>5
<1> DEFINE h == [s \in SUBSET S |-> g[s]]
<1>7. h = [s \in SUBSET S |-> Step(h, s)]
  <2>1. ASSUME NEW s \in SUBSET S PROVE h[s] = Step(h, s)
    <3>1. Cardinality(s) <= Cardinality(S)
      BY FS_Subset
    <3>2. s # {} => s \ {Chosen(s)} \in SUBSET S
      OBVIOUS
    <3> QED  BY <3>1, <3>2, <1>6 DEF SumsTo
  <2> QED  BY <2>1
<1> QED  BY <1>7 DEF Sums

\* The sum over a set is that without one of its elements and its value there.
LEMMA IterUnfolds ==
  ASSUME NEW f, NEW S, IsFiniteSet(S), NEW s \in SUBSET S
  PROVE  Iter(f, S)[s] = IF s = {} THEN 0
                         ELSE f[Chosen(s)] + Iter(f, S)[s \ {Chosen(s)}]
<1>1. Sums(f, S, Iter(f, S))
  BY SumsExist DEF Iter
<1> HIDE DEF Iter
<1> QED  BY <1>1 DEF Sums

\* One element less.
LEMMA ChosenRemoved ==
  ASSUME NEW s, IsFiniteSet(s), NEW n \in Nat, Cardinality(s) = n + 1
  PROVE  s # {} /\ Chosen(s) \in s /\ Cardinality(s \ {Chosen(s)}) = n
<1>1. s # {}
  BY FS_EmptySet
<1>2. Chosen(s) \in s
  BY <1>1 DEF Chosen
<1>3. Cardinality(s \ {Chosen(s)}) = Cardinality(s) - 1
  BY <1>2, FS_RemoveElement
<1> QED  BY <1>1, <1>2, <1>3

\* It does not depend on the set the recursion is over.
LEMMA IterIsLocal ==
  ASSUME NEW f, NEW S, IsFiniteSet(S), NEW T \in SUBSET S
  PROVE  Iter(f, S)[T] = Iter(f, T)[T]
<1> DEFINE Good == {n \in Nat : \A s \in SUBSET T :
                      Cardinality(s) = n => Iter(f, S)[s] = Iter(f, T)[s]}
<1>1. IsFiniteSet(T) /\ SUBSET T \subseteq SUBSET S
  BY FS_Subset
<1>2. \A s \in SUBSET T : IsFiniteSet(s) /\ Cardinality(s) \in Nat
  BY <1>1, FS_Subset, FS_CardinalityType
<1>3. 0 \in Good
  <2>1. \A s \in SUBSET T : Cardinality(s) = 0 => s = {}
    BY <1>2, FS_EmptySet
  <2>2. Iter(f, S)[{}] = 0 /\ Iter(f, T)[{}] = 0
    BY <1>1, IterUnfolds
  <2> QED  BY <2>1, <2>2
<1>4. ASSUME NEW n \in Nat, n \in Good PROVE n + 1 \in Good
  <2>1. ASSUME NEW s \in SUBSET T, Cardinality(s) = n + 1
        PROVE  Iter(f, S)[s] = Iter(f, T)[s]
    <3>1. s # {} /\ Cardinality(s \ {Chosen(s)}) = n
      BY <1>2, <2>1, ChosenRemoved
    <3>2. Iter(f, S)[s \ {Chosen(s)}] = Iter(f, T)[s \ {Chosen(s)}]
      BY <1>4, <3>1
    <3> QED  BY <1>1, <3>1, <3>2, IterUnfolds
  <2> QED  BY <2>1
<1>5. Cardinality(T) \in Good
  BY <1>2, <1>3, <1>4, NatSetInduction
<1> QED  BY <1>5

LEMMA SumUnfolds ==
  ASSUME NEW f, NEW S, IsFiniteSet(S)
  PROVE  SumFunctionOnSet(f, S) =
           IF S = {} THEN 0
           ELSE f[Chosen(S)] + SumFunctionOnSet(f, S \ {Chosen(S)})
<1>1. Iter(f, S)[S] = IF S = {} THEN 0
                      ELSE f[Chosen(S)] + Iter(f, S)[S \ {Chosen(S)}]
  BY IterUnfolds
<1>2. Iter(f, S)[S \ {Chosen(S)}] = Iter(f, S \ {Chosen(S)})[S \ {Chosen(S)}]
  BY IterIsLocal
<1> QED  BY <1>1, <1>2, SumIsIter

-----------------------------------------------------------------------------
LEMMA SumEmpty ==
  ASSUME NEW f
  PROVE  SumFunctionOnSet(f, {}) = 0
BY SumUnfolds, FS_EmptySet

\* Sums of integers are integers.
LEMMA SumInt ==
  ASSUME NEW f, NEW S, IsFiniteSet(S), \A x \in S : f[x] \in Int
  PROVE  SumFunctionOnSet(f, S) \in Int
<1> DEFINE Good == {n \in Nat : \A s \in SUBSET S :
                      Cardinality(s) = n => SumFunctionOnSet(f, s) \in Int}
<1>1. \A s \in SUBSET S : IsFiniteSet(s) /\ Cardinality(s) \in Nat
  BY FS_Subset, FS_CardinalityType
<1>2. 0 \in Good
  BY <1>1, FS_EmptySet, SumEmpty
<1>3. ASSUME NEW n \in Nat, n \in Good PROVE n + 1 \in Good
  <2>1. ASSUME NEW s \in SUBSET S, Cardinality(s) = n + 1
        PROVE  SumFunctionOnSet(f, s) \in Int
    <3>1. s # {} /\ Chosen(s) \in s /\ Cardinality(s \ {Chosen(s)}) = n
      BY <1>1, <2>1, ChosenRemoved
    <3>2. SumFunctionOnSet(f, s \ {Chosen(s)}) \in Int
      BY <1>3, <3>1
    <3>3. SumFunctionOnSet(f, s) = f[Chosen(s)] + SumFunctionOnSet(f, s \ {Chosen(s)})
      BY <1>1, <3>1, SumUnfolds
    <3> QED  BY <3>1, <3>2, <3>3
  <2> QED  BY <2>1
<1>4. Cardinality(S) \in Good
  BY <1>1, <1>2, <1>3, NatSetInduction
<1> QED  BY <1>4

\* The elements may be added in any order.
LEMMA SumAdd ==
  ASSUME NEW f, NEW S, IsFiniteSet(S), NEW x, x \notin S,
         \A y \in S \cup {x} : f[y] \in Int
  PROVE  SumFunctionOnSet(f, S \cup {x}) = f[x] + SumFunctionOnSet(f, S)
<1> DEFINE All == S \cup {x}
           Add(s, y) == SumFunctionOnSet(f, s \cup {y}) = f[y] + SumFunctionOnSet(f, s)
           Good == {n \in Nat : \A s \in SUBSET All : \A y \in All \ s :
                      Cardinality(s) = n => Add(s, y)}
<1>1. \A s \in SUBSET All : IsFiniteSet(s) /\ Cardinality(s) \in Nat
  BY FS_AddElement, FS_Subset, FS_CardinalityType
<1>2. \A s \in SUBSET All : SumFunctionOnSet(f, s) \in Int
  BY <1>1, SumInt
<1>3. 0 \in Good
  <2>1. ASSUME NEW y \in All PROVE Add({}, y)
    <3>1. Chosen({y}) = y
      BY DEF Chosen
    <3>2. SumFunctionOnSet(f, {y}) = f[y] + SumFunctionOnSet(f, {y} \ {y})
      BY <1>1, <3>1, SumUnfolds
    <3> QED  BY <3>2
  <2>2. \A s \in SUBSET All : Cardinality(s) = 0 => s = {}
    BY <1>1, FS_EmptySet
  <2> QED  BY <2>1, <2>2
<1>4. ASSUME NEW n \in Nat, n \in Good PROVE n + 1 \in Good
  <2>1. ASSUME NEW s \in SUBSET All, NEW y \in All \ s, Cardinality(s) = n + 1
        PROVE  Add(s, y)
    <3> DEFINE z == Chosen(s \cup {y})
    <3>1. z \in s \cup {y}
      BY DEF Chosen
    <3>2. SumFunctionOnSet(f, s \cup {y}) = f[z] + SumFunctionOnSet(f, (s \cup {y}) \ {z})
      BY <1>1, SumUnfolds
    <3> HIDE DEF z
    <3>3. CASE z = y
      <4>1. (s \cup {y}) \ {z} = s
        BY <3>3
      <4> QED  BY <3>2, <3>3, <4>1
    <3>4. CASE z # y
      <4> DEFINE r == s \ {z}
      <4>1. z \in s /\ (s \cup {y}) \ {z} = r \cup {y} /\ r \cup {z} = s
        BY <3>1, <3>4
      <4>2. Cardinality(r) = n /\ r \in SUBSET All
        BY <1>1, <2>1, <4>1, FS_RemoveElement
      <4>3. Add(r, y) /\ Add(r, z)
        BY <1>4, <4>1, <4>2
      <4>4. SumFunctionOnSet(f, r) \in Int /\ f[z] \in Int /\ f[y] \in Int
        BY <1>2, <4>1, <4>2
      <4>5. SumFunctionOnSet(f, s \cup {y}) = f[z] + SumFunctionOnSet(f, r \cup {y})
        BY <3>2, <4>1
      <4>6. SumFunctionOnSet(f, s) = f[z] + SumFunctionOnSet(f, r)
        BY <4>1, <4>3
      <4> HIDE DEF r
      <4> QED  BY <4>3, <4>4, <4>5, <4>6
    <3> QED  BY <3>3, <3>4
  <2> QED  BY <2>1
<1>5. Cardinality(S) \in Good
  BY <1>1, <1>3, <1>4, NatSetInduction
<1> QED  BY <1>5

LEMMA SumRemove ==
  ASSUME NEW f, NEW S, IsFiniteSet(S), NEW x \in S, \A y \in S : f[y] \in Int
  PROVE  /\ SumFunctionOnSet(f, S) = f[x] + SumFunctionOnSet(f, S \ {x})
         /\ SumFunctionOnSet(f, S \ {x}) \in Int
<1>1. IsFiniteSet(S \ {x}) /\ (S \ {x}) \cup {x} = S
  BY FS_RemoveElement
<1>2. SumFunctionOnSet(f, (S \ {x}) \cup {x}) = f[x] + SumFunctionOnSet(f, S \ {x})
  BY <1>1, SumAdd
<1> QED  BY <1>1, <1>2, SumInt

\* A sum depends on the values that are added only.
LEMMA SumSame ==
  ASSUME NEW f, NEW g, NEW S, IsFiniteSet(S), \A x \in S : f[x] \in Int /\ g[x] = f[x]
  PROVE  SumFunctionOnSet(g, S) = SumFunctionOnSet(f, S)
<1> DEFINE Good == {s \in SUBSET S : SumFunctionOnSet(g, s) = SumFunctionOnSet(f, s)}
<1>1. {} \in Good
  BY SumEmpty
<1>2. ASSUME NEW T \in SUBSET S, NEW x \in S, x \notin T, T \in Good
      PROVE  T \cup {x} \in Good
  <2>1. IsFiniteSet(T)
    BY FS_Subset
  <2>2. SumFunctionOnSet(f, T \cup {x}) = f[x] + SumFunctionOnSet(f, T)
    BY <1>2, <2>1, SumAdd
  <2>3. SumFunctionOnSet(g, T \cup {x}) = g[x] + SumFunctionOnSet(g, T)
    BY <1>2, <2>1, SumAdd
  <2> QED  BY <1>2, <2>2, <2>3
<1>3. SUBSET S \subseteq Good
  <2> HIDE DEF Good
  <2> QED  BY <1>1, <1>2, SubsetInduction
<1> QED  BY <1>3

\* Changing one value changes the sum by as much.
LEMMA SumChange ==
  ASSUME NEW f, NEW g, NEW S, IsFiniteSet(S), NEW x \in S,
         \A y \in S : f[y] \in Int /\ g[y] \in Int,
         \A y \in S : y # x => g[y] = f[y]
  PROVE  SumFunctionOnSet(g, S) = SumFunctionOnSet(f, S) + g[x] - f[x]
<1>1. SumFunctionOnSet(f, S) = f[x] + SumFunctionOnSet(f, S \ {x})
  BY SumRemove
<1>2. SumFunctionOnSet(g, S) = g[x] + SumFunctionOnSet(g, S \ {x})
  BY SumRemove
<1>3. IsFiniteSet(S \ {x})
  BY FS_RemoveElement
<1>4. SumFunctionOnSet(g, S \ {x}) = SumFunctionOnSet(f, S \ {x})
  BY <1>3, SumSame
<1>5. SumFunctionOnSet(f, S \ {x}) \in Int
  BY <1>3, SumInt
<1> QED  BY <1>1, <1>2, <1>4, <1>5

\* A sum of numbers that are not negative is at least each of them.
LEMMA SumNat ==
  ASSUME NEW f, NEW S, IsFiniteSet(S), \A x \in S : f[x] \in Nat
  PROVE  /\ SumFunctionOnSet(f, S) \in Nat
         /\ \A x \in S : f[x] <= SumFunctionOnSet(f, S)
<1> DEFINE Good == {s \in SUBSET S : SumFunctionOnSet(f, s) \in Nat}
<1>1. {} \in Good
  BY SumEmpty
<1>2. ASSUME NEW T \in SUBSET S, NEW x \in S, x \notin T, T \in Good
      PROVE  T \cup {x} \in Good
  <2>1. IsFiniteSet(T)
    BY FS_Subset
  <2>2. SumFunctionOnSet(f, T \cup {x}) = f[x] + SumFunctionOnSet(f, T)
    BY <1>2, <2>1, SumAdd
  <2> QED  BY <1>2, <2>2
<1>3. SUBSET S \subseteq Good
  <2> HIDE DEF Good
  <2> QED  BY <1>1, <1>2, SubsetInduction
<1>4. ASSUME NEW x \in S PROVE f[x] <= SumFunctionOnSet(f, S)
  <2>1. SumFunctionOnSet(f, S) = f[x] + SumFunctionOnSet(f, S \ {x})
    BY SumRemove
  <2>2. SumFunctionOnSet(f, S \ {x}) \in Nat
    BY <1>3
  <2> QED  BY <2>1, <2>2
<1> QED  BY <1>3, <1>4

LEMMA SumZero ==
  ASSUME NEW f, NEW S, IsFiniteSet(S), \A x \in S : f[x] = 0
  PROVE  SumFunctionOnSet(f, S) = 0
<1> DEFINE Good == {s \in SUBSET S : SumFunctionOnSet(f, s) = 0}
<1>1. {} \in Good
  BY SumEmpty
<1>2. ASSUME NEW T \in SUBSET S, NEW x \in S, x \notin T, T \in Good
      PROVE  T \cup {x} \in Good
  <2>1. IsFiniteSet(T)
    BY FS_Subset
  <2>2. SumFunctionOnSet(f, T \cup {x}) = f[x] + SumFunctionOnSet(f, T)
    BY <1>2, <2>1, SumAdd
  <2> QED  BY <1>2, <2>2
<1>3. SUBSET S \subseteq Good
  <2> HIDE DEF Good
  <2> QED  BY <1>1, <1>2, SubsetInduction
<1> QED  BY <1>3

-----------------------------------------------------------------------------
(***************************************************************************)
(* The same for the sum of all values of a function.                       *)
(***************************************************************************)
LEMMA TotalInt ==
  ASSUME NEW S, IsFiniteSet(S), NEW f \in [S -> Int]
  PROVE  SumFunction(f) \in Int
BY SumInt DEF SumFunction

LEMMA TotalChange ==
  ASSUME NEW S, IsFiniteSet(S), NEW f \in [S -> Int], NEW g \in [S -> Int], NEW x \in S,
         \A y \in S : y # x => g[y] = f[y]
  PROVE  SumFunction(g) = SumFunction(f) + g[x] - f[x]
<1>1. DOMAIN f = S /\ DOMAIN g = S
  OBVIOUS
<1> QED  BY <1>1, SumChange DEF SumFunction

LEMMA TotalNat ==
  ASSUME NEW S, IsFiniteSet(S), NEW f \in [S -> Nat]
  PROVE  SumFunction(f) \in Nat /\ \A x \in S : f[x] <= SumFunction(f)
<1>1. DOMAIN f = S
  OBVIOUS
<1> QED  BY <1>1, SumNat DEF SumFunction

LEMMA TotalZero ==
  ASSUME NEW S, IsFiniteSet(S), NEW f, DOMAIN f = S, \A x \in S : f[x] = 0
  PROVE  SumFunction(f) = 0
BY SumZero DEF SumFunction
=============================================================================
