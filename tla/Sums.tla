-------------------------------- MODULE Sums --------------------------------
(***************************************************************************)
(* What the sum of the library (SumFunction) is: over nothing, over one    *)
(* element more or less, over parts, groups and images of a set, and over  *)
(* the rows and the columns of a table.                                    *)
(*                                                                         *)
(* The library defines it by recursion over sets.  The induction theorems  *)
(* take the formula that is proved as an operator; here it is instead the  *)
(* membership in a set: of the subsets for which it holds.                 *)
(***************************************************************************)
EXTENDS Integers, FiniteSets, FiniteSetsExt, FiniteSetTheorems, NaturalsInduction,
        WellFoundedInduction, TLAPS

\* A set of numbers has a least one.
LEMMA LeastNatural ==
    ASSUME NEW T \in SUBSET Nat, T # {}
    PROVE  \E n \in T : \A m \in T : n <= m
<1> DEFINE R == {ss \in Nat \X Nat : ss[1] < ss[2]}
<1>1. OpToRel(<, Nat) = R
  BY DEF OpToRel
<1>2. IsWellFoundedOn(OpToRel(<, Nat), Nat)
  BY NatLessThanWellFounded
<1>3. IsWellFoundedOn(R, Nat)
  BY <1>1, <1>2
<1> HIDE DEF R
<1>4. PICK x \in T : \A y \in T : ~ (<<y, x>> \in R)
  BY <1>3, WFMin
<1>5. \A y \in T : ~ (y < x)
  BY <1>4 DEF R
<1> QED
  BY <1>5

\* Induction over a finite set: what holds of the empty set and of whatever it holds of
\* without one of its elements.
LEMMA SetInduction ==
    ASSUME NEW S, IsFiniteSet(S), NEW G,
           {} \in G,
           \A T \in SUBSET S : T # {} /\ (\A x \in T : T \ {x} \in G) => T \in G
    PROVE  S \in G
<1> SUFFICES ASSUME S \notin G PROVE FALSE
  OBVIOUS
<1> DEFINE bad == {T \in SUBSET S : T \notin G}
           sizes == {Cardinality(T) : T \in bad}
<1>1. \A T \in SUBSET S : IsFiniteSet(T) /\ Cardinality(T) \in Nat
  BY FS_Subset, FS_CardinalityType
<1>2. sizes \in SUBSET Nat /\ sizes # {}
  BY <1>1
<1>3. PICK n \in sizes : \A m \in sizes : n <= m
  BY <1>2, LeastNatural
<1>4. PICK T \in bad : Cardinality(T) = n
  BY <1>3
<1>5. ASSUME NEW x \in T
      PROVE  T \ {x} \in G
  <2>1. Cardinality(T \ {x}) = Cardinality(T) - 1
    BY <1>1, <1>4, FS_RemoveElement
  <2>2. Cardinality(T) \in Nat /\ ~(Cardinality(T) <= Cardinality(T) - 1)
    BY <1>1, <1>4
  <2>3. T \ {x} \notin bad
    BY <1>3, <1>4, <2>1, <2>2
  <2> QED
    BY <1>4, <2>3
<1> QED
  BY <1>4, <1>5

\* What is made of the elements of a finite set is finite.
LEMMA ImageIsFinite ==
    ASSUME NEW S, IsFiniteSet(S), NEW g
    PROVE  IsFiniteSet({g[x] : x \in S})
<1> DEFINE f == [x \in S |-> g[x]]
           T == {g[x] : x \in S}
<1>1. f \in Surjection(S, T)
  BY DEF Surjection
<1> HIDE DEF f, T
<1>2. IsFiniteSet(T)
  BY <1>1, FS_Surjection
<1> QED
  BY <1>2 DEF T

-----------------------------------------------------------------------------
One(s) == CHOOSE x \in s : TRUE

\* sum adds up the weights of the elements of each set in Sets.
Adds(sum, w, Sets) ==
    sum = [s \in Sets |-> IF s = {} THEN 0 ELSE w[One(s)] + sum[s \ {One(s)}]]

AddsUp(sum, w, S) == Adds(sum, w, SUBSET S)

SumOver(w, S) == CHOOSE sum : AddsUp(sum, w, S)

\* The sum of the weights w of the elements of S.
Sum(w, S) == SumFunctionOnSet(w, S)

\* The sum of a function is that of the weights of its domain.
LEMMA SumOfFunction == ASSUME NEW f PROVE SumFunction(f) = Sum(f, DOMAIN f)
  BY DEF SumFunction, Sum

LEMMA SumIs ==
    ASSUME NEW w, NEW S
    PROVE  Sum(w, S) = SumOver(w, S)[S]
  BY DEF Sum, SumFunctionOnSet, FoldFunctionOnSet, MapThenFoldSet, SumOver, AddsUp, Adds, One

LEMMA OneIs == \A s : s # {} => One(s) \in s
  BY DEF One

LEMMA SumExists ==
    ASSUME NEW S, IsFiniteSet(S), NEW w
    PROVE  AddsUp(SumOver(w, S), w, S)
<1> DEFINE Upto(n) == {s \in SUBSET S : Cardinality(s) <= n}
           Bad == {n \in Nat : ~\E sum : Adds(sum, w, Upto(n))}
<1>1. \A s \in SUBSET S : IsFiniteSet(s) /\ Cardinality(s) \in Nat /\ Cardinality(s) <= Cardinality(S)
  BY FS_Subset, FS_CardinalityType
<1>2. Cardinality(S) \in Nat
  BY FS_CardinalityType
<1>3. Bad = {}
  <2> SUFFICES ASSUME Bad # {} PROVE FALSE
    OBVIOUS
  <2>1. PICK n \in Bad : \A m \in Bad : n <= m
    BY LeastNatural
  <2>2. CASE n = 0
    <3> DEFINE sum == [s \in Upto(0) |-> 0]
    <3>1. \A s \in Upto(0) : s = {}
      BY <1>1, FS_EmptySet
    <3>2. Adds(sum, w, Upto(0))
      BY <3>1 DEF Adds
    <3> QED
      BY <2>1, <2>2, <3>2
  <2>3. CASE n > 0
    <3>1. n - 1 \in Nat /\ ~(n <= n - 1)
      BY <2>1, <2>3
    <3>a. n - 1 \notin Bad
      BY <2>1, <3>1
    <3>2. PICK part : Adds(part, w, Upto(n - 1))
      BY <3>1, <3>a
    <3> DEFINE sum == [s \in Upto(n) |-> IF s = {} THEN 0
                                         ELSE w[One(s)] + part[s \ {One(s)}]]
    <3>3. ASSUME NEW s \in Upto(n), s # {}
          PROVE  s \ {One(s)} \in Upto(n - 1)
      <4>1. One(s) \in s
        BY <3>3, OneIs
      <4>2. Cardinality(s \ {One(s)}) = Cardinality(s) - 1
        BY <1>1, <4>1, FS_RemoveElement
      <4> QED
        BY <1>1, <2>1, <4>2
    <3>4. Upto(n - 1) \subseteq Upto(n)
      BY <1>1, <2>1
    <3>5. ASSUME NEW s \in Upto(n - 1)
          PROVE  sum[s] = part[s]
      BY <3>2, <3>4, <3>5 DEF Adds
    <3>6. \A s \in Upto(n) : s # {} => sum[s \ {One(s)}] = part[s \ {One(s)}]
      BY <3>3, <3>5
    <3> HIDE DEF Upto
    <3>7. Adds(sum, w, Upto(n))
      BY <3>6 DEF Adds
    <3> QED
      BY <2>1, <3>7
  <2> QED
    BY <2>1, <2>2, <2>3
<1>4. PICK sum : Adds(sum, w, Upto(Cardinality(S)))
  BY <1>2, <1>3
<1>5. Upto(Cardinality(S)) = SUBSET S
  BY <1>1
<1>6. AddsUp(sum, w, S)
  BY <1>4, <1>5 DEF AddsUp
<1> QED
  BY <1>6 DEF SumOver

Agree(v, w, S) == \A x \in S : v[x] = w[x]

\* Two of them agree where the weights agree.
LEMMA SumsAgree ==
    ASSUME NEW S, NEW T, NEW f, NEW g, NEW v, NEW w, NEW R, IsFiniteSet(R),
           AddsUp(f, v, S), AddsUp(g, w, T), R \subseteq S, R \subseteq T, Agree(v, w, R)
    PROVE  f[R] = g[R]
<1> DEFINE G == {P \in SUBSET R : f[P] = g[P]}
<1>1. {} \in G
  BY DEF AddsUp, Adds
<1>2. ASSUME NEW P \in SUBSET R, \A x \in P : P \ {x} \in G, P # {}
      PROVE  P \in G
  <2>1. One(P) \in P
    BY <1>2, OneIs
  <2>2. f[P \ {One(P)}] = g[P \ {One(P)}] /\ v[One(P)] = w[One(P)]
    BY <1>2, <2>1 DEF Agree
  <2>3. f[P] = v[One(P)] + f[P \ {One(P)}]
    BY <1>2 DEF AddsUp, Adds
  <2>4. g[P] = w[One(P)] + g[P \ {One(P)}]
    BY <1>2 DEF AddsUp, Adds
  <2> QED
    BY <2>2, <2>3, <2>4
<1> HIDE DEF G
<1>3. R \in G
  BY <1>1, <1>2, SetInduction
<1> QED
  BY <1>3 DEF G

LEMMA SumOfNone == ASSUME NEW w PROVE Sum(w, {}) = 0
  BY SumExists, SumIs, FS_EmptySet DEF AddsUp, Adds

LEMMA SumCongruent ==
    ASSUME NEW S, IsFiniteSet(S), NEW v, NEW w, Agree(v, w, S)
    PROVE  Sum(v, S) = Sum(w, S)
  BY SumExists, SumsAgree, SumIs

LEMMA SumOfPart ==
    ASSUME NEW S, IsFiniteSet(S), NEW w, NEW T \in SUBSET S
    PROVE  SumOver(w, S)[T] = Sum(w, T)
<1>1. IsFiniteSet(T) /\ T \subseteq S
  BY FS_Subset
<1>2. AddsUp(SumOver(w, S), w, S) /\ AddsUp(SumOver(w, T), w, T)
  BY <1>1, SumExists
<1>3. PICK f, g : f = SumOver(w, S) /\ g = SumOver(w, T)
  OBVIOUS
<1>4. f[T] = g[T]
  <2>1. AddsUp(f, w, S) /\ AddsUp(g, w, T) /\ T \subseteq T /\ Agree(w, w, T)
    BY <1>2, <1>3 DEF Agree
  <2> QED
    BY ONLY <1>1, <2>1, SumsAgree
<1> QED
  BY <1>3, <1>4, SumIs

LEMMA SumOfMore ==
    ASSUME NEW S, IsFiniteSet(S), S # {}, NEW w
    PROVE  Sum(w, S) = w[One(S)] + Sum(w, S \ {One(S)})
<1>1. AddsUp(SumOver(w, S), w, S)
  BY SumExists
<1>2. Sum(w, S) = w[One(S)] + SumOver(w, S)[S \ {One(S)}]
  BY <1>1, SumIs DEF AddsUp, Adds
<1>3. S \ {One(S)} \in SUBSET S
  OBVIOUS
<1> QED
  BY <1>2, <1>3, SumOfPart

LEMMA SumInt ==
    ASSUME NEW S, IsFiniteSet(S), NEW w, \A x \in S : w[x] \in Int
    PROVE  Sum(w, S) \in Int
<1> DEFINE G == {T \in SUBSET S : Sum(w, T) \in Int}
<1>1. {} \in G
  BY SumOfNone
<1>2. ASSUME NEW T \in SUBSET S, T # {}, \A x \in T : T \ {x} \in G
      PROVE  T \in G
  <2>1. One(T) \in T /\ IsFiniteSet(T)
    BY <1>2, OneIs, FS_Subset
  <2>2. Sum(w, T) = w[One(T)] + Sum(w, T \ {One(T)})
    BY <1>2, <2>1, SumOfMore
  <2> QED
    BY <1>2, <2>1, <2>2
<1> HIDE DEF G
<1>3. S \in G
  BY <1>1, <1>2, SetInduction
<1> QED
  BY <1>3 DEF G

LEMMA SumNat ==
    ASSUME NEW S, IsFiniteSet(S), NEW w, \A x \in S : w[x] \in Nat
    PROVE  Sum(w, S) \in Nat
<1> DEFINE G == {T \in SUBSET S : Sum(w, T) \in Nat}
<1>1. {} \in G
  BY SumOfNone
<1>2. ASSUME NEW T \in SUBSET S, T # {}, \A x \in T : T \ {x} \in G
      PROVE  T \in G
  <2>1. One(T) \in T /\ IsFiniteSet(T)
    BY <1>2, OneIs, FS_Subset
  <2>2. Sum(w, T) = w[One(T)] + Sum(w, T \ {One(T)})
    BY <1>2, <2>1, SumOfMore
  <2> QED
    BY <1>2, <2>1, <2>2
<1> HIDE DEF G
<1>3. S \in G
  BY <1>1, <1>2, SetInduction
<1> QED
  BY <1>3 DEF G

\* Which element is taken first does not matter.
LEMMA SumWithout ==
    ASSUME NEW S, IsFiniteSet(S), NEW w, \A x \in S : w[x] \in Int, NEW x \in S
    PROVE  Sum(w, S) = w[x] + Sum(w, S \ {x})
<1> DEFINE G == {T \in SUBSET S : \A y \in T : Sum(w, T) = w[y] + Sum(w, T \ {y})}
<1>1. {} \in G
  OBVIOUS
<1>2. ASSUME NEW T \in SUBSET S, T # {}, \A y \in T : T \ {y} \in G
      PROVE  T \in G
  <2> DEFINE c == One(T)
  <2>1. c \in T /\ IsFiniteSet(T)
    BY <1>2, OneIs, FS_Subset
  <2>2. Sum(w, T) = w[c] + Sum(w, T \ {c})
    BY <1>2, <2>1, SumOfMore
  <2> HIDE DEF c
  <2>3. ASSUME NEW y \in T
        PROVE  Sum(w, T) = w[y] + Sum(w, T \ {y})
    <3>1. CASE y = c
      BY <2>2, <3>1
    <3>2. CASE y # c
      <4>1. Sum(w, T \ {c}) = w[y] + Sum(w, (T \ {c}) \ {y})
        BY <1>2, <2>1, <3>2
      <4>2. Sum(w, T \ {y}) = w[c] + Sum(w, (T \ {y}) \ {c})
        BY <1>2, <2>1, <3>2
      <4>3. (T \ {c}) \ {y} = (T \ {y}) \ {c}
        OBVIOUS
      <4>4. w[c] \in Int /\ w[y] \in Int
        BY <2>1
      <4>5. IsFiniteSet((T \ {c}) \ {y}) /\ (T \ {c}) \ {y} \subseteq S
        BY <2>1, FS_Subset
      <4>6. Sum(w, (T \ {c}) \ {y}) \in Int
        BY <4>5, SumInt
      <4>7. PICK r \in Int : r = Sum(w, (T \ {c}) \ {y})
        BY <4>6
      <4>8. Sum(w, T) = w[c] + (w[y] + r)
        BY <2>2, <4>1, <4>7
      <4>9. Sum(w, T \ {y}) = w[c] + r
        BY <4>2, <4>3, <4>7
      <4> QED
        BY <4>4, <4>8, <4>9
    <3> QED
      BY <3>1, <3>2
  <2> QED
    BY <2>3
<1> HIDE DEF G
<1>3. S \in G
  BY <1>1, <1>2, SetInduction
<1> QED
  BY <1>3 DEF G

IsOfInts(w, S) == \A x \in S : w[x] \in Int

LEMMA SumOfOne ==
    ASSUME NEW w, NEW x, w[x] \in Int
    PROVE  Sum(w, {x}) = w[x]
<1>1. IsFiniteSet({x}) /\ {x} \ {x} = {}
  BY FS_Singleton
<1>2. Sum(w, {x}) = w[x] + Sum(w, {x} \ {x})
  BY <1>1, SumWithout
<1> QED
  BY <1>1, <1>2, SumOfNone

\* One more element.
LEMMA SumWith ==
    ASSUME NEW S, IsFiniteSet(S), NEW w, NEW x, x \notin S, IsOfInts(w, S \cup {x})
    PROVE  Sum(w, S \cup {x}) = w[x] + Sum(w, S)
<1>1. IsFiniteSet(S \cup {x}) /\ (S \cup {x}) \ {x} = S
  BY FS_AddElement
<1>2. x \in S \cup {x} /\ \A y \in S \cup {x} : w[y] \in Int
  BY DEF IsOfInts
<1>3. PICK T : T = S \cup {x}
  OBVIOUS
<1>4. Sum(w, T) = w[x] + Sum(w, T \ {x})
  BY <1>1, <1>2, <1>3, SumWithout
<1> QED
  BY <1>1, <1>3, <1>4

LEMMA SumOfUnion ==
    ASSUME NEW S, IsFiniteSet(S), NEW T, IsFiniteSet(T), S \cap T = {}, NEW w,
           IsOfInts(w, S), IsOfInts(w, T)
    PROVE  Sum(w, S \cup T) = Sum(w, S) + Sum(w, T)
<1> DEFINE G == {P \in SUBSET T : Sum(w, S \cup P) = Sum(w, S) + Sum(w, P)}
<1>0. Sum(w, S) \in Int /\ \A P \in SUBSET T : IsFiniteSet(P) /\ Sum(w, P) \in Int
  BY FS_Subset, SumInt DEF IsOfInts
<1>1. {} \in G
  <2>1. S \cup {} = S
    OBVIOUS
  <2> QED
    BY <1>0, <2>1, SumOfNone
<1>2. ASSUME NEW P \in SUBSET T, P # {}, \A x \in P : P \ {x} \in G
      PROVE  P \in G
  <2>1. PICK x : x \in P
    BY <1>2
  <2>2. PICK rest : rest = P \ {x}
    OBVIOUS
  <2>3. /\ IsFiniteSet(S \cup P) /\ IsFiniteSet(P) /\ IsOfInts(w, S \cup P) /\ IsOfInts(w, P)
        /\ (S \cup P) \ {x} = S \cup rest
        /\ x \in S \cup P
    BY <1>0, <2>1, <2>2, FS_Union DEF IsOfInts
  <2>4. PICK all : all = S \cup P
    OBVIOUS
  <2>5. Sum(w, all) = w[x] + Sum(w, all \ {x})
    BY <2>3, <2>4, SumWithout DEF IsOfInts
  <2>6. Sum(w, P) = w[x] + Sum(w, rest)
    BY <2>1, <2>2, <2>3, SumWithout DEF IsOfInts
  <2>7. Sum(w, S \cup rest) = Sum(w, S) + Sum(w, rest)
    BY <1>2, <2>1, <2>2
  <2>8. w[x] \in Int /\ Sum(w, rest) \in Int /\ Sum(w, S) \in Int
    BY <1>0, <2>1, <2>2, <2>3 DEF IsOfInts
  <2>9. Sum(w, S \cup P) = w[x] + Sum(w, S \cup rest)
    BY <2>3, <2>4, <2>5
  <2>10. Sum(w, S \cup P) = Sum(w, S) + Sum(w, P)
    BY <2>6, <2>7, <2>8, <2>9
  <2> QED
    BY <2>10
<1> HIDE DEF G
<1>3. T \in G
  BY <1>1, <1>2, SetInduction
<1> QED
  BY <1>3 DEF G

\* The weights of two sums, element by element.
LEMMA SumOfSums ==
    ASSUME NEW S, IsFiniteSet(S), NEW u, NEW v, NEW w, IsOfInts(v, S), IsOfInts(w, S),
           \A x \in S : u[x] = v[x] + w[x]
    PROVE  Sum(u, S) = Sum(v, S) + Sum(w, S)
<1> DEFINE G == {P \in SUBSET S : Sum(u, P) = Sum(v, P) + Sum(w, P)}
<1>0. \A P \in SUBSET S : /\ IsFiniteSet(P) /\ Sum(v, P) \in Int /\ Sum(w, P) \in Int
                          /\ IsOfInts(u, P) /\ IsOfInts(v, P) /\ IsOfInts(w, P)
  BY FS_Subset, SumInt DEF IsOfInts
<1>1. {} \in G
  BY SumOfNone
<1>2. ASSUME NEW P \in SUBSET S, P # {}, \A x \in P : P \ {x} \in G
      PROVE  P \in G
  <2>1. PICK x : x \in P
    BY <1>2
  <2>2. PICK rest : rest = P \ {x}
    OBVIOUS
  <2>3. /\ Sum(u, P) = u[x] + Sum(u, rest)
        /\ Sum(v, P) = v[x] + Sum(v, rest)
        /\ Sum(w, P) = w[x] + Sum(w, rest)
    BY <1>0, <2>1, <2>2, SumWithout DEF IsOfInts
  <2>4. Sum(u, rest) = Sum(v, rest) + Sum(w, rest)
    BY <1>2, <2>1, <2>2
  <2>5. v[x] \in Int /\ w[x] \in Int /\ Sum(v, rest) \in Int /\ Sum(w, rest) \in Int /\ u[x] = v[x] + w[x]
    BY <1>0, <2>1, <2>2 DEF IsOfInts
  <2>6. Sum(u, P) = Sum(v, P) + Sum(w, P)
    BY <2>3, <2>4, <2>5
  <2> QED
    BY <2>6
<1> HIDE DEF G
<1>3. S \in G
  BY <1>1, <1>2, SetInduction
<1> QED
  BY <1>3 DEF G

\* What weighs nothing can be left out.
LEMMA SumOfSome ==
    ASSUME NEW S, IsFiniteSet(S), NEW T \in SUBSET S, NEW w, IsOfInts(w, S),
           \A x \in S \ T : w[x] = 0
    PROVE  Sum(w, S) = Sum(w, T)
<1> DEFINE G == {P \in SUBSET (S \ T) : Sum(w, P) = 0}
<1>1. {} \in G
  BY SumOfNone
<1>2. ASSUME NEW P \in SUBSET (S \ T), P # {}, \A x \in P : P \ {x} \in G
      PROVE  P \in G
  <2>1. PICK x : x \in P
    BY <1>2
  <2>2. IsFiniteSet(P)
    BY FS_Subset
  <2>3. Sum(w, P) = w[x] + Sum(w, P \ {x})
    BY <2>1, <2>2, SumWithout DEF IsOfInts
  <2>4. w[x] = 0 /\ Sum(w, P \ {x}) = 0
    BY <1>2, <2>1
  <2> QED
    BY <2>3, <2>4
<1> HIDE DEF G
<1>3. IsFiniteSet(S \ T) /\ IsFiniteSet(T)
  BY FS_Subset
<1>4. S \ T \in G
  BY <1>1, <1>2, <1>3, SetInduction
<1>5. Sum(w, S \ T) = 0
  BY <1>4 DEF G
<1>6. Sum(w, T) \in Int /\ IsOfInts(w, T) /\ IsOfInts(w, S \ T)
  BY <1>3, SumInt DEF IsOfInts
<1>7. T \cap (S \ T) = {} /\ T \cup (S \ T) = S
  OBVIOUS
<1>8. PICK rest : rest = S \ T
  OBVIOUS
<1>9. Sum(w, T \cup rest) = Sum(w, T) + Sum(w, rest)
  BY <1>3, <1>6, <1>7, <1>8, SumOfUnion
<1> QED
  BY <1>5, <1>6, <1>7, <1>8, <1>9

AreDistinct(g, S) == \A x, y \in S : g[x] = g[y] => x = y

\* Elements of one set for those of another.
LEMMA SumOfImage ==
    ASSUME NEW S, IsFiniteSet(S), NEW g, AreDistinct(g, S), NEW v, NEW w,
           \A x \in S : v[x] = w[g[x]] /\ v[x] \in Int
    PROVE  Sum(w, {g[x] : x \in S}) = Sum(v, S)
<1> DEFINE Image(P) == {g[x] : x \in P}
           G == {P \in SUBSET S : IsFiniteSet(Image(P)) /\ Sum(w, Image(P)) = Sum(v, P)}
<1>1. {} \in G
  <2>1. Image({}) = {}
    OBVIOUS
  <2> QED
    BY <2>1, SumOfNone, FS_EmptySet
<1>2. ASSUME NEW P \in SUBSET S, P # {}, \A x \in P : P \ {x} \in G
      PROVE  P \in G
  <2>1. PICK x : x \in P
    BY <1>2
  <2>2. PICK rest : rest = P \ {x}
    OBVIOUS
  <2>3. Image(P) = Image(rest) \cup {g[x]} /\ g[x] \notin Image(rest)
    BY <2>1, <2>2 DEF AreDistinct
  <2>4. IsFiniteSet(Image(rest)) /\ Sum(w, Image(rest)) = Sum(v, rest)
    BY <1>2, <2>1, <2>2
  <2>5. IsFiniteSet(P) /\ \A y \in P : v[y] \in Int
    BY FS_Subset
  <2>6. Sum(v, P) = v[x] + Sum(v, rest)
    BY <2>1, <2>2, <2>5, SumWithout
  <2>7. IsOfInts(w, Image(rest) \cup {g[x]})
    BY <2>1, <2>2 DEF IsOfInts
  <2>8. PICK images : images = Image(rest)
    OBVIOUS
  <2>9. Sum(w, images \cup {g[x]}) = w[g[x]] + Sum(w, images)
    BY <2>3, <2>4, <2>7, <2>8, SumWith
  <2>10. IsFiniteSet(images \cup {g[x]})
    BY <2>4, <2>8, FS_AddElement
  <2> QED
    BY <2>1, <2>3, <2>4, <2>6, <2>8, <2>9, <2>10
<1> HIDE DEF G
<1>3. S \in G
  BY <1>1, <1>2, SetInduction
<1> QED
  BY <1>3 DEF G

AreApart(F, D) == \A d, e \in D : d # e => F[d] \cap F[e] = {}

\* The sum over groups of the sums of each.
LEMMA SumOfGroups ==
    ASSUME NEW D, IsFiniteSet(D), NEW F, \A d \in D : IsFiniteSet(F[d]), AreApart(F, D),
           NEW w, \A d \in D : IsOfInts(w, F[d]),
           NEW v, \A d \in D : v[d] = Sum(w, F[d])
    PROVE  /\ IsFiniteSet(UNION {F[d] : d \in D})
           /\ Sum(w, UNION {F[d] : d \in D}) = Sum(v, D)
<1> DEFINE All(P) == UNION {F[d] : d \in P}
           G == {P \in SUBSET D : IsFiniteSet(All(P)) /\ Sum(w, All(P)) = Sum(v, P)}
<1>1. {} \in G
  <2>1. All({}) = {}
    OBVIOUS
  <2> QED
    BY <2>1, SumOfNone, FS_EmptySet
<1>2. ASSUME NEW P \in SUBSET D, P # {}, \A d \in P : P \ {d} \in G
      PROVE  P \in G
  <2>1. PICK d : d \in P
    BY <1>2
  <2>2. PICK rest : rest = P \ {d}
    OBVIOUS
  <2>3. All(P) = All(rest) \cup F[d] /\ All(rest) \cap F[d] = {}
    BY <2>1, <2>2 DEF AreApart
  <2>4. IsFiniteSet(All(rest)) /\ Sum(w, All(rest)) = Sum(v, rest)
    BY <1>2, <2>1, <2>2
  <2>5. IsFiniteSet(P) /\ IsFiniteSet(F[d])
    BY <2>1, FS_Subset
  <2>6. \A e \in P : v[e] \in Int
    BY SumInt DEF IsOfInts
  <2>7. Sum(v, P) = v[d] + Sum(v, rest)
    BY <2>1, <2>2, <2>5, <2>6, SumWithout
  <2>8. IsOfInts(w, All(rest)) /\ IsOfInts(w, F[d])
    BY <2>1, <2>2 DEF IsOfInts
  <2>9. PICK others, group : others = All(rest) /\ group = F[d]
    OBVIOUS
  <2>10. Sum(w, others \cup group) = Sum(w, others) + Sum(w, group)
    BY <2>3, <2>4, <2>5, <2>8, <2>9, SumOfUnion
  <2>11. IsFiniteSet(others \cup group)
    BY <2>4, <2>5, <2>9, FS_Union
  <2>12. v[d] \in Int /\ Sum(v, rest) \in Int /\ v[d] = Sum(w, group)
    <3>1. IsFiniteSet(rest) /\ \A e \in rest : v[e] \in Int
      BY <2>2, <2>5, <2>6, FS_Subset
    <3> QED
      BY <2>1, <2>6, <2>9, <3>1, SumInt
  <2>13. Sum(w, All(P)) = Sum(v, rest) + v[d]
    BY <2>3, <2>4, <2>9, <2>10, <2>12
  <2>14. Sum(w, All(P)) = Sum(v, P)
    BY <2>7, <2>12, <2>13
  <2> QED
    BY <2>3, <2>9, <2>11, <2>14
<1> HIDE DEF G
<1>3. D \in G
  BY <1>1, <1>2, SetInduction
<1> QED
  BY <1>3 DEF G

\* The weights u are the sums of the rows of the table m, and columns are its columns.
IsTable(m, D, C) == \A d \in D : IsOfInts(m[d], C)
SumsRows(u, m, D, C) == \A d \in D : u[d] = Sum(m[d], C)
HasColumns(m, columns, D, C) == \A c \in C : \A d \in D : columns[c][d] = m[d][c]

\* Rows or columns first.
LEMMA SumOfTable ==
    ASSUME NEW D, IsFiniteSet(D), NEW C, IsFiniteSet(C),
           NEW m, IsTable(m, D, C), NEW u, SumsRows(u, m, D, C),
           NEW k, HasColumns(m, k, D, C), NEW v, SumsRows(v, k, C, D)
    PROVE  Sum(u, D) = Sum(v, C)
<1> USE DEF IsTable, SumsRows, HasColumns
<1> DEFINE column(c) == [d \in D |-> m[d][c]]
           columns(P) == [c \in C |-> Sum(column(c), P)]
           G == {P \in SUBSET D : Sum(u, P) = Sum(columns(P), C)}
<1>0. \A P \in SUBSET D : /\ IsFiniteSet(P)
                          /\ \A c \in C : Sum(column(c), P) \in Int
                          /\ \A d \in P : u[d] \in Int
  <2> SUFFICES ASSUME NEW P \in SUBSET D
               PROVE  /\ IsFiniteSet(P)
                      /\ \A c \in C : Sum(column(c), P) \in Int
                      /\ \A d \in P : u[d] \in Int
    OBVIOUS
  <2>1. IsFiniteSet(P)
    BY FS_Subset
  <2>2. \A d \in P : u[d] \in Int
    BY SumInt DEF IsOfInts
  <2>3. ASSUME NEW c \in C PROVE Sum(column(c), P) \in Int
    <3>1. \A d \in P : column(c)[d] \in Int
      BY DEF IsOfInts
    <3> HIDE DEF column
    <3> QED
      BY <2>1, <3>1, SumInt
  <2> QED
    BY <2>1, <2>2, <2>3
<1>1. {} \in G
  <2>1. \A c \in C : columns({})[c] = 0
    BY SumOfNone
  <2> HIDE DEF columns
  <2>2. IsOfInts(columns({}), C) /\ {} \in SUBSET C /\ \A c \in C \ {} : columns({})[c] = 0
    BY <2>1 DEF IsOfInts
  <2>3. PICK zeros : zeros = columns({})
    OBVIOUS
  <2>4. Sum(zeros, C) = Sum(zeros, {})
    BY <2>2, <2>3, SumOfSome
  <2> QED
    BY <2>3, <2>4, SumOfNone
<1>2. ASSUME NEW P \in SUBSET D, P # {}, \A d \in P : P \ {d} \in G
      PROVE  P \in G
  <2>1. PICK d : d \in P
    BY <1>2
  <2>2. PICK rest \in SUBSET D : rest = P \ {d}
    OBVIOUS
  <2>3. Sum(u, P) = u[d] + Sum(u, rest)
    BY <1>0, <2>1, <2>2, SumWithout
  <2>4. \A c \in C : columns(P)[c] = m[d][c] + columns(rest)[c]
    <3> SUFFICES ASSUME NEW c \in C
                 PROVE  Sum(column(c), P) = m[d][c] + Sum(column(c), rest)
      OBVIOUS
    <3>1. \A e \in P : column(c)[e] \in Int
      BY DEF IsOfInts
    <3>2. column(c)[d] = m[d][c]
      BY <2>1
    <3>3. PICK weights : weights = column(c)
      OBVIOUS
    <3>4. IsFiniteSet(P) /\ \A e \in P : weights[e] \in Int
      BY <1>0, <3>1, <3>3
    <3>5. Sum(weights, P) = weights[d] + Sum(weights, P \ {d})
      BY ONLY <2>1, <3>4, SumWithout
    <3> HIDE DEF column
    <3> QED
      BY <2>2, <3>2, <3>3, <3>5
  <2>5. IsOfInts(m[d], C) /\ IsOfInts(columns(rest), C)
    BY <1>0, <2>1, <2>2 DEF IsOfInts
  <2>6. PICK all, row, others : all = columns(P) /\ row = m[d] /\ others = columns(rest)
    OBVIOUS
  <2> HIDE DEF columns
  <2>7. Sum(all, C) = Sum(row, C) + Sum(others, C)
    <3>1. \A c \in C : all[c] = row[c] + others[c]
      BY <2>4, <2>6
    <3>2. IsOfInts(row, C) /\ IsOfInts(others, C)
      BY <2>5, <2>6
    <3> QED
      BY ONLY <3>1, <3>2, IsFiniteSet(C), SumOfSums
  <2>8. Sum(u, rest) = Sum(others, C) /\ u[d] = Sum(row, C)
    BY <1>2, <2>1, <2>2, <2>6
  <2> QED
    BY <2>3, <2>6, <2>7, <2>8
<1> HIDE DEF G
<1>3. D \in G
  BY <1>1, <1>2, SetInduction
<1>4. Sum(u, D) = Sum(columns(D), C)
  BY <1>3 DEF G
<1>5. Agree(columns(D), v, C)
  <2>1. ASSUME NEW c \in C
        PROVE  Sum(column(c), D) = Sum(k[c], D)
    <3>1. Agree(column(c), k[c], D)
      BY DEF Agree
    <3> HIDE DEF column
    <3> QED
      BY <3>1, SumCongruent
  <2>2. \A c \in C : columns(D)[c] = Sum(column(c), D)
    OBVIOUS
  <2> HIDE DEF column, columns
  <2> QED
    BY <2>1, <2>2 DEF Agree
<1> HIDE DEF columns
<1> QED
  BY <1>4, <1>5, SumCongruent

LEMMA SumOfMultiples ==
    ASSUME NEW S, IsFiniteSet(S), NEW k \in Int, NEW v, NEW w, IsOfInts(w, S),
           \A x \in S : v[x] = w[x] * k
    PROVE  Sum(v, S) = Sum(w, S) * k
<1> DEFINE G == {P \in SUBSET S : Sum(v, P) = Sum(w, P) * k}
<1>0. \A P \in SUBSET S : /\ IsFiniteSet(P) /\ Sum(w, P) \in Int
                          /\ IsOfInts(v, P) /\ IsOfInts(w, P)
  BY FS_Subset, SumInt DEF IsOfInts
<1>1. {} \in G
  BY SumOfNone
<1>2. ASSUME NEW P \in SUBSET S, P # {}, \A x \in P : P \ {x} \in G
      PROVE  P \in G
  <2>1. PICK x : x \in P
    BY <1>2
  <2>2. PICK rest : rest = P \ {x}
    OBVIOUS
  <2>3. /\ Sum(v, P) = v[x] + Sum(v, rest)
        /\ Sum(w, P) = w[x] + Sum(w, rest)
    BY <1>0, <2>1, <2>2, SumWithout DEF IsOfInts
  <2>4. Sum(v, rest) = Sum(w, rest) * k /\ v[x] = w[x] * k
    BY <1>2, <2>1, <2>2
  <2>5. w[x] \in Int /\ Sum(w, rest) \in Int
    BY <1>0, <2>1, <2>2 DEF IsOfInts
  <2>6. PICK a \in Int, b \in Int : a = w[x] /\ b = Sum(w, rest)
    BY <2>5
  <2>7. (a + b) * k = a * k + b * k
    OBVIOUS
  <2> QED
    BY <2>3, <2>4, <2>6, <2>7
<1> HIDE DEF G
<1>3. S \in G
  BY <1>1, <1>2, SetInduction
<1> QED
  BY <1>3 DEF G

LEMMA SumOfOnes ==
    ASSUME NEW S, IsFiniteSet(S), NEW w, \A x \in S : w[x] = 1
    PROVE  Sum(w, S) = Cardinality(S)
<1> DEFINE G == {P \in SUBSET S : Sum(w, P) = Cardinality(P)}
<1>1. {} \in G
  BY SumOfNone, FS_EmptySet
<1>2. ASSUME NEW P \in SUBSET S, P # {}, \A x \in P : P \ {x} \in G
      PROVE  P \in G
  <2>1. PICK x : x \in P
    BY <1>2
  <2>2. IsFiniteSet(P)
    BY FS_Subset
  <2>3. Sum(w, P) = 1 + Sum(w, P \ {x})
    BY <2>1, <2>2, SumWithout
  <2>4. Cardinality(P \ {x}) = Cardinality(P) - 1 /\ Cardinality(P) \in Nat
    BY <2>1, <2>2, FS_RemoveElement, FS_CardinalityType
  <2> QED
    BY <1>2, <2>1, <2>3, <2>4
<1> HIDE DEF G
<1>3. S \in G
  BY <1>1, <1>2, SetInduction
<1> QED
  BY <1>3 DEF G
=============================================================================
