---------------------------- MODULE FoldTheorems ----------------------------
(***************************************************************************)
(* Folds over finite sets, one step at a time.  MapThenFoldSet is defined  *)
(* by recursion over the subsets of its set; that this recursion has a     *)
(* solution, and that it is the same one for a smaller set, is proved by   *)
(* the least size at which there would be none or two would differ.        *)
(*                                                                         *)
(* The lemmas take operators as parameters.  The provers find an instance  *)
(* where an operator is itself an argument and is not applied, so what is  *)
(* said of it has a name (Picks, Grows, FoldEnd).  Of sums most is said of *)
(* those of a function (SumAt), to which the others come down.             *)
(***************************************************************************)
EXTENDS FiniteSetsExt, Folds, FiniteSetTheorems, TLAPS

\* What is picked from a subset of R is one of its elements.
Picks(pick(_), R) == \A S \in SUBSET R : S # {} => pick(S) \in S

\* A subset of R is good if it is without the element picked from it.
Grows(pick(_), R, good) ==
    \A S \in SUBSET R : S # {} /\ S \ {pick(S)} \in good => S \in good

\* A fold over R, in terms of one over fewer elements.
FoldEnd(op(_, _), base, f(_), pick(_), R) ==
    IF R = {} THEN base
    ELSE op(f(pick(R)), MapThenFoldSet(op, base, f, pick, R \ {pick(R)}))

\* A set of naturals that is not empty has a least one.
LEMMA LeastNatural ==
    ASSUME NEW numbers \in SUBSET Nat, numbers # {}
    PROVE  \E least \in numbers : \A n \in numbers : least <= n
<1> DEFINE Less == {pair \in Nat \X Nat : pair[1] < pair[2]}
<1>1. IsWellFoundedOn(Less, Nat)
  BY NatLessThanWellFounded DEF OpToRel
<1> HIDE DEF Less
<1>2. PICK least \in numbers : \A n \in numbers : <<n, least>> \notin Less
  BY <1>1, WFMin
<1>3. \A n \in numbers : ~(n < least)
  BY <1>2 DEF Less
<1> QED BY <1>3

\* Induction over the naturals, for a set.
LEMMA NaturalsFromZero ==
    ASSUME NEW good, 0 \in good, \A n \in Nat : n \in good => n + 1 \in good
    PROVE  Nat \subseteq good
<1> SUFFICES ASSUME Nat \ good # {} PROVE FALSE
  OBVIOUS
<1>1. PICK least \in Nat \ good : \A n \in Nat \ good : least <= n
  BY LeastNatural
<1>2. least - 1 \in Nat /\ least - 1 \in good
  BY <1>1
<1> QED BY <1>1, <1>2

\* A finite set without one of its elements.
LEMMA OneLess ==
    ASSUME NEW S, IsFiniteSet(S), NEW x \in S
    PROVE  /\ IsFiniteSet(S \ {x}) /\ Cardinality(S \ {x}) \in Nat
           /\ Cardinality(S) = Cardinality(S \ {x}) + 1
<1>1. IsFiniteSet(S \ {x}) /\ Cardinality(S \ {x}) = Cardinality(S) - 1
  BY FS_RemoveElement, Zenon
<1>2. Cardinality(S) \in Nat /\ Cardinality(S \ {x}) \in Nat
  BY <1>1, FS_CardinalityType
<1> QED BY <1>1, <1>2

\* A finite set of naturals that is not empty has a greatest.
LEMMA GreatestOf ==
    ASSUME NEW R \in SUBSET Nat, IsFiniteSet(R), R # {}
    PROVE  Max(R) \in R /\ \A t \in R : t <= Max(R)
<1> DEFINE Has(n) == \A S \in SUBSET R : Cardinality(S) = n /\ S # {} => \E x \in S : \A y \in S : x >= y
           good == {n \in Nat : Has(n)}
<1>1. 0 \in good
  BY FS_EmptySet, FS_Subset
<1>2. ASSUME NEW n \in Nat, n \in good PROVE n + 1 \in good
  <2> SUFFICES ASSUME NEW S \in SUBSET R, Cardinality(S) = n + 1, S # {}
               PROVE  \E x \in S : \A y \in S : x >= y
    OBVIOUS
  <2>1. PICK x \in S : TRUE
    OBVIOUS
  <2>2. IsFiniteSet(S)
    BY FS_Subset
  <2>9. Cardinality(S \ {x}) = n
    BY <2>1, <2>2, OneLess
  <2>3. CASE S = {x}
    BY <2>3
  <2>4. CASE S # {x}
    <3>1. PICK z \in S \ {x} : \A y \in S \ {x} : z >= y
      BY <2>1, <2>9, <2>4, <1>2
    <3> QED BY <2>1, <3>1
  <2> QED BY <2>3, <2>4
<1> HIDE DEF good
<1>3. Nat \subseteq good
  BY <1>1, <1>2, NaturalsFromZero
<1>4. Cardinality(R) \in Nat
  BY FS_CardinalityType
<1>5. \E x \in R : \A y \in R : x >= y
  BY <1>3, <1>4 DEF good
<1>6. Max(R) \in R /\ \A y \in R : Max(R) >= y
  BY <1>5 DEF Max
<1> QED BY <1>6

\* Induction along a fold: what holds of {} and, if it holds without the element
\* picked first, of any other subset of R, holds of them all.
LEMMA FoldInduction ==
    ASSUME NEW pick(_), NEW R, IsFiniteSet(R), Picks(pick, R),
           NEW good, {} \in good, Grows(pick, R, good)
    PROVE  SUBSET R \subseteq good
<1> DEFINE bad == {n \in Nat : \E S \in SUBSET R : Cardinality(S) = n /\ S \notin good}
<1> SUFFICES ASSUME NEW S \in SUBSET R, S \notin good PROVE FALSE
  OBVIOUS
<1>1. Cardinality(S) \in bad
  BY FS_Subset, FS_CardinalityType
<1>2. PICK n \in bad : \A m \in bad : n <= m
  <2> HIDE DEF bad
  <2>1. bad \in SUBSET Nat
    BY DEF bad
  <2> QED BY <1>1, <2>1, LeastNatural
<1>3. PICK T \in SUBSET R : Cardinality(T) = n /\ T \notin good
  BY <1>2
<1>4. T # {} /\ pick(T) \in T /\ T \ {pick(T)} \notin good
  BY <1>3 DEF Picks, Grows
<1>5. IsFiniteSet(T)
  BY FS_Subset
<1>6. Cardinality(T \ {pick(T)}) \in Nat /\ Cardinality(T) = Cardinality(T \ {pick(T)}) + 1
  BY <1>4, <1>5, OneLess
<1>7. Cardinality(T \ {pick(T)}) \in bad
  BY <1>4, <1>6
<1>8. n <= Cardinality(T \ {pick(T)})
  BY <1>2, <1>7
<1> QED BY <1>3, <1>6, <1>8

\* One step of a fold: the element picked first is put to the fold of the others.
LEMMA FoldStep ==
    ASSUME NEW op(_, _), NEW base, NEW f(_), NEW pick(_), NEW R, IsFiniteSet(R),
           Picks(pick, R)
    PROVE  MapThenFoldSet(op, base, f, pick, R) = FoldEnd(op, base, f, pick, R)
<1> DEFINE Small(S, n) == {T \in SUBSET S : Cardinality(T) <= n}
           E(h, T) == IF T = {} THEN base ELSE op(f(pick(T)), h[T \ {pick(T)}])
           Folds(h, D) == h = [T \in D |-> E(h, T)]
<1>1. ASSUME NEW S \in SUBSET R PROVE IsFiniteSet(S) /\ Cardinality(S) \in Nat
  BY <1>1, FS_Subset, FS_CardinalityType
<1>2. ASSUME NEW S \in SUBSET R, S # {}
      PROVE  /\ pick(S) \in S /\ Cardinality(S \ {pick(S)}) \in Nat
             /\ Cardinality(S) = Cardinality(S \ {pick(S)}) + 1
  <2>1. pick(S) \in S
    BY <1>2 DEF Picks
  <2> QED BY <1>1, <2>1, OneLess
<1>3. ASSUME NEW S \in SUBSET R
      PROVE  \E h : Folds(h, SUBSET S)
  <2> DEFINE good == {n \in Nat : \E h : Folds(h, Small(S, n))}
  <2>1. 0 \in good
    <3> DEFINE h == [T \in Small(S, 0) |-> base]
    <3>1. ASSUME NEW T \in Small(S, 0) PROVE T = {}
      <4>1. IsFiniteSet(T) /\ Cardinality(T) = 0
        BY <1>1
      <4> QED BY <4>1, FS_EmptySet
    <3>2. Folds(h, Small(S, 0))
      BY <3>1
    <3> QED BY <3>2
  <2>2. ASSUME NEW n \in Nat, n \in good PROVE n + 1 \in good
    <3>1. PICK h : Folds(h, Small(S, n))
      BY <2>2
    <3> DEFINE g == [T \in Small(S, n + 1) |-> E(h, T)]
    <3>2. ASSUME NEW T \in Small(S, n + 1), T # {}
          PROVE  T \ {pick(T)} \in Small(S, n) /\ T \ {pick(T)} \in Small(S, n + 1)
      <4>1. T \in SUBSET R /\ Cardinality(T) \in Nat /\ Cardinality(T) <= n + 1
        BY <1>1
      <4>2. Cardinality(T \ {pick(T)}) \in Nat /\ Cardinality(T) = Cardinality(T \ {pick(T)}) + 1
        BY <1>2, <3>2, <4>1
      <4>3. Cardinality(T \ {pick(T)}) <= n /\ Cardinality(T \ {pick(T)}) <= n + 1
        BY <4>1, <4>2
      <4> QED BY <4>3
    <3>3. ASSUME NEW T \in Small(S, n) PROVE h[T] = g[T]
      <4>1. T \in Small(S, n + 1)
        BY <1>1
      <4>2. h[T] = E(h, T)
        BY <3>1
      <4>3. g[T] = E(h, T)
        BY <4>1
      <4> QED BY <4>2, <4>3
    <3>4. ASSUME NEW T \in Small(S, n + 1) PROVE E(h, T) = E(g, T)
      BY <3>2, <3>3
    <3>5. Folds(g, Small(S, n + 1))
      BY <3>4
    <3> HIDE DEF g, Folds, Small
    <3>6. \E k : Folds(k, Small(S, n + 1))
      BY <3>5
    <3> QED BY <3>6
  <2> HIDE DEF good
  <2>3. Cardinality(S) \in good
    BY <1>1, <2>1, <2>2, NaturalsFromZero
  <2>4. Small(S, Cardinality(S)) = SUBSET S
    BY <1>1, FS_Subset
  <2> QED BY <2>3, <2>4 DEF good
<1> DEFINE Iter(S) == CHOOSE h : Folds(h, SUBSET S)
<1>4. ASSUME NEW S \in SUBSET R PROVE MapThenFoldSet(op, base, f, pick, S) = Iter(S)[S]
  BY DEF MapThenFoldSet
<1>5. ASSUME NEW S \in SUBSET R PROVE Folds(Iter(S), SUBSET S)
  <2> HIDE DEF Folds
  <2> QED BY <1>3
<1>6. ASSUME NEW S \in SUBSET R, S # {}
      PROVE  Iter(S)[S \ {pick(S)}] = Iter(S \ {pick(S)})[S \ {pick(S)}]
  <2> DEFINE U == S \ {pick(S)}
             differ == {n \in Nat : \E T \in SUBSET U : Cardinality(T) = n /\ Iter(S)[T] # Iter(U)[T]}
  <2>0. U \in SUBSET R /\ U \in SUBSET S
    OBVIOUS
  <2> HIDE DEF U
  <2>1. ASSUME NEW T \in SUBSET U PROVE Iter(S)[T] = E(Iter(S), T) /\ Iter(U)[T] = E(Iter(U), T)
    <3> HIDE DEF Iter
    <3>1. Folds(Iter(S), SUBSET S) /\ Folds(Iter(U), SUBSET U)
      BY <1>5, <2>0
    <3>2. T \in SUBSET S
      BY <2>0
    <3> QED BY <3>1, <3>2
  <2> HIDE DEF Iter
  <2>2. differ = {}
    <3> SUFFICES ASSUME differ # {} PROVE FALSE
      OBVIOUS
    <3>1. PICK n \in differ : \A m \in differ : n <= m
      BY LeastNatural
    <3>2. PICK T \in SUBSET U : Cardinality(T) = n /\ Iter(S)[T] # Iter(U)[T]
      BY <3>1
    <3>3. T # {}
      BY <2>1, <3>2
    <3>4. T \ {pick(T)} \in SUBSET U /\ Cardinality(T \ {pick(T)}) = n - 1 /\ n - 1 \in Nat
      <4>1. T \in SUBSET R /\ T \ {pick(T)} \in SUBSET U
        BY <2>0
      <4>2. Cardinality(T \ {pick(T)}) \in Nat /\ Cardinality(T) = Cardinality(T \ {pick(T)}) + 1
        BY <1>2, <3>3, <4>1
      <4>3. Cardinality(T) = n /\ n \in Nat
        BY <3>2
      <4> QED BY <4>1, <4>2, <4>3
    <3>5. Iter(S)[T \ {pick(T)}] = Iter(U)[T \ {pick(T)}]
      BY <3>1, <3>4
    <3> QED BY <2>1, <3>2, <3>3, <3>5
  <2>3. Iter(S)[U] = Iter(U)[U]
    BY <1>1, <2>0, <2>2
  <2> QED BY <2>3 DEF U
<1>7. Iter(R)[R] = E(Iter(R), R)
  <2> HIDE DEF Iter
  <2> QED BY <1>5
<1> HIDE DEF Iter
<1>8. CASE R = {}
  BY <1>4, <1>7, <1>8 DEF FoldEnd
<1>9. CASE R # {}
  <2>1. R \ {pick(R)} \in SUBSET R
    OBVIOUS
  <2> QED BY <1>4, <1>6, <1>7, <1>9, <2>1 DEF FoldEnd
<1> QED BY <1>8, <1>9

\* A fold over a function, in terms of one over fewer arguments.
OnSetEnd(op(_, _), base, fun, S) ==
    IF S = {} THEN base
    ELSE LET x == CHOOSE x \in S : TRUE
         IN  op(fun[x], FoldFunctionOnSet(op, base, fun, S \ {x}))

LEMMA FunctionFoldStep ==
    ASSUME NEW op(_, _), NEW base, NEW fun, NEW S, IsFiniteSet(S)
    PROVE  FoldFunctionOnSet(op, base, fun, S) = OnSetEnd(op, base, fun, S)
<1> DEFINE at(i) == fun[i]
           any(s) == CHOOSE x \in s : TRUE
<1>1. Picks(any, S)
  BY DEF Picks
<1>2. MapThenFoldSet(op, base, at, any, S) = FoldEnd(op, base, at, any, S)
  <2> HIDE DEF at, any
  <2> QED BY <1>1, FoldStep
<1>3. FoldFunctionOnSet(op, base, fun, S) = MapThenFoldSet(op, base, at, any, S)
  BY DEF FoldFunctionOnSet
<1>4. FoldEnd(op, base, at, any, S) = OnSetEnd(op, base, fun, S)
  BY DEF FoldEnd, OnSetEnd, FoldFunctionOnSet
<1> HIDE DEF at, any
<1> QED BY <1>2, <1>3, <1>4

\* Picking the greatest.
LEMMA MaxPicks == ASSUME NEW R \in SUBSET Nat, IsFiniteSet(R) PROVE Picks(Max, R)
BY GreatestOf, FS_Subset DEF Picks

-----------------------------------------------------------------------------
(* Sums.  A sum of an operator over a set is that of a function, of which  *)
(* the rest can be said without operators as parameters.                   *)

SumAt(f, S) == MapThenSumSet(LAMBDA x : f[x], S)

\* The operator, as a function on a set.
OnSet(f(_), S) == [x \in S |-> f(x)]

AnyOf(S) == CHOOSE x \in S : TRUE

LEMMA AnyPicks == ASSUME NEW S PROVE Picks(AnyOf, S)
BY DEF Picks, AnyOf

\* A sum over a set, one element at a time.
SumEnd(f(_), S) ==
    IF S = {} THEN 0 ELSE f(AnyOf(S)) + MapThenSumSet(f, S \ {AnyOf(S)})

LEMMA SetSumStep ==
    ASSUME NEW f(_), NEW S, IsFiniteSet(S)
    PROVE  MapThenSumSet(f, S) = SumEnd(f, S)
<1>1. MapThenFoldSet(+, 0, f, AnyOf, S) = FoldEnd(+, 0, f, AnyOf, S)
  BY AnyPicks, FoldStep
<1>2. MapThenSumSet(f, S) = MapThenFoldSet(+, 0, f, AnyOf, S)
  BY DEF MapThenSumSet, AnyOf
<1>3. FoldEnd(+, 0, f, AnyOf, S) = SumEnd(f, S)
  BY DEF FoldEnd, SumEnd, MapThenSumSet, AnyOf
<1> QED BY <1>1, <1>2, <1>3

LEMMA SumAtStep ==
    ASSUME NEW f, NEW S, IsFiniteSet(S), S # {}
    PROVE  SumAt(f, S) = f[AnyOf(S)] + SumAt(f, S \ {AnyOf(S)})
<1> DEFINE at(x) == f[x]
<1>1. MapThenSumSet(at, S) = SumEnd(at, S)
  <2> HIDE DEF at
  <2> QED BY SetSumStep
<1>2. SumEnd(at, S) = f[AnyOf(S)] + SumAt(f, S \ {AnyOf(S)})
  BY DEF SumEnd, SumAt
<1>3. SumAt(f, S) = MapThenSumSet(at, S)
  BY DEF SumAt
<1> QED BY <1>1, <1>2, <1>3

LEMMA SumAtEmpty == ASSUME NEW f PROVE SumAt(f, {}) = 0
<1> DEFINE at(x) == f[x]
<1>1. MapThenSumSet(at, {}) = SumEnd(at, {})
  <2> HIDE DEF at
  <2> QED BY SetSumStep, FS_EmptySet
<1>2. SumEnd(at, {}) = 0
  BY DEF SumEnd
<1>3. SumAt(f, {}) = MapThenSumSet(at, {})
  BY DEF SumAt
<1> QED BY <1>1, <1>2, <1>3

\* Two functions that agree on a set have one sum over it.
LEMMA SumsAgree ==
    ASSUME NEW f, NEW g, NEW S, IsFiniteSet(S), \A x \in S : f[x] = g[x]
    PROVE  SumAt(f, S) = SumAt(g, S)
<1> DEFINE good == {T \in SUBSET S : SumAt(f, T) = SumAt(g, T)}
<1>1. {} \in good
  BY SumAtEmpty
<1>2. Grows(AnyOf, S, good)
  <2> SUFFICES ASSUME NEW T \in SUBSET S, T # {}, T \ {AnyOf(T)} \in good PROVE T \in good
    BY DEF Grows
  <2>1. AnyOf(T) \in T /\ IsFiniteSet(T)
    BY FS_Subset DEF AnyOf
  <2> QED BY <2>1, SumAtStep
<1> HIDE DEF good
<1>3. SUBSET S \subseteq good
  BY <1>1, <1>2, FoldInduction, AnyPicks
<1> QED BY <1>3 DEF good

\* A sum of an operator is one of a function.
LEMMA SumIsOfFunction ==
    ASSUME NEW f(_), NEW S, IsFiniteSet(S)
    PROVE  MapThenSumSet(f, S) = SumAt(OnSet(f, S), S)
<1> DEFINE F == OnSet(f, S)
           good == {T \in SUBSET S : MapThenSumSet(f, T) = SumAt(F, T)}
<1>0. \A x \in S : F[x] = f(x)
  BY DEF OnSet
<1> HIDE DEF F
<1>1. {} \in good
  <2>1. MapThenSumSet(f, {}) = SumEnd(f, {})
    BY SetSumStep, FS_EmptySet
  <2>2. SumEnd(f, {}) = 0
    BY DEF SumEnd
  <2> QED BY <2>1, <2>2, SumAtEmpty
<1>2. Grows(AnyOf, S, good)
  <2> SUFFICES ASSUME NEW T \in SUBSET S, T # {}, T \ {AnyOf(T)} \in good PROVE T \in good
    BY DEF Grows
  <2>1. AnyOf(T) \in T /\ IsFiniteSet(T)
    BY FS_Subset DEF AnyOf
  <2>2. MapThenSumSet(f, T) = SumEnd(f, T)
    BY <2>1, SetSumStep
  <2>3. SumEnd(f, T) = f(AnyOf(T)) + MapThenSumSet(f, T \ {AnyOf(T)})
    BY DEF SumEnd
  <2> QED BY <1>0, <2>1, <2>2, <2>3, SumAtStep
<1> HIDE DEF good
<1>3. SUBSET S \subseteq good
  BY <1>1, <1>2, FoldInduction, AnyPicks
<1>4. MapThenSumSet(f, S) = SumAt(F, S)
  BY <1>3 DEF good
<1> QED BY <1>4 DEF F

LEMMA SumAtOne ==
    ASSUME NEW f, NEW S, IsFiniteSet(S), \A x \in S : f[x] \in Int
    PROVE  /\ SumAt(f, S) \in Int
           /\ \A x \in S : SumAt(f, S) = f[x] + SumAt(f, S \ {x}) /\ SumAt(f, S \ {x}) \in Int
<1> DEFINE One(T) == /\ SumAt(f, T) \in Int
                     /\ \A x \in T : SumAt(f, T) = f[x] + SumAt(f, T \ {x}) /\ SumAt(f, T \ {x}) \in Int
           Small(n) == \A T \in SUBSET S : Cardinality(T) <= n => One(T)
           good == {n \in Nat : Small(n)}
<1>1. 0 \in good
  <2> SUFFICES ASSUME NEW T \in SUBSET S, Cardinality(T) <= 0 PROVE One(T)
    OBVIOUS
  <2>1. IsFiniteSet(T) /\ Cardinality(T) \in Nat
    BY FS_Subset, FS_CardinalityType
  <2>2. T = {}
    BY <2>1, FS_EmptySet
  <2> QED BY <2>2, SumAtEmpty
<1>2. ASSUME NEW n \in Nat, n \in good PROVE n + 1 \in good
  <2> SUFFICES ASSUME NEW T \in SUBSET S, Cardinality(T) <= n + 1 PROVE One(T)
    OBVIOUS
  <2>0. IsFiniteSet(T) /\ Cardinality(T) \in Nat
    BY FS_Subset, FS_CardinalityType
  <2>1. CASE T = {}
    BY <2>1, SumAtEmpty
  <2>2. CASE T # {}
    <3> DEFINE l == AnyOf(T)
    <3>1. l \in T
      BY <2>2 DEF AnyOf
    <3> HIDE DEF l
    <3>2. ASSUME NEW x \in T PROVE T \ {x} \in SUBSET S /\ One(T \ {x})
      <4>1. Cardinality(T) = Cardinality(T \ {x}) + 1 /\ Cardinality(T \ {x}) \in Nat
        BY <2>0, OneLess
      <4>2. T \ {x} \in SUBSET S /\ Cardinality(T \ {x}) <= n
        BY <4>1
      <4> QED BY <4>2, <1>2
    <3>3. SumAt(f, T) = f[l] + SumAt(f, T \ {l})
      BY <2>0, <2>2, SumAtStep DEF l
    <3>4. SumAt(f, T \ {l}) \in Int /\ f[l] \in Int
      BY <3>1, <3>2
    <3>5. SumAt(f, T) \in Int
      BY <3>3, <3>4
    <3>6. ASSUME NEW x \in T PROVE SumAt(f, T) = f[x] + SumAt(f, T \ {x}) /\ SumAt(f, T \ {x}) \in Int
      <4>1. CASE x = l
        BY <4>1, <3>3, <3>4
      <4>2. CASE x # l
        <5> DEFINE both == T \ {x, l}
        <5>1. x \in T \ {l} /\ l \in T \ {x} /\ both = (T \ {l}) \ {x} /\ both = (T \ {x}) \ {l}
          BY <4>2, <3>1
        <5>2. SumAt(f, T \ {l}) = f[x] + SumAt(f, both) /\ SumAt(f, both) \in Int
          <6> HIDE DEF both
          <6>1. One(T \ {l})
            BY <3>1, <3>2
          <6> QED BY <5>1, <6>1
        <5>3. SumAt(f, T \ {x}) = f[l] + SumAt(f, both)
          <6> HIDE DEF both
          <6>1. One(T \ {x})
            BY <3>2
          <6> QED BY <5>1, <6>1
        <5>4. f[x] \in Int
          OBVIOUS
        <5> HIDE DEF both
        <5> QED BY <3>3, <3>4, <5>2, <5>3, <5>4
      <4> QED BY <4>1, <4>2
    <3> QED BY <3>5, <3>6
  <2> QED BY <2>1, <2>2
<1> HIDE DEF good
<1>3. Cardinality(S) \in good
  BY <1>1, <1>2, NaturalsFromZero, FS_CardinalityType
<1>4. Small(Cardinality(S)) /\ Cardinality(S) \in Nat
  BY <1>3 DEF good
<1>5. One(S)
  BY <1>4
<1> QED BY <1>5

\* What holds of a part of S holds of it with one element more.
Extends(S, good) ==
    \A T \in SUBSET S : \A x \in S : T \in good /\ x \notin T => T \cup {x} \in good

\* Induction over the subsets of a finite set.
LEMMA SubsetInduction ==
    ASSUME NEW S, IsFiniteSet(S), NEW good, {} \in good, Extends(S, good)
    PROVE  SUBSET S \subseteq good
<1>1. Grows(AnyOf, S, good)
  <2> SUFFICES ASSUME NEW T \in SUBSET S, T # {}, T \ {AnyOf(T)} \in good PROVE T \in good
    BY DEF Grows
  <2>1. AnyOf(T) \in T
    BY DEF AnyOf
  <2>2. (T \ {AnyOf(T)}) \cup {AnyOf(T)} = T
    BY <2>1
  <2>3. (T \ {AnyOf(T)}) \cup {AnyOf(T)} \in good
    BY <2>1 DEF Extends
  <2> QED BY <2>2, <2>3
<1> QED BY <1>1, FoldInduction, AnyPicks

\* A sum with one element more.
LEMMA SumAtMore ==
    ASSUME NEW f, NEW S, IsFiniteSet(S), NEW x, x \notin S, f[x] \in Int, \A y \in S : f[y] \in Int
    PROVE  SumAt(f, S \cup {x}) = f[x] + SumAt(f, S) /\ SumAt(f, S) \in Int
<1>1. IsFiniteSet(S \cup {x})
  BY FS_AddElement
<1>2. (S \cup {x}) \ {x} = S
  OBVIOUS
<1>3. \A y \in S \cup {x} : f[y] \in Int
  OBVIOUS
<1>4. SumAt(f, S \cup {x}) = f[x] + SumAt(f, (S \cup {x}) \ {x})
  BY <1>1, <1>3, SumAtOne
<1> QED BY <1>2, <1>4, SumAtOne

\* The sum over two sets that have nothing in common.
LEMMA SumAtUnion ==
    ASSUME NEW f, NEW A, NEW B, IsFiniteSet(A), IsFiniteSet(B), A \cap B = {},
           \A x \in A \cup B : f[x] \in Int
    PROVE  SumAt(f, A \cup B) = SumAt(f, A) + SumAt(f, B)
<1> DEFINE good == {T \in SUBSET B : SumAt(f, A \cup T) = SumAt(f, A) + SumAt(f, T)}
<1>0. SumAt(f, A) \in Int
  BY SumAtOne
<1>1. {} \in good
  BY <1>0, SumAtEmpty
<1>2. ASSUME NEW T \in SUBSET B, NEW x \in B, T \in good, x \notin T PROVE T \cup {x} \in good
  <2>1. IsFiniteSet(T) /\ IsFiniteSet(A \cup T)
    BY FS_Subset, FS_Union
  <2>2. SumAt(f, T \cup {x}) = f[x] + SumAt(f, T) /\ SumAt(f, T) \in Int
    BY <2>1, <1>2, SumAtMore
  <2>3. SumAt(f, (A \cup T) \cup {x}) = f[x] + SumAt(f, A \cup T)
    BY <2>1, <1>2, SumAtMore
  <2>4. A \cup (T \cup {x}) = (A \cup T) \cup {x}
    OBVIOUS
  <2>5. SumAt(f, A \cup (T \cup {x})) = f[x] + SumAt(f, A \cup T)
    BY <2>3, <2>4
  <2>6. f[x] \in Int
    OBVIOUS
  <2> QED BY <1>0, <1>2, <2>2, <2>5, <2>6
<1> HIDE DEF good
<1>3. Extends(B, good)
  BY <1>2 DEF Extends
<1>4. SUBSET B \subseteq good
  BY <1>1, <1>3, SubsetInduction
<1> QED BY <1>4 DEF good

\* The sum of a linear combination.
LEMMA SumAtLinear ==
    ASSUME NEW f, NEW g, NEW h, NEW S, IsFiniteSet(S), NEW k \in Int,
           \A x \in S : f[x] \in Int /\ g[x] \in Int /\ h[x] = f[x] + k * g[x]
    PROVE  SumAt(h, S) = SumAt(f, S) + k * SumAt(g, S)
<1> DEFINE good == {T \in SUBSET S : SumAt(h, T) = SumAt(f, T) + k * SumAt(g, T)}
<1>1. {} \in good
  <2>1. k * 0 = 0
    OBVIOUS
  <2> QED BY <2>1, SumAtEmpty
<1>2. ASSUME NEW T \in SUBSET S, NEW x \in S, T \in good, x \notin T PROVE T \cup {x} \in good
  <2>1. IsFiniteSet(T)
    BY FS_Subset
  <2>0. \A y \in S : h[y] \in Int
    <3> SUFFICES ASSUME NEW y \in S PROVE h[y] \in Int
      OBVIOUS
    <3>1. PICK a \in Int, b \in Int : a = f[y] /\ b = g[y]
      OBVIOUS
    <3>2. k * b \in Int
      OBVIOUS
    <3> QED BY <3>1, <3>2
  <2>2. SumAt(f, T \cup {x}) = f[x] + SumAt(f, T) /\ SumAt(f, T) \in Int
    BY <2>1, <1>2, SumAtMore
  <2>3. SumAt(g, T \cup {x}) = g[x] + SumAt(g, T) /\ SumAt(g, T) \in Int
    BY <2>1, <1>2, SumAtMore
  <2>4. SumAt(h, T \cup {x}) = h[x] + SumAt(h, T)
    BY <2>0, <2>1, <1>2, SumAtMore
  <2>5. PICK a \in Int, b \in Int, c \in Int, d \in Int :
          a = f[x] /\ b = g[x] /\ c = SumAt(f, T) /\ d = SumAt(g, T)
    BY <2>2, <2>3
  <2>6. (a + k * b) + (c + k * d) = (a + c) + k * (b + d)
    OBVIOUS
  <2>7. h[x] = a + k * b /\ SumAt(h, T) = c + k * d
    BY <1>2, <2>5
  <2> QED BY <2>2, <2>3, <2>4, <2>5, <2>6, <2>7
<1> HIDE DEF good
<1>3. Extends(S, good)
  BY <1>2 DEF Extends
<1>4. S \in good
  BY <1>1, <1>3, SubsetInduction
<1> QED BY <1>4 DEF good

\* A sum of smaller numbers is smaller, strictly if one of them is.
LEMMA SumAtMonotone ==
    ASSUME NEW f, NEW g, NEW S, IsFiniteSet(S),
           \A x \in S : f[x] \in Int /\ g[x] \in Int /\ f[x] <= g[x]
    PROVE  SumAt(f, S) <= SumAt(g, S)
<1> DEFINE good == {T \in SUBSET S : SumAt(f, T) <= SumAt(g, T)}
<1>1. {} \in good
  BY SumAtEmpty
<1>2. ASSUME NEW T \in SUBSET S, NEW x \in S, T \in good, x \notin T PROVE T \cup {x} \in good
  <2>1. IsFiniteSet(T)
    BY FS_Subset
  <2>2. SumAt(f, T \cup {x}) = f[x] + SumAt(f, T) /\ SumAt(f, T) \in Int
    BY <2>1, <1>2, SumAtMore
  <2>3. SumAt(g, T \cup {x}) = g[x] + SumAt(g, T) /\ SumAt(g, T) \in Int
    BY <2>1, <1>2, SumAtMore
  <2>4. f[x] \in Int /\ g[x] \in Int /\ f[x] <= g[x]
    OBVIOUS
  <2> QED BY <1>2, <2>2, <2>3, <2>4
<1> HIDE DEF good
<1>3. Extends(S, good)
  BY <1>2 DEF Extends
<1>4. S \in good
  BY <1>1, <1>3, SubsetInduction
<1> QED BY <1>4 DEF good

LEMMA SumAtStrict ==
    ASSUME NEW f, NEW g, NEW S, IsFiniteSet(S),
           \A x \in S : f[x] \in Int /\ g[x] \in Int /\ f[x] <= g[x],
           NEW x \in S, f[x] < g[x]
    PROVE  SumAt(f, S) < SumAt(g, S)
<1>1. IsFiniteSet(S \ {x})
  BY FS_RemoveElement
<1>2. SumAt(f, S \ {x}) <= SumAt(g, S \ {x})
  BY <1>1, SumAtMonotone
<1>3. SumAt(f, S) = f[x] + SumAt(f, S \ {x}) /\ SumAt(f, S \ {x}) \in Int
  BY SumAtOne
<1>4. SumAt(g, S) = g[x] + SumAt(g, S \ {x}) /\ SumAt(g, S \ {x}) \in Int
  BY SumAtOne
<1>5. f[x] \in Int /\ g[x] \in Int
  OBVIOUS
<1> QED BY <1>2, <1>3, <1>4, <1>5

LEMMA SumAtZeros ==
    ASSUME NEW f, NEW S, IsFiniteSet(S), \A x \in S : f[x] = 0
    PROVE  SumAt(f, S) = 0
<1> DEFINE good == {T \in SUBSET S : SumAt(f, T) = 0}
<1>1. {} \in good
  BY SumAtEmpty
<1>2. ASSUME NEW T \in SUBSET S, NEW x \in S, T \in good, x \notin T PROVE T \cup {x} \in good
  <2>1. IsFiniteSet(T)
    BY FS_Subset
  <2>2. SumAt(f, T \cup {x}) = f[x] + SumAt(f, T)
    BY <2>1, <1>2, SumAtMore
  <2> QED BY <1>2, <2>2
<1> HIDE DEF good
<1>3. Extends(S, good)
  BY <1>2 DEF Extends
<1>4. S \in good
  BY <1>1, <1>3, SubsetInduction
<1> QED BY <1>4 DEF good

LEMMA SumAtNat ==
    ASSUME NEW f, NEW S, IsFiniteSet(S), \A x \in S : f[x] \in Nat
    PROVE  SumAt(f, S) \in Nat
<1> DEFINE g == [x \in S |-> 0]
<1>1. \A x \in S : g[x] = 0
  OBVIOUS
<1> HIDE DEF g
<1>2. SumAt(g, S) = 0
  BY <1>1, SumAtZeros
<1>3. \A x \in S : g[x] \in Int /\ f[x] \in Int /\ g[x] <= f[x]
  BY <1>1
<1>4. SumAt(g, S) <= SumAt(f, S)
  BY <1>3, SumAtMonotone
<1>5. SumAt(f, S) \in Int
  BY <1>3, SumAtOne
<1> QED BY <1>2, <1>4, <1>5

\* As often the same as the set has elements.
LEMMA SumAtConstant ==
    ASSUME NEW f, NEW S, IsFiniteSet(S), NEW k \in Int, \A x \in S : f[x] = k
    PROVE  SumAt(f, S) = k * Cardinality(S)
<1> DEFINE good == {T \in SUBSET S : SumAt(f, T) = k * Cardinality(T)}
<1>1. {} \in good
  <2>1. k * 0 = 0
    OBVIOUS
  <2> QED BY <2>1, SumAtEmpty, FS_EmptySet
<1>2. ASSUME NEW T \in SUBSET S, NEW x \in S, T \in good, x \notin T PROVE T \cup {x} \in good
  <2>1. IsFiniteSet(T) /\ Cardinality(T) \in Nat
    BY FS_Subset, FS_CardinalityType
  <2>2. SumAt(f, T \cup {x}) = f[x] + SumAt(f, T)
    BY <2>1, <1>2, SumAtMore
  <2>3. Cardinality(T \cup {x}) = Cardinality(T) + 1
    BY <2>1, <1>2, FS_AddElement
  <2>4. PICK n \in Nat : n = Cardinality(T)
    BY <2>1
  <2>5. k + k * n = k * (n + 1)
    OBVIOUS
  <2> QED BY <1>2, <2>2, <2>3, <2>4, <2>5
<1> HIDE DEF good
<1>3. Extends(S, good)
  BY <1>2 DEF Extends
<1>4. S \in good
  BY <1>1, <1>3, SubsetInduction
<1> QED BY <1>4 DEF good
=============================================================================
