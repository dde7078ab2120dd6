------------------------------ MODULE SumTheorems ------------------------------
(***************************************************************************)
(* Facts about SumFunctionOnSet, the sum of the values of a function over  *)
(* a finite set.  The operator is a recursive function over the subsets of *)
(* the set; its equation, and what follows from it, is proved from the     *)
(* well-foundedness of the strict-subset ordering, through an induction    *)
(* over sets of sets that needs no operator parameter.                     *)
(***************************************************************************)
EXTENDS Integers, FiniteSets, Functions, FiniteSetTheorems, WellFoundedInduction, TLAPS

\* Induction over finite sets, for a set of sets.
LEMMA SetInduction ==
  ASSUME NEW S, IsFiniteSet(S), NEW Good,
         {} \in Good,
         \A T \in Good : \A x \in S \ T : T \cup {x} \in Good
  PROVE  S \in Good
<1> DEFINE R == StrictSubsetOrdering(S)
           Bad == {T \in SUBSET S : S \ T \in Good}
<1>1. IsWellFoundedOn(R, SUBSET S)
  BY FS_StrictSubsetOrderingWellFounded, FS_FiniteSubsetsOfFinite
<1>2. S \in Bad
  <2>1. S \ S = {}
    OBVIOUS
  <2> QED BY <2>1
<1>3. Bad \subseteq SUBSET S
  OBVIOUS
<1>4. PICK T \in Bad : \A U \in Bad : ~(<<U, T>> \in R)
  <2> HIDE DEF Bad, R
  <2> QED BY <1>1, <1>2, <1>3, WFMin, Zenon
<1>5. T = {}
  <2> SUFFICES ASSUME NEW x \in T PROVE FALSE
    OBVIOUS
  <2>1. S \ (T \ {x}) = (S \ T) \cup {x}
    OBVIOUS
  <2>2. T \ {x} \in Bad
    BY <2>1
  <2>3. <<T \ {x}, T>> \in R
    BY DEF StrictSubsetOrdering
  <2> QED BY <1>4, <2>2, <2>3
<1>6. S \ T = S
  BY <1>5
<1> QED BY <1>6

-----------------------------------------------------------------------------
(* The recursive function exists and is unique.                            *)

Choice(T) == CHOOSE x \in T : TRUE

Solves(g, f, D) ==
    g = [T \in D |-> IF T = {} THEN 0 ELSE f[Choice(T)] + g[T \ {Choice(T)}]]

Table(f, S) == CHOOSE g : Solves(g, f, SUBSET S)

LEMMA SumIsTable ==
  ASSUME NEW f, NEW S
  PROVE  SumFunctionOnSet(f, S) = Table(f, S)[S]
BY DEF SumFunctionOnSet, FoldFunctionOnSet, MapThenFoldSet, Table, Solves, Choice

LEMMA ChoiceIn ==
  ASSUME NEW T, T # {}
  PROVE  Choice(T) \in T
BY DEF Choice

\* The subsets of S with at most n elements.
UpTo(S, n) == {T \in SUBSET S : Cardinality(T) <= n}

LEMMA SmallSolution ==
  ASSUME NEW S, IsFiniteSet(S), NEW f, NEW n \in Nat,
         NEW g, Solves(g, f, UpTo(S, n))
  PROVE  \E h : Solves(h, f, UpTo(S, n + 1))
<1> DEFINE h == [T \in UpTo(S, n + 1) |->
                    IF T = {} THEN 0 ELSE f[Choice(T)] + g[T \ {Choice(T)}]]
<1>1. ASSUME NEW T \in UpTo(S, n + 1), T # {}
      PROVE  T \ {Choice(T)} \in UpTo(S, n) /\ T \ {Choice(T)} \in UpTo(S, n + 1)
  <2>1. IsFiniteSet(T) /\ T \subseteq S /\ Cardinality(T) <= n + 1
    BY FS_Subset DEF UpTo
  <2>2. Choice(T) \in T
    BY <1>1, ChoiceIn
  <2>3. Cardinality(T) \in Nat /\ Cardinality(T \ {Choice(T)}) = Cardinality(T) - 1
    BY <2>1, <2>2, FS_RemoveElement, FS_CardinalityType
  <2> QED BY <2>1, <2>3 DEF UpTo
<1>2. ASSUME NEW V \in UpTo(S, n), V \in UpTo(S, n + 1)
      PROVE  h[V] = g[V]
  BY <1>2 DEF Solves
<1>3. ASSUME NEW T \in UpTo(S, n + 1), T # {}
      PROVE  h[T \ {Choice(T)}] = g[T \ {Choice(T)}]
  <2> HIDE DEF h
  <2> QED BY <1>1, <1>2, <1>3
<1>4. Solves(h, f, UpTo(S, n + 1))
  <2>1. \A T \in UpTo(S, n + 1) :
           (IF T = {} THEN 0 ELSE f[Choice(T)] + g[T \ {Choice(T)}])
           = (IF T = {} THEN 0 ELSE f[Choice(T)] + h[T \ {Choice(T)}])
    <3> HIDE DEF h
    <3> QED BY <1>3
  <2>2. h = [T \in UpTo(S, n + 1) |->
                    IF T = {} THEN 0 ELSE f[Choice(T)] + h[T \ {Choice(T)}]]
    BY <2>1, Zenon
  <2> QED BY <2>2 DEF Solves
<1> QED BY <1>4

LEMMA NatSetInduction ==
  ASSUME NEW Good, 0 \in Good, \A n \in Nat : n \in Good => n + 1 \in Good
  PROVE  Nat \subseteq Good
<1> DEFINE R == OpToRel(<, Nat)
           Bad == Nat \ Good
<1> SUFFICES ASSUME Bad # {} PROVE FALSE
  OBVIOUS
<1>1. PICK n \in Bad : \A m \in Bad : ~(<<m, n>> \in R)
  <2>1. IsWellFoundedOn(R, Nat)
    BY NatLessThanWellFounded
  <2>2. Bad \subseteq Nat
    OBVIOUS
  <2> HIDE DEF Bad, R
  <2> QED BY <2>1, <2>2, WFMin, Zenon
<1>2. n \in Nat /\ n # 0
  OBVIOUS
<1>3. n - 1 \in Bad
  <2>1. n - 1 \in Nat /\ (n - 1) + 1 = n
    BY <1>2
  <2> QED BY <2>1
<1>4. <<n - 1, n>> \in R
  BY <1>2 DEF OpToRel
<1> QED BY <1>1, <1>3, <1>4

LEMMA TableSolves ==
  ASSUME NEW S, IsFiniteSet(S), NEW f
  PROVE  Solves(Table(f, S), f, SUBSET S)
<1> DEFINE Good == {n \in Nat : \E g : Solves(g, f, UpTo(S, n))}
<1>1. 0 \in Good
  <2> DEFINE g == [T \in UpTo(S, 0) |-> 0]
  <2>1. \A T \in UpTo(S, 0) : T = {}
    BY FS_Subset, FS_EmptySet, FS_CardinalityType DEF UpTo
  <2>2. Solves(g, f, UpTo(S, 0))
    BY <2>1 DEF Solves
  <2> QED BY <2>2
<1>2. \A n \in Nat : n \in Good => n + 1 \in Good
  BY SmallSolution
<1>3. Nat \subseteq Good
  <2> HIDE DEF Good
  <2> QED BY <1>1, <1>2, NatSetInduction
<1>4. Cardinality(S) \in Nat
  BY FS_CardinalityType
<1>5. UpTo(S, Cardinality(S)) = SUBSET S
  BY FS_Subset DEF UpTo
<1>6. \E g : Solves(g, f, SUBSET S)
  BY <1>3, <1>4, <1>5
<1> QED BY <1>6 DEF Table

LEMMA TablesAgree ==
  ASSUME NEW S, IsFiniteSet(S), NEW T \in SUBSET S, NEW f
  PROVE  Table(f, S)[T] = Table(f, T)[T]
<1> DEFINE g == Table(f, S)
           h == Table(f, T)
           Good == {n \in Nat : \A U \in SUBSET T : Cardinality(U) <= n => g[U] = h[U]}
<1>1. IsFiniteSet(T)
  BY FS_Subset
<1>2. Solves(g, f, SUBSET S) /\ Solves(h, f, SUBSET T)
  BY <1>1, TableSolves
<1>3. ASSUME NEW U \in SUBSET T
      PROVE  /\ g[U] = IF U = {} THEN 0 ELSE f[Choice(U)] + g[U \ {Choice(U)}]
             /\ h[U] = IF U = {} THEN 0 ELSE f[Choice(U)] + h[U \ {Choice(U)}]
  <2> HIDE DEF g, h
  <2> QED BY <1>2 DEF Solves
<1> HIDE DEF g, h
<1>4. 0 \in Good
  <2>1. \A U \in SUBSET T : Cardinality(U) <= 0 => U = {}
    BY <1>1, FS_Subset, FS_EmptySet, FS_CardinalityType
  <2> QED BY <2>1, <1>3
<1>5. ASSUME NEW n \in Nat, n \in Good
      PROVE  n + 1 \in Good
  <2> SUFFICES ASSUME NEW U \in SUBSET T, Cardinality(U) <= n + 1, U # {}
               PROVE  g[U] = h[U]
    BY <1>3
  <2>1. IsFiniteSet(U) /\ Cardinality(U) \in Nat
    BY <1>1, FS_Subset, FS_CardinalityType
  <2>2. Choice(U) \in U
    BY ChoiceIn
  <2>3. Cardinality(U \ {Choice(U)}) <= n
    <3>1. Cardinality(U \ {Choice(U)}) = Cardinality(U) - 1
      BY <2>1, <2>2, FS_RemoveElement
    <3> QED BY <2>1, <3>1
  <2>4. g[U \ {Choice(U)}] = h[U \ {Choice(U)}]
    BY <1>5, <2>3
  <2> QED BY <1>3, <2>4
<1>6. Cardinality(T) \in Good
  <2> HIDE DEF Good
  <2> QED BY <1>1, <1>4, <1>5, NatSetInduction, FS_CardinalityType
<1>7. Cardinality(T) <= Cardinality(T)
  BY <1>1, FS_CardinalityType
<1> QED BY <1>6, <1>7 DEF g, h

-----------------------------------------------------------------------------
(* Sums.                                                                   *)

\* The sum over no elements.
LEMMA SumEmpty ==
  ASSUME NEW f
  PROVE  SumFunctionOnSet(f, {}) = 0
<1>1. Solves(Table(f, {}), f, SUBSET {})
  BY TableSolves, FS_EmptySet
<1> QED BY <1>1, SumIsTable DEF Solves

\* The equation of the recursive function.
LEMMA SumUnfold ==
  ASSUME NEW f, NEW S, IsFiniteSet(S), S # {}
  PROVE  SumFunctionOnSet(f, S) = f[Choice(S)] + SumFunctionOnSet(f, S \ {Choice(S)})
<1>1. Solves(Table(f, S), f, SUBSET S)
  BY TableSolves
<1>2. Table(f, S)[S] = f[Choice(S)] + Table(f, S)[S \ {Choice(S)}]
  BY <1>1 DEF Solves
<1>3. S \ {Choice(S)} \in SUBSET S
  OBVIOUS
<1>4. Table(f, S)[S \ {Choice(S)}] = Table(f, S \ {Choice(S)})[S \ {Choice(S)}]
  BY <1>3, TablesAgree
<1> QED BY <1>2, <1>4, SumIsTable

\* A sum of integers is an integer.
LEMMA SumInt ==
  ASSUME NEW f, NEW S, IsFiniteSet(S), \A x \in S : f[x] \in Int
  PROVE  SumFunctionOnSet(f, S) \in Int
<1> DEFINE Good == {n \in Nat : \A U \in SUBSET S :
                       Cardinality(U) = n => SumFunctionOnSet(f, U) \in Int}
<1>1. 0 \in Good
  BY FS_Subset, FS_EmptySet, SumEmpty
<1>2. ASSUME NEW n \in Nat, n \in Good
      PROVE  n + 1 \in Good
  <2> SUFFICES ASSUME NEW U \in SUBSET S, Cardinality(U) = n + 1
               PROVE  SumFunctionOnSet(f, U) \in Int
    OBVIOUS
  <2>1. IsFiniteSet(U) /\ U # {}
    BY FS_Subset, FS_EmptySet
  <2>2. Choice(U) \in U
    BY <2>1, ChoiceIn
  <2>3. Cardinality(U \ {Choice(U)}) = (n + 1) - 1
    BY <2>1, <2>2, FS_RemoveElement
  <2>4. SumFunctionOnSet(f, U \ {Choice(U)}) \in Int
    BY <1>2, <2>3
  <2> QED BY <2>1, <2>2, <2>4, SumUnfold
<1>3. Cardinality(S) \in Good
  <2> HIDE DEF Good
  <2> QED BY <1>1, <1>2, NatSetInduction, FS_CardinalityType
<1> QED BY <1>3

\* Any element can be taken out first.
LEMMA SumRemove ==
  ASSUME NEW f, NEW S, IsFiniteSet(S), \A x \in S : f[x] \in Int, NEW e \in S
  PROVE  SumFunctionOnSet(f, S) = f[e] + SumFunctionOnSet(f, S \ {e})
<1> DEFINE Sum(U) == SumFunctionOnSet(f, U)
           Good == {n \in Nat : \A U \in SUBSET S :
                       Cardinality(U) = n => \A x \in U : Sum(U) = f[x] + Sum(U \ {x})}
<1>1. 0 \in Good
  BY FS_Subset, FS_EmptySet
<1>2. ASSUME NEW n \in Nat, n \in Good
      PROVE  n + 1 \in Good
  <2> SUFFICES ASSUME NEW U \in SUBSET S, Cardinality(U) = n + 1, NEW x \in U
               PROVE  Sum(U) = f[x] + Sum(U \ {x})
    OBVIOUS
  <2>1. IsFiniteSet(U)
    BY FS_Subset
  <2>2. PICK c \in U : Sum(U) = f[c] + Sum(U \ {c})
    BY <2>1, ChoiceIn, SumUnfold
  <2>4. CASE c = x
    BY <2>2, <2>4
  <2>5. CASE c # x
    <3>1. Cardinality(U \ {c}) = n /\ Cardinality(U \ {x}) = n
      <4>1. Cardinality(U \ {c}) = Cardinality(U) - 1
        BY <2>1, FS_RemoveElement, Zenon
      <4>2. Cardinality(U \ {x}) = (n + 1) - 1
        BY <2>1, FS_RemoveElement
      <4> QED BY <4>1, <4>2
    <3>2. Sum(U \ {c}) = f[x] + Sum((U \ {c}) \ {x})
      BY <1>2, <2>5, <3>1
    <3>3. Sum(U \ {x}) = f[c] + Sum((U \ {x}) \ {c})
      BY <1>2, <2>5, <3>1
    <3>4. Sum((U \ {c}) \ {x}) = Sum((U \ {x}) \ {c})
      <4>1. (U \ {c}) \ {x} = (U \ {x}) \ {c}
        OBVIOUS
      <4> QED BY <4>1, Zenon
    <3>5. Sum((U \ {x}) \ {c}) \in Int
      BY <2>1, SumInt, FS_Subset
    <3>6. f[c] \in Int /\ f[x] \in Int
      OBVIOUS
    <3> QED BY <2>2, <3>2, <3>3, <3>4, <3>5, <3>6
  <2> QED BY <2>4, <2>5
<1>3. Cardinality(S) \in Good
  <2> HIDE DEF Good
  <2> QED BY <1>1, <1>2, NatSetInduction, FS_CardinalityType
<1> QED BY <1>3

\* A new element adds its value.
LEMMA SumAdd ==
  ASSUME NEW f, NEW S, IsFiniteSet(S), NEW e, e \notin S, \A x \in S \cup {e} : f[x] \in Int
  PROVE  SumFunctionOnSet(f, S \cup {e}) = f[e] + SumFunctionOnSet(f, S)
<1>1. IsFiniteSet(S \cup {e})
  BY FS_AddElement
<1>2. (S \cup {e}) \ {e} = S
  OBVIOUS
<1> QED BY <1>1, <1>2, SumRemove

\* The sum depends on the values at the set's elements.
LEMMA SumSame ==
  ASSUME NEW f, NEW g, NEW S, IsFiniteSet(S), \A x \in S : f[x] = g[x]
  PROVE  SumFunctionOnSet(f, S) = SumFunctionOnSet(g, S)
<1> DEFINE Good == {n \in Nat : \A U \in SUBSET S :
                       Cardinality(U) = n => SumFunctionOnSet(f, U) = SumFunctionOnSet(g, U)}
<1>1. 0 \in Good
  BY FS_Subset, FS_EmptySet, SumEmpty
<1>2. ASSUME NEW n \in Nat, n \in Good
      PROVE  n + 1 \in Good
  <2> SUFFICES ASSUME NEW U \in SUBSET S, Cardinality(U) = n + 1
               PROVE  SumFunctionOnSet(f, U) = SumFunctionOnSet(g, U)
    OBVIOUS
  <2>1. IsFiniteSet(U) /\ U # {}
    BY FS_Subset, FS_EmptySet
  <2>2. Choice(U) \in U
    BY <2>1, ChoiceIn
  <2>3. Cardinality(U \ {Choice(U)}) = (n + 1) - 1
    BY <2>1, <2>2, FS_RemoveElement
  <2>4. SumFunctionOnSet(f, U \ {Choice(U)}) = SumFunctionOnSet(g, U \ {Choice(U)})
    BY <1>2, <2>3
  <2> QED BY <2>1, <2>2, <2>4, SumUnfold
<1>3. Cardinality(S) \in Good
  <2> HIDE DEF Good
  <2> QED BY <1>1, <1>2, NatSetInduction, FS_CardinalityType
<1> QED BY <1>3

\* A sum over a set that gains an element and keeps the values of the others.
LEMMA SumGrow ==
  ASSUME NEW f, NEW g, NEW S, IsFiniteSet(S), NEW e, e \notin S, g[e] \in Int,
         \A x \in S : f[x] \in Int /\ g[x] = f[x]
  PROVE  SumFunctionOnSet(g, S \cup {e}) = SumFunctionOnSet(f, S) + g[e]
<1>1. SumFunctionOnSet(g, S \cup {e}) = g[e] + SumFunctionOnSet(g, S)
  BY SumAdd
<1>2. SumFunctionOnSet(g, S) = SumFunctionOnSet(f, S)
  BY SumSame
<1>3. SumFunctionOnSet(f, S) \in Int
  BY SumInt
<1> QED BY <1>1, <1>2, <1>3

\* A change at one element changes the sum by as much.
LEMMA SumChange ==
  ASSUME NEW f, NEW g, NEW S, IsFiniteSet(S), NEW e \in S,
         \A x \in S : f[x] \in Int /\ g[x] \in Int,
         \A x \in S \ {e} : f[x] = g[x]
  PROVE  SumFunctionOnSet(g, S) = SumFunctionOnSet(f, S) + g[e] - f[e]
<1>1. IsFiniteSet(S \ {e})
  BY FS_Subset
<1>2. SumFunctionOnSet(f, S \ {e}) = SumFunctionOnSet(g, S \ {e})
  BY <1>1, SumSame
<1>3. SumFunctionOnSet(f, S \ {e}) \in Int
  BY <1>1, SumInt
<1> QED BY <1>2, <1>3, SumRemove

\* Sums of differences and of sums of functions.
LEMMA SumPlus ==
  ASSUME NEW f, NEW g, NEW h, NEW S, IsFiniteSet(S),
         \A x \in S : f[x] \in Int /\ g[x] \in Int /\ h[x] = f[x] + g[x]
  PROVE  SumFunctionOnSet(h, S) = SumFunctionOnSet(f, S) + SumFunctionOnSet(g, S)
<1> DEFINE Good == {U \in SUBSET S :
              SumFunctionOnSet(h, U) = SumFunctionOnSet(f, U) + SumFunctionOnSet(g, U)}
<1>1. {} \in Good
  BY SumEmpty
<1>2. ASSUME NEW T \in Good, NEW x \in S \ T
      PROVE  T \cup {x} \in Good
  <2>1. IsFiniteSet(T)
    BY FS_Subset
  <2>2. SumFunctionOnSet(f, T) \in Int /\ SumFunctionOnSet(g, T) \in Int
    BY <2>1, SumInt
  <2>3. /\ SumFunctionOnSet(f, T \cup {x}) = f[x] + SumFunctionOnSet(f, T)
        /\ SumFunctionOnSet(g, T \cup {x}) = g[x] + SumFunctionOnSet(g, T)
        /\ SumFunctionOnSet(h, T \cup {x}) = h[x] + SumFunctionOnSet(h, T)
    BY <2>1, SumAdd
  <2> QED BY <2>2, <2>3
<1>3. S \in Good
  <2> HIDE DEF Good
  <2> QED BY <1>1, <1>2, SetInduction
<1> QED BY <1>3

\* Zeros add nothing.
LEMMA SumZero ==
  ASSUME NEW f, NEW S, IsFiniteSet(S), \A x \in S : f[x] = 0
  PROVE  SumFunctionOnSet(f, S) = 0
<1> DEFINE Good == {U \in SUBSET S : SumFunctionOnSet(f, U) = 0}
<1>1. {} \in Good
  BY SumEmpty
<1>2. ASSUME NEW T \in Good, NEW x \in S \ T
      PROVE  T \cup {x} \in Good
  BY FS_Subset, SumAdd
<1>3. S \in Good
  <2> HIDE DEF Good
  <2> QED BY <1>1, <1>2, SetInduction
<1> QED BY <1>3

\* Larger values, larger sum.
LEMMA SumMonotonic ==
  ASSUME NEW f, NEW g, NEW S, IsFiniteSet(S),
         \A x \in S : f[x] \in Int /\ g[x] \in Int /\ f[x] <= g[x]
  PROVE  SumFunctionOnSet(f, S) <= SumFunctionOnSet(g, S)
<1> DEFINE Good == {U \in SUBSET S : SumFunctionOnSet(f, U) <= SumFunctionOnSet(g, U)}
<1>1. {} \in Good
  BY SumEmpty
<1>2. ASSUME NEW T \in Good, NEW x \in S \ T
      PROVE  T \cup {x} \in Good
  <2>1. IsFiniteSet(T)
    BY FS_Subset
  <2>2. SumFunctionOnSet(f, T) \in Int /\ SumFunctionOnSet(g, T) \in Int
    BY <2>1, SumInt
  <2>3. /\ SumFunctionOnSet(f, T \cup {x}) = f[x] + SumFunctionOnSet(f, T)
        /\ SumFunctionOnSet(g, T \cup {x}) = g[x] + SumFunctionOnSet(g, T)
    BY <2>1, SumAdd
  <2> QED BY <2>2, <2>3
<1>3. S \in Good
  <2> HIDE DEF Good
  <2> QED BY <1>1, <1>2, SetInduction
<1> QED BY <1>3

\* A sum of naturals is a natural.
LEMMA SumNat ==
  ASSUME NEW f, NEW S, IsFiniteSet(S), \A x \in S : f[x] \in Nat
  PROVE  SumFunctionOnSet(f, S) \in Nat
<1> DEFINE zero == [x \in S |-> 0]
<1>1. SumFunctionOnSet(zero, S) = 0
  BY SumZero
<1>2. SumFunctionOnSet(zero, S) <= SumFunctionOnSet(f, S)
  BY SumMonotonic
<1>3. SumFunctionOnSet(f, S) \in Int
  BY SumInt
<1> QED BY <1>1, <1>2, <1>3

\* Elements without value can be left out.
LEMMA SumSupport ==
  ASSUME NEW f, NEW S, IsFiniteSet(S), NEW T \in SUBSET S,
         \A x \in S : f[x] \in Int, \A x \in S \ T : f[x] = 0
  PROVE  SumFunctionOnSet(f, S) = SumFunctionOnSet(f, T)
<1> DEFINE Good == {U \in SUBSET (S \ T) :
                       SumFunctionOnSet(f, T \cup U) = SumFunctionOnSet(f, T)}
<1>1. IsFiniteSet(T) /\ IsFiniteSet(S \ T)
  BY FS_Subset
<1>2. {} \in Good
  <2>1. T \cup {} = T
    OBVIOUS
  <2> QED BY <2>1
<1>3. ASSUME NEW U \in Good, NEW x \in (S \ T) \ U
      PROVE  U \cup {x} \in Good
  <2>1. IsFiniteSet(T \cup U)
    BY FS_Subset
  <2>2. SumFunctionOnSet(f, (T \cup U) \cup {x}) = f[x] + SumFunctionOnSet(f, T \cup U)
    BY <2>1, SumAdd
  <2>3. T \cup (U \cup {x}) = (T \cup U) \cup {x}
    OBVIOUS
  <2>4. SumFunctionOnSet(f, T) \in Int
    BY <1>1, SumInt
  <2>5. f[x] = 0
    OBVIOUS
  <2>6. U \cup {x} \in SUBSET (S \ T)
    OBVIOUS
  <2>7. SumFunctionOnSet(f, T \cup (U \cup {x})) = SumFunctionOnSet(f, T)
    <3>1. SumFunctionOnSet(f, T \cup U) = SumFunctionOnSet(f, T)
      OBVIOUS
    <3>2. SumFunctionOnSet(f, T \cup (U \cup {x})) = SumFunctionOnSet(f, (T \cup U) \cup {x})
      BY <2>3, Zenon
    <3> QED BY <2>2, <2>4, <2>5, <3>1, <3>2
  <2> QED BY <2>6, <2>7
<1>4. S \ T \in Good
  <2> HIDE DEF Good
  <2> QED BY <1>1, <1>2, <1>3, SetInduction
<1>5. T \cup (S \ T) = S
  OBVIOUS
<1> QED BY <1>4, <1>5

\* A part of a sum of naturals is at most the sum.
LEMMA SumPart ==
  ASSUME NEW f, NEW S, IsFiniteSet(S), NEW T \in SUBSET S, \A x \in S : f[x] \in Nat
  PROVE  SumFunctionOnSet(f, T) <= SumFunctionOnSet(f, S)
<1> DEFINE g == [x \in S |-> IF x \in T THEN f[x] ELSE 0]
<1>1. SumFunctionOnSet(g, S) = SumFunctionOnSet(g, T)
  BY SumSupport
<1>2. SumFunctionOnSet(g, T) = SumFunctionOnSet(f, T)
  BY FS_Subset, SumSame
<1>3. SumFunctionOnSet(g, S) <= SumFunctionOnSet(f, S)
  BY SumMonotonic
<1> QED BY <1>1, <1>2, <1>3

\* Naturals that sum to zero are zero.
LEMMA SumNothing ==
  ASSUME NEW f, NEW S, IsFiniteSet(S), \A x \in S : f[x] \in Nat, SumFunctionOnSet(f, S) = 0,
         NEW x \in S
  PROVE  f[x] = 0
<1>1. IsFiniteSet(S \ {x})
  BY FS_Subset
<1>2. SumFunctionOnSet(f, S \ {x}) \in Nat
  BY <1>1, SumNat
<1>3. SumFunctionOnSet(f, S) = f[x] + SumFunctionOnSet(f, S \ {x})
  BY SumRemove
<1> QED BY <1>2, <1>3

\* A table sums up to the same by rows and by columns.
LEMMA SumSwap ==
  ASSUME NEW S, IsFiniteSet(S), NEW T, IsFiniteSet(T), NEW F, \A x \in S, y \in T : F[x][y] \in Int
  PROVE  SumFunctionOnSet([x \in S |-> SumFunctionOnSet(F[x], T)], S)
           = SumFunctionOnSet([y \in T |-> SumFunctionOnSet([x \in S |-> F[x][y]], S)], T)
<1> DEFINE rows == [x \in S |-> SumFunctionOnSet(F[x], T)]
           column(y) == [x \in S |-> F[x][y]]
           columns(U) == [y \in T |-> SumFunctionOnSet(column(y), U)]
           Good == {U \in SUBSET S : SumFunctionOnSet(rows, U) = SumFunctionOnSet(columns(U), T)}
<1>1. {} \in Good
  <2>1. \A y \in T : columns({})[y] = 0
    BY SumEmpty
  <2> HIDE DEF rows, columns
  <2>2. SumFunctionOnSet(columns({}), T) = 0
    BY <2>1, SumZero
  <2>3. SumFunctionOnSet(rows, {}) = 0
    BY SumEmpty
  <2> QED BY <2>2, <2>3
<1>2. ASSUME NEW U \in Good, NEW x \in S \ U
      PROVE  U \cup {x} \in Good
  <2>1. IsFiniteSet(U) /\ U \in SUBSET S
    BY FS_Subset
  <2>2. \A z \in S : rows[z] \in Int /\ rows[z] = SumFunctionOnSet(F[z], T)
    BY SumInt
  <2>3. ASSUME NEW y \in T
        PROVE  /\ columns(U \cup {x})[y] = F[x][y] + columns(U)[y]
               /\ columns(U)[y] \in Int
               /\ F[x][y] \in Int
    <3>1. \A z \in S : column(y)[z] \in Int /\ column(y)[z] = F[z][y]
      OBVIOUS
    <3>2. columns(U \cup {x})[y] = SumFunctionOnSet(column(y), U \cup {x})
            /\ columns(U)[y] = SumFunctionOnSet(column(y), U)
      OBVIOUS
    <3> HIDE DEF column, columns
    <3>3. SumFunctionOnSet(column(y), U \cup {x}) = column(y)[x] + SumFunctionOnSet(column(y), U)
      BY <2>1, <3>1, SumAdd
    <3>4. SumFunctionOnSet(column(y), U) \in Int
      BY <2>1, <3>1, SumInt
    <3> QED BY <3>1, <3>2, <3>3, <3>4
  <2> HIDE DEF rows, columns
  <2>4. SumFunctionOnSet(columns(U \cup {x}), T)
          = SumFunctionOnSet(F[x], T) + SumFunctionOnSet(columns(U), T)
    <3> DEFINE a == F[x]
               b == columns(U)
               c == columns(U \cup {x})
    <3>1. \A y \in T : a[y] \in Int /\ b[y] \in Int /\ c[y] = a[y] + b[y]
      BY <2>3
    <3> HIDE DEF a, b, c
    <3>2. SumFunctionOnSet(c, T) = SumFunctionOnSet(a, T) + SumFunctionOnSet(b, T)
      BY <3>1, SumPlus
    <3> QED BY <3>2 DEF a, b, c
  <2>5. SumFunctionOnSet(rows, U \cup {x}) = rows[x] + SumFunctionOnSet(rows, U)
    BY <2>1, <2>2, SumAdd
  <2>6. SumFunctionOnSet(rows, U \cup {x}) = SumFunctionOnSet(columns(U \cup {x}), T)
    BY <2>2, <2>4, <2>5
  <2>7. U \cup {x} \in SUBSET S
    BY <2>1
  <2> QED BY <2>6, <2>7
<1>3. S \in Good
  <2> HIDE DEF Good
  <2> QED BY <1>1, <1>2, SetInduction
<1> QED BY <1>3

-----------------------------------------------------------------------------
(* Sums over a whole table, and over a matrix by rows and by columns.      *)

LEMMA RowChange ==
    ASSUME NEW S, IsFiniteSet(S), NEW f, NEW g, DOMAIN f = S, DOMAIN g = S, NEW e \in S,
           \A x \in S : f[x] \in Int /\ g[x] \in Int,
           \A x \in S \ {e} : f[x] = g[x]
    PROVE  SumFunction(g) = SumFunction(f) + g[e] - f[e] /\ SumFunction(f) \in Int
  BY SumChange, SumInt DEF SumFunction

LEMMA RowsInt ==
    ASSUME NEW S, IsFiniteSet(S), NEW f, DOMAIN f = S, \A x \in S : f[x] \in Int
    PROVE  SumFunction(f) \in Int
  BY SumInt DEF SumFunction

LEMMA EmptySums ==
    ASSUME NEW S, IsFiniteSet(S), NEW f, DOMAIN f = S, \A x \in S : f[x] = 0
    PROVE  SumFunction(f) = 0
  BY SumZero DEF SumFunction

\* A matrix of amounts sums up the same by its rows and by its columns.
Column(F, S, y) == [x \in S |-> F[x][y]]
Matrix(F, S, T) == \A x \in S, y \in T : F[x][y] \in Int
AreRows(rows, F, S, T) == \A x \in S : rows[x] = SumFunctionOnSet(F[x], T)
AreColumns(columns, F, S, T) == \A y \in T : columns[y] = SumFunctionOnSet(Column(F, S, y), S)

LEMMA RowsAndColumns ==
    ASSUME NEW S, IsFiniteSet(S), NEW T, IsFiniteSet(T), NEW F, NEW rows, NEW columns,
           Matrix(F, S, T), AreRows(rows, F, S, T), AreColumns(columns, F, S, T)
    PROVE  SumFunctionOnSet(columns, T) = SumFunctionOnSet(rows, S)
  <1> DEFINE f == [x \in S |-> SumFunctionOnSet(F[x], T)]
             g == [y \in T |-> SumFunctionOnSet([x \in S |-> F[x][y]], S)]
  <1>1. SumFunctionOnSet(f, S) = SumFunctionOnSet(g, T)
    BY SumSwap DEF Matrix
  <1>2. (\A x \in S : rows[x] = f[x]) /\ \A y \in T : columns[y] = g[y]
    BY DEF Column, AreRows, AreColumns
  <1> HIDE DEF f, g
  <1>3. SumFunctionOnSet(rows, S) = SumFunctionOnSet(f, S)
    BY <1>2, SumSame
  <1>4. SumFunctionOnSet(columns, T) = SumFunctionOnSet(g, T)
    BY <1>2, SumSame
  <1> QED
    BY <1>1, <1>3, <1>4

================================================================================
