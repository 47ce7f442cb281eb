---------------------------- MODULE SumTheorems ----------------------------
(***************************************************************************)
(* Facts about the sums over finite sets that amounts are added up with    *)
(* (SUM in the queries of store.py, F.sum in the jobs), about images of    *)
(* finite sets and about their extremes.  SumFunctionOnSet of the module   *)
(* Functions adds up the values a function has on a set; it takes the      *)
(* elements one at a time, in an order it chooses.                         *)
(*                                                                         *)
(* Induction is over a set of subsets instead of over a predicate: a       *)
(* smallest subset that is not in the set would be a contradiction.        *)
(***************************************************************************)
EXTENDS Integers, FiniteSets, FiniteSetsExt, Functions, FiniteSetTheorems, WellFoundedInduction, TLAPS

-----------------------------------------------------------------------------
(* Induction over the subsets of a finite set                              *)

\* A set that has every subset all proper subsets of which it has, has them all.
LEMMA StrongSetInduction ==
  ASSUME NEW S, IsFiniteSet(S), NEW B \in SUBSET SUBSET S,
         \A T \in SUBSET S : (\A U \in (SUBSET T) \ {T} : U \in B) => T \in B
  PROVE  B = SUBSET S
<1> DEFINE Bad == (SUBSET S) \ B
<1>1. SUFFICES ASSUME Bad # {} PROVE FALSE
  OBVIOUS
<1>2. IsWellFoundedOn(StrictSubsetOrdering(S), SUBSET S)
  BY FS_StrictSubsetOrderingWellFounded, FS_FiniteSubsetsOfFinite
<1>3. PICK T \in Bad : \A U \in Bad : ~(<<U, T>> \in StrictSubsetOrdering(S))
  <2> HIDE DEF Bad
  <2>1. Bad \subseteq SUBSET S
    BY DEF Bad
  <2> QED
    BY <1>1, <1>2, <2>1, WFMin
<1>4. \A U \in (SUBSET T) \ {T} : U \in B
  BY <1>3 DEF StrictSubsetOrdering
<1> QED
  BY <1>3, <1>4

\* A set that has the empty set, and with a subset the one with one more element,
\* has the whole set.
LEMMA SetInduction ==
  ASSUME NEW S, IsFiniteSet(S), NEW B \in SUBSET SUBSET S,
         {} \in B, \A T \in B : \A x \in S \ T : T \cup {x} \in B
  PROVE  S \in B
<1>1. ASSUME NEW T \in SUBSET S, \A U \in (SUBSET T) \ {T} : U \in B
      PROVE  T \in B
  <2>1. SUFFICES ASSUME NEW x \in T PROVE T \in B
    OBVIOUS
  <2>2. T = (T \ {x}) \cup {x}
    OBVIOUS
  <2> QED
    BY <1>1, <2>2
<1> QED
  BY <1>1, StrongSetInduction

-----------------------------------------------------------------------------
(* The recursive function behind a sum                                     *)

\* The element that is added next.
Pick(T) == CHOOSE x \in T : TRUE

\* An element of a set that is not empty.
LEMMA PickIn == ASSUME NEW T, T # {} PROVE Pick(T) \in T
BY DEF Pick

\* The equation g is defined by: what the subsets of S add up to under f.
IsSum(f, S, g) ==
  g = [T \in SUBSET S |-> IF T = {} THEN 0 ELSE f[Pick(T)] + g[T \ {Pick(T)}]]

SumIter(f, S) == CHOOSE g : IsSum(f, S, g)

\* The sum, with the function of the library by its name.
LEMMA SumDef ==
  ASSUME NEW f, NEW S
  PROVE  SumFunctionOnSet(f, S) = SumIter(f, S)[S]
BY DEF SumFunctionOnSet, FoldFunctionOnSet, MapThenFoldSet, IsSum, Pick, SumIter

\* Solutions for a set and for a part of it are the same on that part.
LEMMA SumUnique ==
  ASSUME NEW f, NEW S, IsFiniteSet(S), NEW g, NEW R, R \subseteq S, NEW h,
         IsSum(f, S, g), IsSum(f, R, h)
  PROVE  \A T \in SUBSET R : g[T] = h[T]
<1> DEFINE B == {T \in SUBSET R : g[T] = h[T]}
<1>1. IsFiniteSet(R)
  BY FS_Subset
<1>2. ASSUME NEW T \in SUBSET R, \A U \in (SUBSET T) \ {T} : U \in B
      PROVE  T \in B
  <2>1. /\ g[T] = IF T = {} THEN 0 ELSE f[Pick(T)] + g[T \ {Pick(T)}]
        /\ h[T] = IF T = {} THEN 0 ELSE f[Pick(T)] + h[T \ {Pick(T)}]
    <3>1. T \in SUBSET S
      OBVIOUS
    <3> QED
      BY <3>1 DEF IsSum
  <2> QED
    BY <1>2, <2>1, PickIn
<1> HIDE DEF B
<1>3. B = SUBSET R
  <2>1. B \in SUBSET SUBSET R
    BY DEF B
  <2> QED
    BY <1>1, <1>2, <2>1, StrongSetInduction
<1> QED
  BY <1>3 DEF B

\* The equation has a solution for every finite set.
LEMMA SumExists ==
  ASSUME NEW f, NEW S, IsFiniteSet(S)
  PROVE  IsSum(f, S, SumIter(f, S))
<1> DEFINE B == {T \in SUBSET S : IsSum(f, T, SumIter(f, T))}
<1>2. ASSUME NEW T \in SUBSET S, \A U \in (SUBSET T) \ {T} : U \in B
      PROVE  T \in B
  <2> DEFINE h == [U \in SUBSET T |-> IF U = {} THEN 0 ELSE
                     f[Pick(U)] + SumIter(f, U \ {Pick(U)})[U \ {Pick(U)}]]
  <2>1. ASSUME NEW U \in SUBSET T, U # {}
        PROVE  h[U \ {Pick(U)}] = SumIter(f, U \ {Pick(U)})[U \ {Pick(U)}]
    <3> DEFINE V == U \ {Pick(U)}
    <3>1. V \in SUBSET T /\ V # T /\ V \in B
      BY <1>2, <2>1, PickIn
    <3>2. IsSum(f, V, SumIter(f, V))
      BY <3>1
    <3>3. CASE V = {}
      BY <3>1, <3>2, <3>3 DEF IsSum
    <3>4. CASE V # {}
      <4> DEFINE W == V \ {Pick(V)}
      <4>1. W \in SUBSET V /\ W \in B
        BY <1>2, <3>1, <3>4, PickIn
      <4>2. IsSum(f, W, SumIter(f, W))
        BY <4>1
      <4>3. IsFiniteSet(V)
        BY FS_Subset, <3>1
      <4>4. SumIter(f, V)[W] = SumIter(f, W)[W]
        <5> HIDE DEF V, W
        <5> QED
          BY <3>2, <4>1, <4>2, <4>3, SumUnique
      <4>5. SumIter(f, V)[V] = f[Pick(V)] + SumIter(f, V)[W]
        <5> HIDE DEF V
        <5>1. V \in SUBSET V
          OBVIOUS
        <5> QED
          BY <3>2, <3>4, <5>1 DEF IsSum
      <4>6. h[V] = f[Pick(V)] + SumIter(f, W)[W]
        BY <3>1, <3>4
      <4> QED
        BY <4>4, <4>5, <4>6
    <3> QED
      BY <3>3, <3>4
  <2>2. IsSum(f, T, h)
    <3>1. \A U \in SUBSET T : h[U] = IF U = {} THEN 0 ELSE f[Pick(U)] + h[U \ {Pick(U)}]
      <4> SUFFICES ASSUME NEW U \in SUBSET T
                   PROVE  h[U] = IF U = {} THEN 0 ELSE f[Pick(U)] + h[U \ {Pick(U)}]
        OBVIOUS
      <4>1. h[U] = IF U = {} THEN 0 ELSE
                     f[Pick(U)] + SumIter(f, U \ {Pick(U)})[U \ {Pick(U)}]
        OBVIOUS
      <4> HIDE DEF h
      <4> QED
        BY <2>1, <4>1
    <3>2. h = [U \in SUBSET T |-> h[U]]
      OBVIOUS
    <3> HIDE DEF h
    <3> QED
      BY <3>1, <3>2 DEF IsSum
  <2>3. IsSum(f, T, SumIter(f, T))
    <3> HIDE DEF h
    <3> QED
      BY <2>2 DEF SumIter
  <2> QED
    BY <2>3
<1> HIDE DEF B
<1>3. B = SUBSET S
  <2>1. B \in SUBSET SUBSET S
    BY DEF B
  <2> QED
    BY <1>2, <2>1, StrongSetInduction
<1> QED
  BY <1>3 DEF B

\* The sum satisfies the equation it is defined by.
LEMMA SumStep ==
  ASSUME NEW f, NEW S, IsFiniteSet(S)
  PROVE  /\ SumFunctionOnSet(f, {}) = 0
         /\ S # {} => /\ Pick(S) \in S
                      /\ SumFunctionOnSet(f, S) = 
                        f[Pick(S)] + SumFunctionOnSet(f, S \ {Pick(S)})
<1>1. SumFunctionOnSet(f, {}) = 0
  <2>1. IsSum(f, {}, SumIter(f, {}))
    BY SumExists, FS_EmptySet
  <2> QED
    BY <2>1, SumDef DEF IsSum
<1>2. ASSUME S # {}
      PROVE  SumFunctionOnSet(f, S) = f[Pick(S)] + SumFunctionOnSet(f, S \ {Pick(S)})
  <2> DEFINE T == S \ {Pick(S)}
  <2>1. /\ IsFiniteSet(T)
        /\ T \subseteq S
        /\ S \in SUBSET S
    BY FS_Subset
  <2>2. IsSum(f, S, SumIter(f, S)) /\ IsSum(f, T, SumIter(f, T))
    <3> HIDE DEF T
    <3> QED
    BY <2>1, SumExists
  <2>3. SumIter(f, S)[S] = f[Pick(S)] + SumIter(f, S)[T]
    BY <1>2, <2>1, <2>2 DEF IsSum
  <2>4. SumIter(f, S)[T] = SumIter(f, T)[T]
    <3> HIDE DEF T
    <3> QED
      BY <2>1, <2>2, SumUnique
  <2> QED
    BY <2>3, <2>4, SumDef
<1> QED
  BY <1>1, <1>2, PickIn

-----------------------------------------------------------------------------
(* Sums of integers                                                        *)

IntOn(f, S) == \A x \in S : f[x] \in Int

\* A sum over nothing.
LEMMA SumEmpty == ASSUME NEW f PROVE SumFunctionOnSet(f, {}) = 0
BY SumStep, FS_EmptySet

\* A sum of integers is one.
LEMMA SumInt ==
  ASSUME NEW f, NEW S, IsFiniteSet(S), IntOn(f, S)
  PROVE  SumFunctionOnSet(f, S) \in Int
<1> DEFINE B == {T \in SUBSET S : SumFunctionOnSet(f, T) \in Int}
<1>1. ASSUME NEW T \in SUBSET S, \A U \in (SUBSET T) \ {T} : U \in B
      PROVE  T \in B
  <2>1. IsFiniteSet(T)
    BY FS_Subset
  <2>2. CASE T = {}
    BY <2>2, SumEmpty
  <2>3. CASE T # {}
    <3>1. /\ Pick(T) \in T
          /\ SumFunctionOnSet(f, T) = f[Pick(T)] + SumFunctionOnSet(f, T \ {Pick(T)})
      BY <2>1, <2>3, SumStep
    <3>2. SumFunctionOnSet(f, T \ {Pick(T)}) \in Int
      BY <1>1, <3>1
    <3>3. f[Pick(T)] \in Int
      BY <3>1 DEF IntOn
    <3> QED
      BY <3>1, <3>2, <3>3
  <2> QED
    BY <2>2, <2>3
<1> HIDE DEF B
<1>2. B = SUBSET S
  <2>1. B \in SUBSET SUBSET S
    BY DEF B
  <2> QED
    BY <1>1, <2>1, StrongSetInduction
<1> QED
  BY <1>2 DEF B

\* Any element can be taken out of a sum.
LEMMA SumRemove ==
  ASSUME NEW f, NEW S, IsFiniteSet(S), IntOn(f, S), NEW a \in S
  PROVE  SumFunctionOnSet(f, S) = f[a] + SumFunctionOnSet(f, S \ {a})
<1> DEFINE B == {T \in SUBSET S : \A x \in T : SumFunctionOnSet(f, T) = f[x] + SumFunctionOnSet(f, T \ {x})}
<1>1. ASSUME NEW T \in SUBSET S, \A U \in (SUBSET T) \ {T} : U \in B
      PROVE  T \in B
  <2>1. SUFFICES ASSUME NEW x \in T
                 PROVE  SumFunctionOnSet(f, T) = f[x] + SumFunctionOnSet(f, T \ {x})
    OBVIOUS
  <2> DEFINE p == Pick(T)
  <2>2. /\ p \in T
        /\ SumFunctionOnSet(f, T) = f[p] + SumFunctionOnSet(f, T \ {p})
        /\ IsFiniteSet(T)
    BY FS_Subset, SumStep
  <2> HIDE DEF p
  <2>3. CASE p = x
    BY <2>2, <2>3
  <2>4. CASE p # x
    <3>1. SumFunctionOnSet(f, T \ {p}) = f[x] + SumFunctionOnSet(f, (T \ {p}) \ {x})
      <4>1. T \ {p} \in B
        BY <1>1, <2>2
      <4> QED
        BY <4>1, <2>4
    <3>2. SumFunctionOnSet(f, T \ {x}) = f[p] + SumFunctionOnSet(f, (T \ {x}) \ {p})
      <4>1. T \ {x} \in B
        BY <1>1
      <4> QED
        BY <4>1, <2>2, <2>4
    <3>3. (T \ {x}) \ {p} = (T \ {p}) \ {x}
      OBVIOUS
    <3>4. SumFunctionOnSet(f, (T \ {x}) \ {p}) \in Int
      <4>1. IsFiniteSet((T \ {x}) \ {p})
        BY <2>2, FS_Subset
      <4>2. IntOn(f, (T \ {x}) \ {p})
        BY DEF IntOn
      <4> QED
        BY <4>1, <4>2, SumInt
    <3>5. f[p] \in Int /\ f[x] \in Int
      BY <2>2 DEF IntOn
    <3> DEFINE r == SumFunctionOnSet(f, (T \ {x}) \ {p})
    <3>6. /\ SumFunctionOnSet(f, T) = f[p] + (f[x] + r)
          /\ SumFunctionOnSet(f, T \ {x}) = f[p] + r
          /\ r \in Int
      BY <2>2, <3>1, <3>2, <3>3, <3>4
    <3> HIDE DEF r
    <3> QED
      BY <3>5, <3>6
  <2> QED
    BY <2>3, <2>4
<1> HIDE DEF B
<1>2. B = SUBSET S
  <2>1. B \in SUBSET SUBSET S
    BY DEF B
  <2> QED
    BY <1>1, <2>1, StrongSetInduction
<1>3. S \in B
  BY <1>2
<1> QED
  BY <1>3 DEF B

\* A further element adds its value.
LEMMA SumAdd ==
  ASSUME NEW f, NEW S, IsFiniteSet(S), NEW a, a \notin S, IntOn(f, S \cup {a})
  PROVE  SumFunctionOnSet(f, S \cup {a}) = f[a] + SumFunctionOnSet(f, S)
<1>1. IsFiniteSet(S \cup {a}) /\ a \in S \cup {a} /\ (S \cup {a}) \ {a} = S
  BY FS_AddElement
<1> QED
  BY <1>1, SumRemove

\* Only the values on the set count.
LEMMA SumAgree ==
  ASSUME NEW f, NEW g, NEW S, IsFiniteSet(S), \A x \in S : f[x] = g[x]
  PROVE  SumFunctionOnSet(f, S) = SumFunctionOnSet(g, S)
<1> DEFINE B == {T \in SUBSET S : SumFunctionOnSet(f, T) = SumFunctionOnSet(g, T)}
<1>1. ASSUME NEW T \in SUBSET S, \A U \in (SUBSET T) \ {T} : U \in B
      PROVE  T \in B
  <2>1. IsFiniteSet(T)
    BY FS_Subset
  <2>2. CASE T = {}
    BY <2>2, SumEmpty
  <2>3. CASE T # {}
    <3>1. /\ Pick(T) \in T
          /\ SumFunctionOnSet(f, T) = f[Pick(T)] + SumFunctionOnSet(f, T \ {Pick(T)})
          /\ SumFunctionOnSet(g, T) = g[Pick(T)] + SumFunctionOnSet(g, T \ {Pick(T)})
      BY <2>1, <2>3, SumStep
    <3>2. T \ {Pick(T)} \in B
      BY <1>1, <3>1
    <3> QED
      BY <3>1, <3>2
  <2> QED
    BY <2>2, <2>3
<1> HIDE DEF B
<1>2. B = SUBSET S
  <2>1. B \in SUBSET SUBSET S
    BY DEF B
  <2> QED
    BY <1>1, <2>1, StrongSetInduction
<1> QED
  BY <1>2 DEF B

\* The sums of two disjoint sets add up to the sum of their union.
LEMMA SumUnion ==
  ASSUME NEW f, NEW S, NEW T, IsFiniteSet(S), IsFiniteSet(T), S \cap T = {}, IntOn(f, S \cup T)
  PROVE  SumFunctionOnSet(f, S \cup T) = SumFunctionOnSet(f, S) + SumFunctionOnSet(f, T)
<1> DEFINE B == {U \in SUBSET S : SumFunctionOnSet(f, U \cup T) = SumFunctionOnSet(f, U) + SumFunctionOnSet(f, T)}
<1>1. {} \in B
  <2>1. SumFunctionOnSet(f, T) \in Int
    BY SumInt DEF IntOn
  <2> QED
    BY <2>1, SumEmpty
<1>2. ASSUME NEW U \in B, NEW a \in S \ U
      PROVE  U \cup {a} \in B
  <2>1. /\ IsFiniteSet(U) /\ IsFiniteSet(U \cup T)
        /\ a \notin U \cup T
        /\ (U \cup {a}) \cup T = (U \cup T) \cup {a}
    BY FS_Subset, FS_Union
  <2>2. /\ IntOn(f, U) /\ IntOn(f, U \cup {a}) /\ IntOn(f, T) /\ IntOn(f, (U \cup T) \cup {a})
        /\ f[a] \in Int
    BY DEF IntOn
  <2>3. /\ SumFunctionOnSet(f, U \cup {a}) = f[a] + SumFunctionOnSet(f, U)
        /\ SumFunctionOnSet(f, (U \cup T) \cup {a}) = f[a] + SumFunctionOnSet(f, U \cup T)
    BY <2>1, <2>2, SumAdd
  <2>4. SumFunctionOnSet(f, U) \in Int /\ SumFunctionOnSet(f, T) \in Int
    BY <2>1, <2>2, SumInt
  <2>5. SumFunctionOnSet(f, U \cup T) = SumFunctionOnSet(f, U) + SumFunctionOnSet(f, T)
    OBVIOUS
  <2>6. SumFunctionOnSet(f, (U \cup {a}) \cup T) = SumFunctionOnSet(f, U \cup {a}) + SumFunctionOnSet(f, T)
    <3> DEFINE u == SumFunctionOnSet(f, U)
               t == SumFunctionOnSet(f, T)
    <3>1. /\ SumFunctionOnSet(f, (U \cup {a}) \cup T) = f[a] + (u + t)
          /\ SumFunctionOnSet(f, U \cup {a}) = f[a] + u
      BY <2>1, <2>3, <2>5
    <3>2. u \in Int /\ t \in Int
      BY <2>4
    <3> HIDE DEF u
    <3>3. f[a] + (u + t) = (f[a] + u) + t
      <4> HIDE DEF t
      <4> QED
        BY <2>2, <3>2
    <3> QED
      BY <3>1, <3>3
  <2> QED
    BY <2>6
<1> HIDE DEF B
<1>3. S \in B
  <2>1. B \in SUBSET SUBSET S
    BY DEF B
  <2> QED
    BY <1>1, <1>2, <2>1, SetInduction
<1> QED
  BY <1>3 DEF B

\* A sum of non-negative numbers is one, and is zero only if each of them is.
LEMMA SumNat ==
  ASSUME NEW f, NEW S, IsFiniteSet(S), \A x \in S : f[x] \in Nat
  PROVE  /\ SumFunctionOnSet(f, S) \in Nat
         /\ SumFunctionOnSet(f, S) = 0 <=> \A x \in S : f[x] = 0
<1> DEFINE B == {U \in SUBSET S : SumFunctionOnSet(f, U) \in Nat
                              /\ (SumFunctionOnSet(f, U) = 0 <=> \A x \in U : f[x] = 0)}
<1>1. {} \in B
  BY SumEmpty
<1>2. ASSUME NEW U \in B, NEW a \in S \ U
      PROVE  U \cup {a} \in B
  <2>1. IsFiniteSet(U) /\ IntOn(f, U \cup {a}) /\ f[a] \in Nat
    BY FS_Subset DEF IntOn
  <2>2. SumFunctionOnSet(f, U \cup {a}) = f[a] + SumFunctionOnSet(f, U)
    BY <2>1, SumAdd
  <2>3. SumFunctionOnSet(f, U) \in Nat /\ (SumFunctionOnSet(f, U) = 0 <=> \A x \in U : f[x] = 0)
    OBVIOUS
  <2> QED
    BY <2>1, <2>2, <2>3
<1> HIDE DEF B
<1>3. S \in B
  <2>1. B \in SUBSET SUBSET S
    BY DEF B
  <2> QED
    BY <1>1, <1>2, <2>1, SetInduction
<1> QED
  BY <1>3 DEF B

\* Nothing adds up to nothing.
LEMMA SumZero ==
  ASSUME NEW f, NEW S, IsFiniteSet(S), \A x \in S : f[x] = 0
  PROVE  SumFunctionOnSet(f, S) = 0
BY SumNat

\* A factor common to all terms can be taken out of a sum.
LEMMA SumScale ==
  ASSUME NEW f, NEW g, NEW S, IsFiniteSet(S), NEW c \in Int, IntOn(g, S),
         \A x \in S : f[x] = c * g[x]
  PROVE  SumFunctionOnSet(f, S) = c * SumFunctionOnSet(g, S)
<1> DEFINE B == {U \in SUBSET S : SumFunctionOnSet(f, U) = c * SumFunctionOnSet(g, U)}
<1>1. {} \in B
  BY SumEmpty
<1>2. ASSUME NEW U \in B, NEW a \in S \ U
      PROVE  U \cup {a} \in B
  <2>1. IsFiniteSet(U) /\ IntOn(g, U \cup {a}) /\ IntOn(g, U) /\ g[a] \in Int /\ f[a] = c * g[a]
    BY FS_Subset DEF IntOn
  <2>2. IntOn(f, U \cup {a})
    BY DEF IntOn
  <2> DEFINE u == SumFunctionOnSet(g, U)
  <2>3. /\ SumFunctionOnSet(f, U \cup {a}) = c * g[a] + c * u
        /\ SumFunctionOnSet(g, U \cup {a}) = g[a] + u
        /\ u \in Int
    BY <2>1, <2>2, SumAdd, SumInt
  <2>4. c * g[a] + c * u = c * (g[a] + u)
    <3> HIDE DEF u
    <3> QED
      BY <2>1, <2>3
  <2> QED
    BY <2>3, <2>4
<1> HIDE DEF B
<1>3. S \in B
  <2>1. B \in SUBSET SUBSET S
    BY DEF B
  <2> QED
    BY <1>1, <1>2, <2>1, SetInduction
<1> QED
  BY <1>3 DEF B

\* A sum does not depend on what its terms are indexed by.
LEMMA SumMap ==
  ASSUME NEW f, NEW g, NEW S, NEW T, IsFiniteSet(S), NEW m \in [S -> T], IntOn(f, T),
         \A x, y \in S : m[x] = m[y] => x = y,
         \A z \in T : \E x \in S : m[x] = z,
         \A x \in S : g[x] = f[m[x]]
  PROVE  SumFunctionOnSet(g, S) = SumFunctionOnSet(f, T)
<1> DEFINE M(U) == {m[x] : x \in U}
<1> DEFINE B == {U \in SUBSET S : IsFiniteSet(M(U)) /\ SumFunctionOnSet(g, U) = SumFunctionOnSet(f, M(U))}
<1>1. {} \in B
  <2>1. M({}) = {}
    OBVIOUS
  <2> QED
    BY <2>1, SumEmpty, FS_EmptySet
<1>2. ASSUME NEW U \in B, NEW a \in S \ U
      PROVE  U \cup {a} \in B
  <2>1. /\ M(U \cup {a}) = M(U) \cup {m[a]}
        /\ m[a] \notin M(U)
        /\ IsFiniteSet(M(U)) /\ IsFiniteSet(U)
    BY FS_Subset
  <2>2. IntOn(g, U \cup {a}) /\ IntOn(f, M(U) \cup {m[a]})
    BY DEF IntOn
  <2>3. /\ SumFunctionOnSet(g, U \cup {a}) = g[a] + SumFunctionOnSet(g, U)
        /\ SumFunctionOnSet(f, M(U) \cup {m[a]}) = f[m[a]] + SumFunctionOnSet(f, M(U))
        /\ IsFiniteSet(M(U) \cup {m[a]})
    <3> HIDE DEF M
    <3> QED
      BY <2>1, <2>2, SumAdd, FS_AddElement
  <2>4. g[a] = f[m[a]] /\ SumFunctionOnSet(g, U) = SumFunctionOnSet(f, M(U))
    OBVIOUS
  <2> QED
    BY <2>1, <2>3, <2>4
<1> HIDE DEF B
<1>3. S \in B
  <2>1. B \in SUBSET SUBSET S
    BY DEF B
  <2> QED
    BY <1>1, <1>2, <2>1, SetInduction
<1> QED
  <2>1. M(S) = T
    OBVIOUS
  <2> QED
    BY <1>3, <2>1 DEF B

\* A sum is the sum of the sums of its parts, whatever it is divided by.
LEMMA SumParts ==
  ASSUME NEW f, NEW R, IsFiniteSet(R), IntOn(f, R), NEW key, NEW S, IsFiniteSet(S),
         \A x \in R : key[x] \in S
  PROVE  SumFunctionOnSet(f, R) =
           SumFunctionOnSet([k \in S |-> SumFunctionOnSet(f, {x \in R : key[x] = k})], S)
<1> DEFINE P(U) == {x \in R : key[x] \in U}
           Part(k) == {x \in R : key[x] = k}
           g == [k \in S |-> SumFunctionOnSet(f, Part(k))]
<1>0. \A U : IsFiniteSet(P(U)) /\ IsFiniteSet(Part(U)) /\ IntOn(f, P(U)) /\ IntOn(f, Part(U))
  BY FS_Subset DEF IntOn
<1>4. IntOn(g, S)
  BY <1>0, SumInt DEF IntOn
<1> DEFINE B == {U \in SUBSET S : SumFunctionOnSet(f, P(U)) = SumFunctionOnSet(g, U)}
<1>1. {} \in B
  <2>1. P({}) = {}
    OBVIOUS
  <2> QED
    BY <2>1, SumEmpty
<1>2. ASSUME NEW U \in B, NEW a \in S \ U
      PROVE  U \cup {a} \in B
  <2>1. /\ P(U \cup {a}) = P(U) \cup Part(a)
        /\ P(U) \cap Part(a) = {}
        /\ IsFiniteSet(U)
    BY FS_Subset
  <2>2. IntOn(g, U \cup {a}) /\ IntOn(f, P(U) \cup Part(a))
    BY <1>4 DEF IntOn
  <2>3. SumFunctionOnSet(f, P(U) \cup Part(a)) = SumFunctionOnSet(f, P(U)) + SumFunctionOnSet(f, Part(a))
    <3> HIDE DEF P, Part
    <3> QED
      BY <1>0, <2>1, <2>2, SumUnion
  <2>4. SumFunctionOnSet(g, U \cup {a}) = g[a] + SumFunctionOnSet(g, U)
    <3> HIDE DEF g
    <3> QED
      BY <2>1, <2>2, SumAdd
  <2>5. g[a] = SumFunctionOnSet(f, Part(a)) /\ SumFunctionOnSet(f, P(U)) = SumFunctionOnSet(g, U)
    OBVIOUS
  <2>6. SumFunctionOnSet(f, P(U)) \in Int /\ SumFunctionOnSet(f, Part(a)) \in Int
    <3> HIDE DEF P, Part
    <3> QED
      BY <1>0, SumInt
  <2>7. SumFunctionOnSet(f, P(U \cup {a})) = SumFunctionOnSet(g, U \cup {a})
    <3> DEFINE p == SumFunctionOnSet(f, P(U))
               q == SumFunctionOnSet(f, Part(a))
    <3>1. SumFunctionOnSet(f, P(U \cup {a})) = p + q
      BY <2>1, <2>3
    <3>2. SumFunctionOnSet(g, U \cup {a}) = q + p
      <4> HIDE DEF P, Part, g
      <4> QED
        BY <2>4, <2>5
    <3>3. p + q = q + p
      <4> HIDE DEF p, q
      <4> QED
        BY <2>6 DEF p, q
    <3> QED
      BY <3>1, <3>2, <3>3
  <2> QED
    BY <2>7
<1> HIDE DEF B
<1>3. S \in B
  <2>1. B \in SUBSET SUBSET S
    BY DEF B
  <2> QED
    BY <1>1, <1>2, <2>1, SetInduction
<1> QED
  <2>1. P(S) = R
    OBVIOUS
  <2> QED
    BY <1>3, <2>1 DEF B

-----------------------------------------------------------------------------
(* Images and extremes of finite sets                                      *)

\* The image of a finite set is finite and as large as the set exactly when no two
\* elements have the same image.
LEMMA FiniteImage ==
  ASSUME NEW f, NEW S, IsFiniteSet(S)
  PROVE  /\ IsFiniteSet({f[x] : x \in S})
         /\ Cardinality({f[x] : x \in S}) <= Cardinality(S)
         /\ Cardinality({f[x] : x \in S}) = Cardinality(S)
              <=> \A x, y \in S : f[x] = f[y] => x = y
<1> DEFINE T == {f[x] : x \in S}
           m == [x \in S |-> f[x]]
<1>1. m \in Surjection(S, T)
  BY DEF Surjection
<1>2. m \in Injection(S, T) <=> \A x, y \in S : f[x] = f[y] => x = y
  BY DEF Injection, IsInjective
<1> HIDE DEF T, m
<1>3. /\ IsFiniteSet(T) /\ Cardinality(T) <= Cardinality(S)
      /\ Cardinality(T) = Cardinality(S) <=> m \in Injection(S, T)
  BY <1>1, FS_Surjection
<1> QED
  BY <1>2, <1>3 DEF T

\* A finite set of integers that is not empty has a largest and a smallest element.
LEMMA Extremes ==
  ASSUME NEW S \in SUBSET Int, IsFiniteSet(S), S # {}
  PROVE  /\ Max(S) \in S /\ \A y \in S : y <= Max(S)
         /\ Min(S) \in S /\ \A y \in S : Min(S) <= y
<1> DEFINE B == {U \in SUBSET S : U # {} => /\ \E x \in U : \A y \in U : y <= x
                                            /\ \E x \in U : \A y \in U : x <= y}
<1>1. {} \in B
  OBVIOUS
<1>2. ASSUME NEW U \in B, NEW a \in S \ U
      PROVE  U \cup {a} \in B
  <2>1. CASE U = {}
    BY <2>1
  <2>2. CASE U # {}
    <3>1. PICK x \in U : \A y \in U : y <= x
      BY <2>2
    <3>2. PICK z \in U : \A y \in U : z <= y
      BY <2>2
    <3>3. \E w \in U \cup {a} : \A y \in U \cup {a} : y <= w
      <4>1. CASE a <= x
        BY <3>1, <4>1
      <4>2. CASE ~(a <= x)
        <5>1. \A y \in U \cup {a} : y <= a
          BY <3>1, <4>2
        <5> QED
          BY <5>1
      <4> QED
        BY <4>1, <4>2
    <3>4. \E w \in U \cup {a} : \A y \in U \cup {a} : w <= y
      <4>1. CASE z <= a
        BY <3>2, <4>1
      <4>2. CASE ~(z <= a)
        <5>1. \A y \in U \cup {a} : a <= y
          BY <3>2, <4>2
        <5> QED
          BY <5>1
      <4> QED
        BY <4>1, <4>2
    <3> QED
      BY <3>3, <3>4
  <2> QED
    BY <2>1, <2>2
<1> HIDE DEF B
<1>3. S \in B
  <2>1. B \in SUBSET SUBSET S
    BY DEF B
  <2> QED
    BY <1>1, <1>2, <2>1, SetInduction
<1>4. /\ \E x \in S : \A y \in S : x >= y
      /\ \E x \in S : \A y \in S : x =< y
  BY <1>3 DEF B
<1>5. Max(S) \in S /\ \A y \in S : Max(S) >= y
  BY <1>4 DEF Max
<1>6. Min(S) \in S /\ \A y \in S : Min(S) =< y
  BY <1>4 DEF Min
<1> QED
  BY <1>5, <1>6
============================================================================
