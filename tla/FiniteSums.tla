------------------------------ MODULE FiniteSums ------------------------------
(* Sums over finite sets: what SumFunctionOnSet of the community modules      *)
(* computes, for every function with integer values.  Induction over the     *)
(* finite subsets of a set is by a smallest counterexample.                  *)
EXTENDS Functions, FiniteSetTheorems, TLAPS

\* An element of every set that has one.
Pick(s) == CHOOSE x \in s : TRUE

\* g adds up f over every subset of S.
IsSum(f, S, g) ==
    g = [s \in SUBSET S |-> IF s = {} THEN 0 ELSE f[Pick(s)] + g[s \ {Pick(s)}]]

LEMMA SumUnfolds ==
    ASSUME NEW f, NEW S
    PROVE  SumFunctionOnSet(f, S) = (CHOOSE g : IsSum(f, S, g))[S]
BY DEF SumFunctionOnSet, FoldFunctionOnSet, MapThenFoldSet, IsSum, Pick

LEMMA PickIn ==
    ASSUME NEW s, s # {}
    PROVE  Pick(s) \in s
BY DEF Pick

\* A set of subsets of a finite set has a smallest member, if it has any.
LEMMA SmallestSubset ==
    ASSUME NEW S, IsFiniteSet(S), NEW C \in SUBSET SUBSET S, C # {}
    PROVE  \E s \in C : \A t \in SUBSET s : t \in C => t = s
<1>1. IsWellFoundedOn(StrictSubsetOrdering(S), SUBSET S)
    BY FS_StrictSubsetOrderingWellFounded, FS_FiniteSubsetsOfFinite
<1>2. PICK s \in C : \A t \in C : ~(<<t, s>> \in StrictSubsetOrdering(S))
    BY <1>1, WFMin
<1>3. \A t \in SUBSET s : t \in C => t = s
    <2> TAKE t \in SUBSET s
    <2> HAVE t \in C
    <2> SUFFICES ASSUME t # s PROVE FALSE
        OBVIOUS
    <2>1. <<t, s>> \in StrictSubsetOrdering(S)
        BY DEF StrictSubsetOrdering
    <2> QED BY <1>2, <2>1
<1> QED BY <1>3


LEMMA LeastNatural ==
    ASSUME NEW C \in SUBSET Nat, C # {}
    PROVE  \E n \in C : \A m \in C : n <= m
<1>1. PICK n \in C : \A m \in C : ~(<<m, n>> \in OpToRel(<, Nat))
    BY WFMin, NatLessThanWellFounded
<1>2. \A i, j \in Nat : j < i => <<j, i>> \in OpToRel(<, Nat)
    BY Zenon DEF OpToRel
<1>3. \A m \in C : ~(m < n)
    BY <1>1, <1>2
<1> QED BY <1>3

\* Two sums of the same function agree wherever both are defined.
LEMMA SumUnique ==
    ASSUME NEW f, NEW S, NEW T, IsFiniteSet(S), NEW g, NEW h,
           IsSum(f, S, g), IsSum(f, T, h), NEW u, u \subseteq S, u \subseteq T
    PROVE  g[u] = h[u]
<1> DEFINE C == {s \in SUBSET S : s \subseteq T /\ g[s] # h[s]}
<1> SUFFICES ASSUME C # {} PROVE FALSE
    OBVIOUS
<1>0. C \in SUBSET SUBSET S
    OBVIOUS
<1>1. PICK s \in C : \A t \in SUBSET s : t \in C => t = s
    <2> HIDE DEF C
    <2> QED BY <1>0, SmallestSubset
<1>2. /\ g[s] = IF s = {} THEN 0 ELSE f[Pick(s)] + g[s \ {Pick(s)}]
      /\ h[s] = IF s = {} THEN 0 ELSE f[Pick(s)] + h[s \ {Pick(s)}]
    BY DEF IsSum
<1>3. s # {}
    BY <1>2
<1>4. Pick(s) \in s /\ s \ {Pick(s)} \in SUBSET S /\ s \ {Pick(s)} \subseteq T
    BY <1>3, PickIn
<1>5. g[s \ {Pick(s)}] = h[s \ {Pick(s)}]
    BY <1>1, <1>4
<1> QED BY <1>1, <1>2, <1>3, <1>5

\* g adds up f over the subsets of S with fewer than n elements.
SumsUpto(f, S, n, g) ==
    /\ DOMAIN g = SUBSET S
    /\ \A s \in SUBSET S : Cardinality(s) < n =>
          g[s] = IF s = {} THEN 0 ELSE f[Pick(s)] + g[s \ {Pick(s)}]

LEMMA SmallerSubset ==
    ASSUME NEW S, IsFiniteSet(S), NEW s \in SUBSET S
    PROVE  /\ IsFiniteSet(s) /\ Cardinality(s) \in Nat /\ Cardinality(s) <= Cardinality(S)
           /\ s # {} => /\ s \ {Pick(s)} \in SUBSET S
                        /\ Cardinality(s \ {Pick(s)}) = Cardinality(s) - 1
<1>1. IsFiniteSet(s) /\ Cardinality(s) \in Nat /\ Cardinality(s) <= Cardinality(S)
    BY FS_Subset, FS_CardinalityType
<1> QED BY <1>1, PickIn, FS_RemoveElement

LEMMA SumExtends ==
    ASSUME NEW f, NEW S, IsFiniteSet(S), NEW n \in Nat, NEW g, SumsUpto(f, S, n, g)
    PROVE  \E h : SumsUpto(f, S, n + 1, h)
<1> DEFINE h == [s \in SUBSET S |->
                    IF Cardinality(s) < n THEN g[s]
                    ELSE IF s = {} THEN 0 ELSE f[Pick(s)] + g[s \ {Pick(s)}]]
<1>1. ASSUME NEW s \in SUBSET S, Cardinality(s) < n + 1
      PROVE  h[s] = IF s = {} THEN 0 ELSE f[Pick(s)] + h[s \ {Pick(s)}]
    <2>1. h[s] = IF s = {} THEN 0 ELSE f[Pick(s)] + g[s \ {Pick(s)}]
        BY DEF SumsUpto
    <2>2. CASE s # {}
        <3>1. s \ {Pick(s)} \in SUBSET S /\ Cardinality(s \ {Pick(s)}) < n
            BY <1>1, <2>2, SmallerSubset
        <3>2. h[s \ {Pick(s)}] = g[s \ {Pick(s)}]
            BY <3>1
        <3> QED BY <2>1, <2>2, <3>2
    <2> QED BY <2>1, <2>2
<1>2. DOMAIN h = SUBSET S
    OBVIOUS
<1> HIDE DEF h
<1>3. SumsUpto(f, S, n + 1, h)
    BY <1>1, <1>2 DEF SumsUpto
<1> QED BY <1>3

LEMMA SumExists ==
    ASSUME NEW f, NEW S, IsFiniteSet(S)
    PROVE  \E g : IsSum(f, S, g)
<1> DEFINE Bad == {n \in Nat : ~ \E g : SumsUpto(f, S, n, g)}
<1>1. Bad = {}
    <2> SUFFICES ASSUME Bad # {} PROVE FALSE
        OBVIOUS
    <2>1. PICK n \in Bad : \A m \in Bad : n <= m
        <3>1. Bad \in SUBSET Nat
            OBVIOUS
        <3> HIDE DEF Bad
        <3> QED BY <3>1, LeastNatural
    <2>2. n # 0
        <3> DEFINE g == [s \in SUBSET S |-> 0]
        <3>1. ASSUME NEW s \in SUBSET S
              PROVE  ~(Cardinality(s) < 0)
            <4>1. Cardinality(s) \in Nat
                BY SmallerSubset
            <4> QED BY <4>1
        <3>2. SumsUpto(f, S, 0, g)
            BY <3>1 DEF SumsUpto
        <3> QED BY <3>2
    <2>3. n - 1 \in Nat /\ n - 1 \notin Bad
        BY <2>1, <2>2
    <2>4. PICK g : SumsUpto(f, S, n - 1, g)
        BY <2>3
    <2>5. \E h : SumsUpto(f, S, (n - 1) + 1, h)
        BY <2>3, <2>4, SumExtends
    <2> QED BY <2>1, <2>5
<1>2. Cardinality(S) + 1 \in Nat
    BY FS_CardinalityType
<1>3. PICK g : SumsUpto(f, S, Cardinality(S) + 1, g)
    BY <1>1, <1>2
<1> DEFINE h == [s \in SUBSET S |-> g[s]]
<1>4. \A s \in SUBSET S : g[s] = IF s = {} THEN 0 ELSE f[Pick(s)] + g[s \ {Pick(s)}]
    <2> TAKE s \in SUBSET S
    <2>1. Cardinality(S) \in Nat
        BY FS_CardinalityType
    <2>2. Cardinality(s) \in Nat /\ Cardinality(s) <= Cardinality(S)
        BY SmallerSubset
    <2>3. Cardinality(s) < Cardinality(S) + 1
        BY <2>1, <2>2
    <2> QED BY <1>3, <2>3 DEF SumsUpto
<1>5. IsSum(f, S, h)
    <2>1. \A s \in SUBSET S : s \ {Pick(s)} \in SUBSET S
        OBVIOUS
    <2> QED BY <1>4, <2>1 DEF IsSum
<1> QED BY <1>5

\* The defining equation.
LEMMA SumStep ==
    ASSUME NEW f, NEW S, IsFiniteSet(S)
    PROVE  /\ SumFunctionOnSet(f, {}) = 0
           /\ S # {} => SumFunctionOnSet(f, S) = f[Pick(S)] + SumFunctionOnSet(f, S \ {Pick(S)})
<1>1. ASSUME NEW T, IsFiniteSet(T)
      PROVE  IsSum(f, T, CHOOSE g : IsSum(f, T, g))
    BY <1>1, SumExists
<1> DEFINE g == CHOOSE g : IsSum(f, S, g)
           h == CHOOSE h : IsSum(f, S \ {Pick(S)}, h)
           e == CHOOSE e : IsSum(f, {}, e)
<1>2. IsFiniteSet(S \ {Pick(S)}) /\ IsFiniteSet({})
    BY FS_Subset, FS_EmptySet
<1>3. IsSum(f, S, g) /\ IsSum(f, S \ {Pick(S)}, h) /\ IsSum(f, {}, e)
    BY <1>1, <1>2
<1>4. /\ SumFunctionOnSet(f, S) = g[S]
      /\ SumFunctionOnSet(f, S \ {Pick(S)}) = h[S \ {Pick(S)}]
      /\ SumFunctionOnSet(f, {}) = e[{}]
    BY SumUnfolds
<1> HIDE DEF g, h, e
<1>5. g[S \ {Pick(S)}] = h[S \ {Pick(S)}]
    BY <1>3, SumUnique
<1>6. e[{}] = 0
    BY <1>3 DEF IsSum
<1>7. S # {} => g[S] = f[Pick(S)] + g[S \ {Pick(S)}]
    BY <1>3 DEF IsSum
<1> QED BY <1>4, <1>5, <1>6, <1>7

----------------------------------------------------------------------------
\* What the proofs of the project use.

LEMMA SumEmpty == ASSUME NEW f PROVE SumFunctionOnSet(f, {}) = 0
BY SumStep, FS_EmptySet

\* Integers add up to an integer, naturals to a natural.
LEMMA SumType ==
    ASSUME NEW f, NEW S, IsFiniteSet(S)
    PROVE  /\ (\A x \in S : f[x] \in Int) => SumFunctionOnSet(f, S) \in Int
           /\ (\A x \in S : f[x] \in Nat) => SumFunctionOnSet(f, S) \in Nat
<1> SUFFICES ASSUME NEW V \in {Int, Nat}, \A x \in S : f[x] \in V
             PROVE  SumFunctionOnSet(f, S) \in V
    OBVIOUS
<1> DEFINE C == {s \in SUBSET S : SumFunctionOnSet(f, s) \notin V}
<1> SUFFICES ASSUME C # {} PROVE FALSE
    OBVIOUS
<1>1. PICK s \in C : \A t \in SUBSET s : t \in C => t = s
    <2>1. C \in SUBSET SUBSET S
        OBVIOUS
    <2> HIDE DEF C
    <2> QED BY <2>1, SmallestSubset
<1>2. IsFiniteSet(s)
    BY FS_Subset
<1>3. s # {}
    <2>1. 0 \in V
        OBVIOUS
    <2> QED BY <1>1, <2>1, SumEmpty
<1>4. SumFunctionOnSet(f, s) = f[Pick(s)] + SumFunctionOnSet(f, s \ {Pick(s)})
    BY <1>2, <1>3, SumStep
<1>5. Pick(s) \in s /\ s \ {Pick(s)} \in SUBSET S
    BY <1>3, PickIn
<1>6. SumFunctionOnSet(f, s \ {Pick(s)}) \in V /\ f[Pick(s)] \in V
    BY <1>1, <1>5
<1> QED BY <1>1, <1>4, <1>6

\* Any element can be taken out first.
LEMMA SumRemove ==
    ASSUME NEW f, NEW S, IsFiniteSet(S), \A x \in S : f[x] \in Int, NEW e \in S
    PROVE  SumFunctionOnSet(f, S) = f[e] + SumFunctionOnSet(f, S \ {e})
<1> DEFINE C == {s \in SUBSET S : \E x \in s :
                    SumFunctionOnSet(f, s) # f[x] + SumFunctionOnSet(f, s \ {x})}
<1> SUFFICES ASSUME C # {} PROVE FALSE
    OBVIOUS
<1>1. PICK s \in C : \A t \in SUBSET s : t \in C => t = s
    <2>1. C \in SUBSET SUBSET S
        OBVIOUS
    <2> HIDE DEF C
    <2> QED BY <2>1, SmallestSubset
<1>2. PICK x \in s : SumFunctionOnSet(f, s) # f[x] + SumFunctionOnSet(f, s \ {x})
    BY <1>1
<1> DEFINE p == Pick(s)
           r == (s \ {p}) \ {x}
<1>3. IsFiniteSet(s) /\ p \in s /\ IsFiniteSet(s \ {x}) /\ IsFiniteSet(r)
    <2>1. IsFiniteSet(s)
        BY FS_Subset
    <2> QED BY <2>1, PickIn, FS_RemoveElement
<1>4. SumFunctionOnSet(f, s) = f[p] + SumFunctionOnSet(f, s \ {p})
    BY <1>3, SumStep
<1>5. x # p
    BY <1>2, <1>4
<1> HIDE DEF p
<1>6. SumFunctionOnSet(f, s \ {p}) = f[x] + SumFunctionOnSet(f, r)
    <2>1. s \ {p} \in SUBSET s /\ s \ {p} # s /\ x \in s \ {p}
        BY <1>3, <1>5
    <2>2. s \ {p} \notin C
        BY <1>1, <2>1
    <2> QED BY <2>1, <2>2
<1>7. SumFunctionOnSet(f, s \ {x}) = f[p] + SumFunctionOnSet(f, r)
    <2>1. s \ {x} \in SUBSET s /\ s \ {x} # s /\ p \in s \ {x}
        BY <1>3, <1>5
    <2>2. s \ {x} \notin C
        BY <1>1, <2>1
    <2>3. r = (s \ {x}) \ {p}
        OBVIOUS
    <2> QED BY <2>1, <2>2, <2>3
<1>8. SumFunctionOnSet(f, r) \in Int /\ f[x] \in Int /\ f[p] \in Int
    BY <1>1, <1>3, SumType
<1> QED BY <1>2, <1>4, <1>6, <1>7, <1>8

LEMMA SumAdd ==
    ASSUME NEW f, NEW S, IsFiniteSet(S), NEW e, e \notin S, \A x \in S \cup {e} : f[x] \in Int
    PROVE  SumFunctionOnSet(f, S \cup {e}) = SumFunctionOnSet(f, S) + f[e]
<1>1. IsFiniteSet(S \cup {e}) /\ (S \cup {e}) \ {e} = S
    BY FS_AddElement
<1>2. SumFunctionOnSet(f, S \cup {e}) = f[e] + SumFunctionOnSet(f, S)
    BY <1>1, SumRemove
<1> QED BY <1>2, SumType

\* A sum depends on the values in its set only.
LEMMA SumSame ==
    ASSUME NEW f, NEW g, NEW S, IsFiniteSet(S), \A x \in S : f[x] = g[x]
    PROVE  SumFunctionOnSet(f, S) = SumFunctionOnSet(g, S)
<1> DEFINE C == {s \in SUBSET S : SumFunctionOnSet(f, s) # SumFunctionOnSet(g, s)}
<1> SUFFICES ASSUME C # {} PROVE FALSE
    OBVIOUS
<1>1. PICK s \in C : \A t \in SUBSET s : t \in C => t = s
    <2>1. C \in SUBSET SUBSET S
        OBVIOUS
    <2> HIDE DEF C
    <2> QED BY <2>1, SmallestSubset
<1>2. IsFiniteSet(s)
    BY FS_Subset
<1>3. s # {}
    BY <1>1, SumEmpty
<1>4. /\ SumFunctionOnSet(f, s) = f[Pick(s)] + SumFunctionOnSet(f, s \ {Pick(s)})
      /\ SumFunctionOnSet(g, s) = g[Pick(s)] + SumFunctionOnSet(g, s \ {Pick(s)})
    BY <1>2, <1>3, SumStep
<1>5. Pick(s) \in s /\ s \ {Pick(s)} \in SUBSET S
    BY <1>3, PickIn
<1>6. SumFunctionOnSet(f, s \ {Pick(s)}) = SumFunctionOnSet(g, s \ {Pick(s)})
    BY <1>1, <1>5
<1> QED BY <1>1, <1>4, <1>5, <1>6

\* Adding up over indices that name every member of a set once.
ImageOf(b, s) == {b[k] : k \in s}

LEMMA SumReindex ==
    ASSUME NEW f, NEW K, IsFiniteSet(K), NEW b,
           \A j, k \in K : b[j] = b[k] => j = k,
           \A k \in K : f[b[k]] \in Int
    PROVE  SumFunctionOnSet([k \in K |-> f[b[k]]], K) = SumFunctionOnSet(f, ImageOf(b, K))
<1> DEFINE g == [k \in K |-> f[b[k]]]
           C == {s \in SUBSET K : SumFunctionOnSet(g, s) # SumFunctionOnSet(f, ImageOf(b, s))}
<1> SUFFICES ASSUME C # {} PROVE FALSE
    OBVIOUS
<1>1. PICK s \in C : \A t \in SUBSET s : t \in C => t = s
    <2>1. C \in SUBSET SUBSET K
        OBVIOUS
    <2> HIDE DEF C
    <2> QED BY <2>1, SmallestSubset
<1>2. IsFiniteSet(s) /\ IsFiniteSet(ImageOf(b, s))
    <2>1. IsFiniteSet(s)
        BY FS_Subset
    <2> DEFINE c == [k \in s |-> b[k]]
    <2>2. c \in Surjection(s, ImageOf(b, s))
        BY DEF Surjection, ImageOf
    <2> QED BY <2>1, <2>2, FS_Surjection
<1>3. s # {}
    <2>1. ImageOf(b, {}) = {}
        BY DEF ImageOf
    <2> QED BY <1>1, <2>1, SumEmpty
<1> DEFINE p == Pick(s)
           r == s \ {p}
<1>4. p \in s /\ r \in SUBSET K /\ r \in SUBSET s /\ r # s
    BY <1>3, PickIn
<1>5. SumFunctionOnSet(g, s) = g[p] + SumFunctionOnSet(g, r)
    BY <1>2, <1>3, SumStep
<1> HIDE DEF p
<1>6. b[p] \in ImageOf(b, s) /\ ImageOf(b, r) = ImageOf(b, s) \ {b[p]}
    BY <1>1, <1>4 DEF ImageOf
<1>7. SumFunctionOnSet(f, ImageOf(b, s)) = f[b[p]] + SumFunctionOnSet(f, ImageOf(b, r))
    <2>1. \A x \in ImageOf(b, s) : f[x] \in Int
        BY <1>1 DEF ImageOf
    <2> HIDE DEF r
    <2> QED BY <1>2, <1>6, <2>1, SumRemove
<1>8. SumFunctionOnSet(g, r) = SumFunctionOnSet(f, ImageOf(b, r))
    BY <1>1, <1>4
<1>9. g[p] = f[b[p]]
    BY <1>4
<1> HIDE DEF g
<1> QED BY <1>1, <1>5, <1>7, <1>8, <1>9

\* Sums add up as their functions do.
LEMMA SumPlus ==
    ASSUME NEW f, NEW g, NEW h, NEW S, IsFiniteSet(S),
           \A x \in S : f[x] \in Int /\ g[x] \in Int /\ h[x] = f[x] + g[x]
    PROVE  SumFunctionOnSet(h, S) = SumFunctionOnSet(f, S) + SumFunctionOnSet(g, S)
<1> DEFINE C == {s \in SUBSET S :
                    SumFunctionOnSet(h, s) # SumFunctionOnSet(f, s) + SumFunctionOnSet(g, s)}
<1> SUFFICES ASSUME C # {} PROVE FALSE
    OBVIOUS
<1>1. PICK s \in C : \A t \in SUBSET s : t \in C => t = s
    <2>1. C \in SUBSET SUBSET S
        OBVIOUS
    <2> HIDE DEF C
    <2> QED BY <2>1, SmallestSubset
<1>2. IsFiniteSet(s)
    BY FS_Subset
<1>3. s # {}
    <2>1. /\ SumFunctionOnSet(f, {}) = 0 /\ SumFunctionOnSet(g, {}) = 0
          /\ SumFunctionOnSet(h, {}) = 0
        BY SumEmpty
    <2>2. {} \notin C
        BY <2>1
    <2> QED BY <2>2
<1> DEFINE p == Pick(s)
           r == s \ {p}
<1>4. /\ SumFunctionOnSet(f, s) = f[p] + SumFunctionOnSet(f, r)
      /\ SumFunctionOnSet(g, s) = g[p] + SumFunctionOnSet(g, r)
      /\ SumFunctionOnSet(h, s) = h[p] + SumFunctionOnSet(h, r)
    BY <1>2, <1>3, SumStep
<1>5. p \in s /\ r \in SUBSET s /\ r # s /\ r \in SUBSET S /\ IsFiniteSet(r)
    <2>1. p \in s
        BY <1>3, PickIn
    <2> HIDE DEF p
    <2>2. IsFiniteSet(r)
        BY <1>2, FS_RemoveElement
    <2> QED BY <2>1, <2>2
<1> HIDE DEF p, r
<1>6. SumFunctionOnSet(h, r) = SumFunctionOnSet(f, r) + SumFunctionOnSet(g, r)
    BY <1>1, <1>5
<1>7. f[p] \in Int /\ g[p] \in Int /\ h[p] = f[p] + g[p]
    BY <1>5
<1>8. SumFunctionOnSet(f, r) \in Int /\ SumFunctionOnSet(g, r) \in Int
    BY <1>5, SumType
<1> QED BY <1>1, <1>4, <1>6, <1>7, <1>8

LEMMA SumZero ==
    ASSUME NEW f, NEW S, IsFiniteSet(S), \A x \in S : f[x] = 0
    PROVE  SumFunctionOnSet(f, S) = 0
<1>1. SumFunctionOnSet(f, S) = SumFunctionOnSet(f, S) + SumFunctionOnSet(f, S)
    <2>1. \A x \in S : f[x] \in Int /\ f[x] = f[x] + f[x]
        OBVIOUS
    <2> QED BY <2>1, SumPlus
<1>2. PICK n \in Int : n = SumFunctionOnSet(f, S)
    <2>1. SumFunctionOnSet(f, S) \in Int
        BY SumType
    <2> QED BY <2>1
<1>3. n = n + n
    BY <1>1, <1>2
<1>4. \A k \in Int : k = k + k => k = 0
    OBVIOUS
<1>5. n = 0
    BY <1>3, <1>4
<1> QED BY <1>2, <1>5

\* A function that is nowhere larger has a sum that is not larger.
LEMMA SumAtMost ==
    ASSUME NEW f, NEW g, NEW S, IsFiniteSet(S),
           \A x \in S : f[x] \in Int /\ g[x] \in Int /\ f[x] <= g[x]
    PROVE  SumFunctionOnSet(f, S) <= SumFunctionOnSet(g, S)
<1> DEFINE d == [x \in S |-> g[x] - f[x]]
<1>1. \A x \in S : d[x] \in Nat /\ d[x] \in Int /\ g[x] = f[x] + d[x]
    OBVIOUS
<1> HIDE DEF d
<1>2. SumFunctionOnSet(g, S) = SumFunctionOnSet(f, S) + SumFunctionOnSet(d, S)
    BY <1>1, SumPlus
<1>3. SumFunctionOnSet(d, S) \in Nat /\ SumFunctionOnSet(f, S) \in Int
    BY <1>1, SumType
<1> QED BY <1>2, <1>3

\* A change at one place changes the sum by as much.
LEMMA SumUpdate ==
    ASSUME NEW f, NEW g, NEW S, IsFiniteSet(S), NEW e \in S,
           \A x \in S : f[x] \in Int /\ g[x] \in Int, \A x \in S \ {e} : g[x] = f[x]
    PROVE  SumFunctionOnSet(g, S) = SumFunctionOnSet(f, S) - f[e] + g[e]
<1>1. IsFiniteSet(S \ {e})
    BY FS_RemoveElement
<1>2. /\ SumFunctionOnSet(f, S) = f[e] + SumFunctionOnSet(f, S \ {e})
      /\ SumFunctionOnSet(g, S) = g[e] + SumFunctionOnSet(g, S \ {e})
    BY SumRemove
<1>3. SumFunctionOnSet(g, S \ {e}) = SumFunctionOnSet(f, S \ {e})
    BY <1>1, SumSame
<1>4. SumFunctionOnSet(f, S \ {e}) \in Int
    BY <1>1, SumType
<1> QED BY <1>2, <1>3, <1>4
=============================================================================
