---------------------------- MODULE FiniteFacts -----------------------------
(***************************************************************************)
(* What the other proofs have in place of induction: least and greatest    *)
(* elements of sets of naturals, and the sums of finitely many numbers     *)
(* that the ledgers, the budgets and the harm totals are made of.  A       *)
(* statement about every k is proved as a set of naturals that holds them  *)
(* all; a statement about finite sets, by their cardinality.               *)
(***************************************************************************)
EXTENDS Integers, FiniteSets, Functions, WellFoundedInduction, FiniteSetTheorems,
        TLAPS

(* A set of naturals that is not empty has a least element.                 *)
LEMMA HasLeast ==
    ASSUME NEW T \in SUBSET Nat, T # {}
    PROVE  \E x \in T : \A y \in T : x <= y
<1>1. \E x \in T : \A y \in T : ~(<<y, x>> \in OpToRel(<, Nat))
    <2>1. IsWellFoundedOn(OpToRel(<, Nat), Nat)
      BY NatLessThanWellFounded
    <2> HIDE DEF OpToRel
    <2> QED BY <2>1, WFMin, Zenon
<1>2. PICK x \in T : \A y \in T : ~(<<y, x>> \in OpToRel(<, Nat))
    BY <1>1
<1>3. \A y \in T : ~(y < x)
    BY <1>2 DEF OpToRel
<1> QED
    BY <1>3

(* A bounded set of naturals that is not empty has a greatest element.      *)
LEMMA HasLast ==
    ASSUME NEW k \in Nat, NEW T \in SUBSET (1 .. k), T # {}
    PROVE  \E x \in T : \A y \in T : y <= x
<1> DEFINE D == {k - t : t \in T}
<1>1. \A t \in T : k - t \in Nat
    OBVIOUS
<1>2. PICK t \in T : TRUE
    OBVIOUS
<1>3. D \in SUBSET Nat
    BY <1>1
<1>4. D # {}
    BY <1>2
<1> HIDE DEF D
<1>5. PICK d \in D : \A e \in D : d <= e
    BY <1>3, <1>4, HasLeast
<1>6. PICK x \in T : d = k - x
    BY <1>5 DEF D
<1>7. \A y \in T : d <= k - y
    BY <1>5 DEF D
<1> QED
    BY <1>6, <1>7
(* Induction over the naturals, with the predicate as a set.                *)
LEMMA NatSetInduction ==
    ASSUME NEW T \in SUBSET Nat, 0 \in T, \A j \in T : j + 1 \in T
    PROVE  T = Nat
<1> DEFINE Bad == Nat \ T
<1> SUFFICES ASSUME Bad # {} PROVE FALSE
    OBVIOUS
<1>1. PICK j \in Bad : \A i \in Bad : j <= i
    <2> Bad \in SUBSET Nat
        OBVIOUS
    <2> HIDE DEF Bad
    <2> QED BY HasLeast
<1>2. j \in Nat /\ j # 0
    BY <1>1
<1>3. j - 1 \in T
    BY <1>1, <1>2
<1>4. (j - 1) + 1 \in T
    BY <1>3
<1> QED
    BY <1>1, <1>2, <1>4

PickOf(s) == CHOOSE x \in s : TRUE

SumStep(f, g, s) == IF s = {} THEN 0 ELSE f[PickOf(s)] + g[s \ {PickOf(s)}]

IsSum(f, S, g) == g = [s \in SUBSET S |-> SumStep(f, g, s)]

LEMMA SumUnfold ==
    ASSUME NEW f, NEW S
    PROVE  SumFunctionOnSet(f, S) = (CHOOSE g : IsSum(f, S, g))[S]
BY Zenon DEF SumFunctionOnSet, FoldFunctionOnSet, MapThenFoldSet, IsSum, SumStep, PickOf

LEMMA PickIn == \A s : s # {} => PickOf(s) \in s
BY DEF PickOf

(* Taking the picked element out makes a set of one element less.           *)
LEMMA SmallerRest ==
    ASSUME NEW S, IsFiniteSet(S), NEW s \in SUBSET S
    PROVE  /\ IsFiniteSet(s) /\ Cardinality(s) \in Nat
           /\ Cardinality(s) <= Cardinality(S)
           /\ \A x \in s : /\ s \ {x} \in SUBSET S
                           /\ Cardinality(s \ {x}) \in Nat
                           /\ Cardinality(s) = Cardinality(s \ {x}) + 1
<1>1. IsFiniteSet(s) /\ Cardinality(s) <= Cardinality(S)
    BY FS_Subset
<1>2. Cardinality(s) \in Nat
    BY <1>1, FS_CardinalityType
<1>3. ASSUME NEW x \in s
      PROVE  /\ s \ {x} \in SUBSET S
             /\ Cardinality(s \ {x}) \in Nat
             /\ Cardinality(s) = Cardinality(s \ {x}) + 1
    <2>1. IsFiniteSet(s \ {x}) /\ Cardinality(s \ {x}) = Cardinality(s) - 1
        BY <1>1, FS_RemoveElement
    <2>2. Cardinality(s \ {x}) \in Nat
        BY <2>1, FS_CardinalityType
    <2> QED
        BY <1>2, <2>1, <2>2
<1> QED
    BY <1>1, <1>2, <1>3

(* The function that sums f over the sets of at most k elements.            *)
SumsTo(f, S, k, g) ==
    /\ g \in [SUBSET S -> Int]
    /\ \A s \in SUBSET S : Cardinality(s) <= k => g[s] = SumStep(f, g, s)

LEMMA SumExists ==
    ASSUME NEW S, IsFiniteSet(S), NEW f \in [S -> Int], NEW k \in Nat
    PROVE  \E g : SumsTo(f, S, k, g)
<1> DEFINE Summed == {j \in Nat : \E g : SumsTo(f, S, j, g)}
<1>0. \A s \in SUBSET S : Cardinality(s) \in Nat
    BY SmallerRest
<1>1. 0 \in Summed
    <2> DEFINE g == [s \in SUBSET S |-> 0]
    <2>1. ASSUME NEW s \in SUBSET S, Cardinality(s) <= 0 PROVE s = {}
        BY <2>1, <1>0, SmallerRest, FS_EmptySet
    <2>2. SumsTo(f, S, 0, g)
        BY <2>1 DEF SumsTo, SumStep
    <2> QED
        BY <2>2
<1>2. ASSUME NEW j \in Summed PROVE j + 1 \in Summed
    <2>1. PICK g : SumsTo(f, S, j, g)
        BY <1>2
    <2> DEFINE h == [s \in SUBSET S |-> IF Cardinality(s) <= j THEN g[s] ELSE SumStep(f, g, s)]
    <2>2. \A s \in SUBSET S : SumStep(f, g, s) \in Int
        <3> TAKE s \in SUBSET S
        <3>1. CASE s = {}
            BY <3>1 DEF SumStep
        <3>2. CASE s # {}
            <4>1. PickOf(s) \in S /\ s \ {PickOf(s)} \in SUBSET S
                BY <3>2, PickIn
            <4>2. f[PickOf(s)] \in Int /\ g[s \ {PickOf(s)}] \in Int
                BY <2>1, <4>1 DEF SumsTo
            <4> QED
                BY <3>2, <4>2 DEF SumStep
        <3> QED BY <3>1, <3>2
    <2>3. h \in [SUBSET S -> Int]
        BY <2>1, <2>2 DEF SumsTo
    <2>4. ASSUME NEW s \in SUBSET S, Cardinality(s) <= j + 1
          PROVE  h[s] = SumStep(f, h, s)
        <3>1. h[s] = SumStep(f, g, s)
            BY <2>1 DEF SumsTo
        <3>2. s # {} => h[s \ {PickOf(s)}] = g[s \ {PickOf(s)}]
            <4> SUFFICES ASSUME s # {} PROVE h[s \ {PickOf(s)}] = g[s \ {PickOf(s)}]
                OBVIOUS
            <4>1. /\ s \ {PickOf(s)} \in SUBSET S
                  /\ Cardinality(s \ {PickOf(s)}) \in Nat
                  /\ Cardinality(s) = Cardinality(s \ {PickOf(s)}) + 1
                BY PickIn, SmallerRest
            <4>2. Cardinality(s \ {PickOf(s)}) <= j
                BY <2>4, <4>1
            <4> QED
                BY <4>1, <4>2
        <3> QED
            BY <3>1, <3>2 DEF SumStep
    <2> HIDE DEF h
    <2>5. SumsTo(f, S, j + 1, h)
        BY <2>3, <2>4 DEF SumsTo
    <2> QED
        BY <2>5
<1>3. Summed = Nat
    <2> Summed \in SUBSET Nat
        OBVIOUS
    <2> HIDE DEF Summed
    <2> QED BY <1>1, <1>2, NatSetInduction
<1> QED
    BY <1>3

(* SumFunctionOnSet is the sum: zero on the empty set, and one element and  *)
(* the sum of the others.                                                   *)
TheSum(f, S) == CHOOSE g : IsSum(f, S, g)

LEMMA SumDefined ==
    ASSUME NEW S, IsFiniteSet(S), NEW f \in [S -> Int]
    PROVE  \A s \in SUBSET S : TheSum(f, S)[s] = SumStep(f, TheSum(f, S), s)
<1>1. Cardinality(S) \in Nat
    BY FS_CardinalityType
<1>2. PICK g : SumsTo(f, S, Cardinality(S), g)
    BY <1>1, SumExists
<1>3. \A s \in SUBSET S : g[s] = SumStep(f, g, s)
    BY <1>2, SmallerRest DEF SumsTo
<1>4. IsSum(f, S, g)
    BY <1>2, <1>3 DEF SumsTo, IsSum
<1>5. IsSum(f, S, TheSum(f, S))
    BY <1>4 DEF TheSum
<1> HIDE DEF TheSum
<1> QED
    BY <1>5 DEF IsSum

(* The sum over a part of S is the same whether it is taken alone or on the *)
(* way to the sum over S, and it is a number.                               *)
LEMMA SumLocal ==
    ASSUME NEW S, IsFiniteSet(S), NEW f \in [S -> Int],
           NEW R \in SUBSET S, NEW h \in [R -> Int], \A x \in R : h[x] = f[x]
    PROVE  \A s \in SUBSET R : /\ TheSum(f, S)[s] = TheSum(h, R)[s]
                              /\ TheSum(f, S)[s] \in Int
<1> DEFINE F == TheSum(f, S)
           H == TheSum(h, R)
           Same(s) == F[s] = H[s] /\ F[s] \in Int
           Good == {k \in Nat : \A s \in SUBSET R : Cardinality(s) = k => Same(s)}
<1>0. IsFiniteSet(R)
    BY FS_Subset
<1>1. \A s \in SUBSET S : F[s] = SumStep(f, F, s)
    BY SumDefined
<1>2. \A s \in SUBSET R : H[s] = SumStep(h, H, s)
    BY <1>0, SumDefined
<1> HIDE DEF F, H
<1>3. 0 \in Good
    <2> SUFFICES ASSUME NEW s \in SUBSET R, Cardinality(s) = 0 PROVE Same(s)
        OBVIOUS
    <2>1. s = {}
        BY <1>0, SmallerRest, FS_EmptySet
    <2>2. F[s] = 0 /\ H[s] = 0
        BY <2>1, <1>1, <1>2 DEF SumStep
    <2> QED
        BY <2>2
<1>4. ASSUME NEW k \in Good PROVE k + 1 \in Good
    <2> SUFFICES ASSUME NEW s \in SUBSET R, Cardinality(s) = k + 1 PROVE Same(s)
        OBVIOUS
    <2>0. k \in Nat
        BY <1>4
    <2>1. s # {}
        <3>1. Cardinality({}) = 0
            BY FS_EmptySet
        <3> QED BY <3>1, <2>0
    <2> DEFINE x == PickOf(s)
    <2>2. x \in s /\ x \in R /\ x \in S
        BY <2>1, PickIn
    <2>3. s \ {x} \in SUBSET R /\ Cardinality(s \ {x}) = k
        <3> HIDE DEF x
        <3>1. s \ {x} \in SUBSET R
            OBVIOUS
        <3>2. Cardinality(s \ {x}) \in Nat /\ Cardinality(s) = Cardinality(s \ {x}) + 1
            BY <2>2, <1>0, SmallerRest
        <3> QED BY <3>1, <3>2, <2>0
    <2>4. Same(s \ {x})
        BY <2>3, <1>4
    <2>5. F[s] = f[x] + F[s \ {x}] /\ H[s] = h[x] + H[s \ {x}]
        BY <2>1, <1>1, <1>2 DEF SumStep
    <2> QED
        BY <2>2, <2>4, <2>5
<1>5. Good = Nat
    <2> Good \in SUBSET Nat
        OBVIOUS
    <2> HIDE DEF Good
    <2> QED BY <1>3, <1>4, NatSetInduction
<1>6. \A s \in SUBSET R : Same(s)
    BY <1>5, <1>0, SmallerRest
<1> QED
    BY <1>6 DEF F, H

----------------------------------------------------------------------------
(* The facts the other proofs cite.                                         *)

LEMMA SumIsInt ==
    ASSUME NEW S, IsFiniteSet(S), NEW f \in [S -> Int]
    PROVE  SumFunctionOnSet(f, S) \in Int
<1>1. TheSum(f, S)[S] \in Int
    BY SumLocal
<1> QED
    BY <1>1, SumUnfold DEF TheSum

LEMMA SumOfNothing ==
    ASSUME NEW f \in [{} -> Int]
    PROVE  SumFunctionOnSet(f, {}) = 0
<1>1. TheSum(f, {})[{}] = SumStep(f, TheSum(f, {}), {})
    BY FS_EmptySet, SumDefined
<1>2. TheSum(f, {})[{}] = 0
    BY <1>1 DEF SumStep
<1> QED
    BY <1>2, SumUnfold DEF TheSum

(* The sum over S is the value at the picked element and the rest.          *)
LEMMA SumPickOf ==
    ASSUME NEW S, IsFiniteSet(S), S # {}, NEW f \in [S -> Int],
           NEW h \in [S \ {PickOf(S)} -> Int], \A x \in S \ {PickOf(S)} : h[x] = f[x]
    PROVE  SumFunctionOnSet(f, S)
             = f[PickOf(S)] + SumFunctionOnSet(h, S \ {PickOf(S)})
<1> DEFINE R == S \ {PickOf(S)}
<1>1. TheSum(f, S)[S] = f[PickOf(S)] + TheSum(f, S)[R]
    BY SumDefined DEF SumStep
<1>2. TheSum(f, S)[R] = TheSum(h, R)[R]
    BY SumLocal
<1>3. SumFunctionOnSet(f, S) = TheSum(f, S)[S]
    BY SumUnfold DEF TheSum
<1>4. SumFunctionOnSet(h, R) = TheSum(h, R)[R]
    BY SumUnfold DEF TheSum
<1> QED
    BY <1>1, <1>2, <1>3, <1>4

(* The sum over S is the value at any element and the sum of the others.    *)
LEMMA SumRemove ==
    ASSUME NEW S, IsFiniteSet(S), NEW f \in [S -> Int], NEW x \in S
    PROVE  SumFunctionOnSet(f, S)
             = f[x] + SumFunctionOnSet(Restrict(f, S \ {x}), S \ {x})
<1> DEFINE Sum(s) == SumFunctionOnSet(Restrict(f, s), s)
           Splits(s) == \A y \in s : Sum(s) = f[y] + Sum(s \ {y})
           Good == {k \in Nat : \A s \in SUBSET S : Cardinality(s) = k => Splits(s)}
<1>0. \A s \in SUBSET S : /\ IsFiniteSet(s) /\ Restrict(f, s) \in [s -> Int]
                          /\ Sum(s) \in Int
    <2> TAKE s \in SUBSET S
    <2>1. IsFiniteSet(s) /\ Restrict(f, s) \in [s -> Int]
        BY FS_Subset DEF Restrict
    <2> QED
        BY <2>1, SumIsInt
<1>1. ASSUME NEW s \in SUBSET S, s # {}
      PROVE  PickOf(s) \in s /\ Sum(s) = f[PickOf(s)] + Sum(s \ {PickOf(s)})
    <2>1. PickOf(s) \in s
        BY <1>1, PickIn
    <2>2. s \ {PickOf(s)} \in SUBSET S
        OBVIOUS
    <2>3. Restrict(f, s \ {PickOf(s)}) \in [s \ {PickOf(s)} -> Int]
        BY <2>2, <1>0
    <2>4. \A y \in s \ {PickOf(s)} : Restrict(f, s \ {PickOf(s)})[y] = Restrict(f, s)[y]
        BY DEF Restrict
    <2>5. Restrict(f, s)[PickOf(s)] = f[PickOf(s)]
        BY <2>1 DEF Restrict
    <2>6. Sum(s) = Restrict(f, s)[PickOf(s)] + Sum(s \ {PickOf(s)})
        BY <1>0, <1>1, <2>3, <2>4, SumPickOf
    <2> QED
        BY <2>1, <2>5, <2>6
<1> HIDE DEF Sum
<1>2. 0 \in Good
    <2> SUFFICES ASSUME NEW s \in SUBSET S, Cardinality(s) = 0 PROVE Splits(s)
        OBVIOUS
    <2>1. s = {}
        BY <1>0, FS_EmptySet
    <2> QED
        BY <2>1
<1>3. ASSUME NEW k \in Good PROVE k + 1 \in Good
    <2> SUFFICES ASSUME NEW s \in SUBSET S, Cardinality(s) = k + 1, NEW y \in s
                 PROVE  Sum(s) = f[y] + Sum(s \ {y})
        OBVIOUS
    <2>0. k \in Nat
        BY <1>3
    <2>1. PickOf(s) \in s /\ Sum(s) = f[PickOf(s)] + Sum(s \ {PickOf(s)})
        BY <1>1
    <2>2. CASE y = PickOf(s)
        BY <2>1, <2>2
    <2>3. CASE y # PickOf(s)
        <3> DEFINE z == PickOf(s)
                   r == (s \ {y}) \ {z}
        <3>1. y \in s \ {z} /\ z \in s \ {y}
            BY <2>1, <2>3
        <3> HIDE DEF z
        <3>2. /\ s \ {z} \in SUBSET S /\ s \ {y} \in SUBSET S
              /\ (s \ {z}) \ {y} = r
            OBVIOUS
        <3>3. Cardinality(s \ {z}) = k /\ Cardinality(s \ {y}) = k
            <4>1. \A x1 \in s : /\ Cardinality(s \ {x1}) \in Nat
                                /\ Cardinality(s) = Cardinality(s \ {x1}) + 1
                BY SmallerRest
            <4> QED BY <4>1, <3>1, <2>0
        <3>4. Splits(s \ {z}) /\ Splits(s \ {y})
            BY <3>2, <3>3, <1>3
        <3>5. Sum(s \ {z}) = f[y] + Sum(r) /\ Sum(s \ {y}) = f[z] + Sum(r)
            BY <3>1, <3>2, <3>4
        <3>6. Sum(s) = f[z] + Sum(s \ {z})
            BY <2>1 DEF z
        <3>7. f[y] \in Int /\ f[z] \in Int /\ Sum(r) \in Int
            BY <3>1, <1>0
        <3> QED
            BY <3>5, <3>6, <3>7
    <2> QED BY <2>2, <2>3
<1>4. Good = Nat
    <2> Good \in SUBSET Nat
        OBVIOUS
    <2> HIDE DEF Good
    <2> QED BY <1>2, <1>3, NatSetInduction
<1>5. Splits(S)
    BY <1>4, FS_CardinalityType
<1>6. Restrict(f, S) = f
    BY DEF Restrict
<1> QED
    BY <1>5, <1>6 DEF Sum

(* Sums are additive over a set and the rest of it.                         *)
LEMMA SumSplit ==
    ASSUME NEW S, IsFiniteSet(S), NEW f \in [S -> Int], NEW T \in SUBSET S
    PROVE  SumFunctionOnSet(f, S) = SumFunctionOnSet(Restrict(f, T), T)
                                    + SumFunctionOnSet(Restrict(f, S \ T), S \ T)
<1> DEFINE Sum(s) == SumFunctionOnSet(Restrict(f, s), s)
           Splits(s) == \A r \in SUBSET s : Sum(s) = Sum(r) + Sum(s \ r)
           Good == {k \in Nat : \A s \in SUBSET S : Cardinality(s) = k => Splits(s)}
<1>0. \A s \in SUBSET S : /\ IsFiniteSet(s) /\ Restrict(f, s) \in [s -> Int]
                          /\ Sum(s) \in Int
    <2> TAKE s \in SUBSET S
    <2>1. IsFiniteSet(s) /\ Restrict(f, s) \in [s -> Int]
        BY FS_Subset DEF Restrict
    <2> QED
        BY <2>1, SumIsInt
<1>1. ASSUME NEW s \in SUBSET S, NEW y \in s
      PROVE  Sum(s) = f[y] + Sum(s \ {y})
    <2>1. Restrict(Restrict(f, s), s \ {y}) = Restrict(f, s \ {y})
        BY DEF Restrict
    <2>2. Restrict(f, s)[y] = f[y]
        BY DEF Restrict
    <2>3. Sum(s) = Restrict(f, s)[y]
                   + SumFunctionOnSet(Restrict(Restrict(f, s), s \ {y}), s \ {y})
        BY <1>0, SumRemove
    <2> QED
        BY <2>1, <2>2, <2>3
<1>2. Sum({}) = 0
    <2>1. Restrict(f, {}) \in [{} -> Int]
        BY <1>0
    <2> QED
        BY <2>1, SumOfNothing
<1> HIDE DEF Sum
<1>3. \A s \in SUBSET S : Sum(s) = Sum({}) + Sum(s \ {})
    <2> TAKE s \in SUBSET S
    <2>1. s \ {} = s /\ Sum(s) \in Int
        BY <1>0
    <2> QED
        BY <2>1, <1>2
<1>4. 0 \in Good
    <2> SUFFICES ASSUME NEW s \in SUBSET S, Cardinality(s) = 0, NEW r \in SUBSET s
                 PROVE  Sum(s) = Sum(r) + Sum(s \ r)
        OBVIOUS
    <2>1. s = {}
        BY <1>0, FS_EmptySet
    <2>2. r = {}
        BY <2>1
    <2> QED
        BY <2>2, <1>3
<1>5. ASSUME NEW k \in Good PROVE k + 1 \in Good
    <2> SUFFICES ASSUME NEW s \in SUBSET S, Cardinality(s) = k + 1, NEW r \in SUBSET s
                 PROVE  Sum(s) = Sum(r) + Sum(s \ r)
        OBVIOUS
    <2>0. k \in Nat
        BY <1>5
    <2>1. CASE r = {}
        BY <2>1, <1>3
    <2>2. CASE r # {}
        <3>1. PICK y : y \in r
            BY <2>2
        <3>2. /\ y \in s /\ y \in S /\ r \in SUBSET S /\ s \ {y} \in SUBSET S
              /\ r \ {y} \in SUBSET (s \ {y}) /\ r \ {y} \in SUBSET S
              /\ (s \ {y}) \ (r \ {y}) = s \ r /\ s \ r \in SUBSET S
            BY <3>1
        <3>3. Cardinality(s \ {y}) = k
            <4>1. /\ Cardinality(s \ {y}) \in Nat
                  /\ Cardinality(s) = Cardinality(s \ {y}) + 1
                BY <3>2, SmallerRest
            <4> QED BY <4>1, <2>0
        <3>4. Splits(s \ {y})
            BY <3>2, <3>3, <1>5
        <3>5. Sum(s \ {y}) = Sum(r \ {y}) + Sum(s \ r)
            BY <3>2, <3>4
        <3>6. Sum(s) = f[y] + Sum(s \ {y}) /\ Sum(r) = f[y] + Sum(r \ {y})
            BY <3>1, <3>2, <1>1
        <3>7. f[y] \in Int /\ Sum(r \ {y}) \in Int /\ Sum(s \ r) \in Int
            BY <3>2, <1>0
        <3> QED
            BY <3>5, <3>6, <3>7
    <2> QED BY <2>1, <2>2
<1>6. Good = Nat
    <2> Good \in SUBSET Nat
        OBVIOUS
    <2> HIDE DEF Good
    <2> QED BY <1>4, <1>5, NatSetInduction
<1>7. Splits(S)
    BY <1>6, FS_CardinalityType
<1>8. Restrict(f, S) = f
    BY DEF Restrict
<1> QED
    BY <1>7, <1>8 DEF Sum

(* A sum of members of a set that is closed under addition is in the set.   *)
LEMMA SumInside ==
    ASSUME NEW V \in SUBSET Int, 0 \in V, \A a, b \in V : a + b \in V,
           NEW S, IsFiniteSet(S), NEW f \in [S -> V]
    PROVE  SumFunctionOnSet(f, S) \in V
<1> DEFINE Sum(s) == SumFunctionOnSet(Restrict(f, s), s)
           Good == {k \in Nat : \A s \in SUBSET S : Cardinality(s) = k => Sum(s) \in V}
<1>0. \A s \in SUBSET S : IsFiniteSet(s) /\ Restrict(f, s) \in [s -> Int]
    <2> TAKE s \in SUBSET S
    <2> QED
        BY FS_Subset DEF Restrict
<1>1. ASSUME NEW s \in SUBSET S, NEW y \in s
      PROVE  Sum(s) = f[y] + Sum(s \ {y})
    <2>1. Restrict(Restrict(f, s), s \ {y}) = Restrict(f, s \ {y})
        BY DEF Restrict
    <2>2. Restrict(f, s)[y] = f[y]
        BY DEF Restrict
    <2>3. Sum(s) = Restrict(f, s)[y]
                   + SumFunctionOnSet(Restrict(Restrict(f, s), s \ {y}), s \ {y})
        BY <1>0, SumRemove
    <2> QED
        BY <2>1, <2>2, <2>3
<1>2. Sum({}) = 0
    <2>1. Restrict(f, {}) \in [{} -> Int]
        BY <1>0
    <2> QED
        BY <2>1, SumOfNothing
<1> HIDE DEF Sum
<1>4. 0 \in Good
    <2> SUFFICES ASSUME NEW s \in SUBSET S, Cardinality(s) = 0
                 PROVE  Sum(s) \in V
        OBVIOUS
    <2>1. s = {}
        BY <1>0, FS_EmptySet
    <2> QED
        BY <2>1, <1>2
<1>5. ASSUME NEW k \in Good PROVE k + 1 \in Good
    <2> SUFFICES ASSUME NEW s \in SUBSET S, Cardinality(s) = k + 1
                 PROVE  Sum(s) \in V
        OBVIOUS
    <2>0. k \in Nat
        BY <1>5
    <2>1. CASE s = {}
        BY <2>1, <1>2
    <2>2. CASE s # {}
        <3>1. PICK y : y \in s
            BY <2>2
        <3>2. y \in S /\ s \ {y} \in SUBSET S
            BY <3>1
        <3>3. Cardinality(s \ {y}) = k
            <4>1. /\ Cardinality(s \ {y}) \in Nat
                  /\ Cardinality(s) = Cardinality(s \ {y}) + 1
                BY <3>1, SmallerRest
            <4> QED BY <4>1, <2>0
        <3>4. Sum(s \ {y}) \in V
            BY <3>2, <3>3, <1>5
        <3>5. Sum(s) = f[y] + Sum(s \ {y}) /\ f[y] \in V
            BY <3>1, <3>2, <1>1
        <3> QED
            BY <3>4, <3>5
    <2> QED BY <2>1, <2>2
<1>6. Good = Nat
    <2> Good \in SUBSET Nat
        OBVIOUS
    <2> HIDE DEF Good
    <2> QED BY <1>4, <1>5, NatSetInduction
<1>7. Sum(S) \in V
    BY <1>6, FS_CardinalityType
<1>8. Restrict(f, S) = f
    BY DEF Restrict
<1> QED
    BY <1>7, <1>8 DEF Sum

(* A sum of naturals is a natural.                                          *)
LEMMA SumIsNat ==
    ASSUME NEW S, IsFiniteSet(S), NEW f \in [S -> Nat]
    PROVE  SumFunctionOnSet(f, S) \in Nat
<1>1. Nat \in SUBSET Int /\ 0 \in Nat /\ \A a, b \in Nat : a + b \in Nat
    OBVIOUS
<1> QED
    BY <1>1, SumInside

(* A sum of zeros is zero.                                                  *)
LEMMA SumOfZeros ==
    ASSUME NEW S, IsFiniteSet(S)
    PROVE  SumFunctionOnSet([x \in S |-> 0], S) = 0
<1>1. {0} \in SUBSET Int /\ 0 \in {0} /\ \A a, b \in {0} : a + b \in {0}
    OBVIOUS
<1>2. [x \in S |-> 0] \in [S -> {0}]
    OBVIOUS
<1>3. SumFunctionOnSet([x \in S |-> 0], S) \in {0}
    BY <1>1, <1>2, SumInside
<1> QED
    BY <1>3

(* A change at one place is a change in all.                                *)
LEMMA SumOfChange ==
    ASSUME NEW S, IsFiniteSet(S), NEW f \in [S -> Nat], NEW x \in S, NEW v \in Nat
    PROVE  /\ SumFunction(f) \in Nat
           /\ SumFunction([f EXCEPT ![x] = v]) = SumFunction(f) - f[x] + v
<1> DEFINE g == [f EXCEPT ![x] = v]
<1>1. g \in [S -> Int] /\ f \in [S -> Int] /\ g[x] = v
    OBVIOUS
<1>2. Restrict(f, S \ {x}) = Restrict(g, S \ {x})
    BY DEF Restrict
<1>3. DOMAIN f = S /\ DOMAIN g = S
    OBVIOUS
<1> HIDE DEF g
<1>4. Restrict(f, S \ {x}) \in [S \ {x} -> Nat] /\ IsFiniteSet(S \ {x})
    BY FS_Subset DEF Restrict
<1>5. SumFunctionOnSet(Restrict(f, S \ {x}), S \ {x}) \in Nat
    BY <1>4, SumIsNat
<1>6. /\ SumFunctionOnSet(f, S) = f[x] + SumFunctionOnSet(Restrict(f, S \ {x}), S \ {x})
      /\ SumFunctionOnSet(g, S) = g[x] + SumFunctionOnSet(Restrict(g, S \ {x}), S \ {x})
    BY <1>1, SumRemove
<1>7. f[x] \in Nat
    OBVIOUS
<1>8. SumFunctionOnSet(g, S) = SumFunctionOnSet(f, S) - f[x] + v /\ SumFunctionOnSet(f, S) \in Nat
    BY <1>1, <1>2, <1>5, <1>6, <1>7
<1> QED
    BY <1>3, <1>8 DEF SumFunction, g

(* One more at one place is one more in all.                                *)
LEMMA SumOfOneMore ==
    ASSUME NEW S, IsFiniteSet(S), NEW f \in [S -> Nat], NEW x \in S
    PROVE  /\ SumFunction(f) \in Nat
           /\ SumFunction([f EXCEPT ![x] = @ + 1]) = SumFunction(f) + 1
<1>1. f[x] + 1 \in Nat /\ f[x] \in Nat
    OBVIOUS
<1>2. /\ SumFunction(f) \in Nat
      /\ SumFunction([f EXCEPT ![x] = f[x] + 1]) = SumFunction(f) - f[x] + (f[x] + 1)
    BY <1>1, SumOfChange
<1> QED
    BY <1>1, <1>2

(* A sum of numbers up to m is at most m for each.                          *)
LEMMA SumIsBounded ==
    ASSUME NEW m \in Nat, NEW S, IsFiniteSet(S), NEW f \in [S -> 0 .. m]
    PROVE  SumFunctionOnSet(f, S) <= Cardinality(S) * m
<1> DEFINE Sum(s) == SumFunctionOnSet(Restrict(f, s), s)
           Good == {k \in Nat : \A s \in SUBSET S : Cardinality(s) = k => Sum(s) <= k * m}
<1>0. \A s \in SUBSET S : /\ IsFiniteSet(s) /\ Restrict(f, s) \in [s -> Int]
                          /\ Sum(s) \in Int
    <2> TAKE s \in SUBSET S
    <2>1. IsFiniteSet(s) /\ Restrict(f, s) \in [s -> Int]
        BY FS_Subset DEF Restrict
    <2> QED
        BY <2>1, SumIsInt
<1>1. ASSUME NEW s \in SUBSET S, NEW y \in s
      PROVE  Sum(s) = f[y] + Sum(s \ {y})
    <2>1. Restrict(Restrict(f, s), s \ {y}) = Restrict(f, s \ {y})
        BY DEF Restrict
    <2>2. Restrict(f, s)[y] = f[y]
        BY DEF Restrict
    <2>3. Sum(s) = Restrict(f, s)[y]
                   + SumFunctionOnSet(Restrict(Restrict(f, s), s \ {y}), s \ {y})
        BY <1>0, SumRemove
    <2> QED
        BY <2>1, <2>2, <2>3
<1>2. Sum({}) = 0
    <2>1. Restrict(f, {}) \in [{} -> Int]
        BY <1>0
    <2> QED
        BY <2>1, SumOfNothing
<1> HIDE DEF Sum
<1>4. 0 \in Good
    <2> SUFFICES ASSUME NEW s \in SUBSET S, Cardinality(s) = 0
                 PROVE  Sum(s) <= 0 * m
        OBVIOUS
    <2>1. s = {}
        BY <1>0, FS_EmptySet
    <2> QED
        BY <2>1, <1>2
<1>5. ASSUME NEW k \in Good PROVE k + 1 \in Good
    <2> SUFFICES ASSUME NEW s \in SUBSET S, Cardinality(s) = k + 1
                 PROVE  Sum(s) <= (k + 1) * m
        OBVIOUS
    <2>0. k \in Nat
        BY <1>5
    <2>1. s # {}
        <3>1. Cardinality({}) = 0
            BY FS_EmptySet
        <3> QED BY <3>1, <2>0
    <2>2. PICK y : y \in s
        BY <2>1
    <2>3. y \in S /\ s \ {y} \in SUBSET S
        BY <2>2
    <2>4. Cardinality(s \ {y}) = k
        <3>1. /\ Cardinality(s \ {y}) \in Nat
              /\ Cardinality(s) = Cardinality(s \ {y}) + 1
            BY <2>2, SmallerRest
        <3> QED BY <3>1, <2>0
    <2>5. Sum(s \ {y}) <= k * m
        BY <2>3, <2>4, <1>5
    <2>6. Sum(s) = f[y] + Sum(s \ {y}) /\ f[y] \in 0 .. m /\ Sum(s \ {y}) \in Int
        BY <2>2, <2>3, <1>0, <1>1
    <2>7. (k + 1) * m = k * m + m /\ k * m \in Int
        BY <2>0
    <2> QED
        BY <2>5, <2>6, <2>7
<1>6. Good = Nat
    <2> Good \in SUBSET Nat
        OBVIOUS
    <2> HIDE DEF Good
    <2> QED BY <1>4, <1>5, NatSetInduction
<1>7. Sum(S) <= Cardinality(S) * m
    BY <1>6, FS_CardinalityType
<1>8. Restrict(f, S) = f
    BY DEF Restrict
<1> QED
    BY <1>7, <1>8 DEF Sum

(* Of a sum of naturals, a part is at most the whole.                       *)
LEMMA SumOfPart ==
    ASSUME NEW S, IsFiniteSet(S), NEW f \in [S -> Nat], NEW T \in SUBSET S
    PROVE  SumFunctionOnSet(Restrict(f, T), T) <= SumFunctionOnSet(f, S)
<1>1. f \in [S -> Int]
    OBVIOUS
<1>2. /\ Restrict(f, T) \in [T -> Nat] /\ Restrict(f, S \ T) \in [S \ T -> Nat]
      /\ IsFiniteSet(T) /\ IsFiniteSet(S \ T)
    BY FS_Subset DEF Restrict
<1>3. /\ SumFunctionOnSet(Restrict(f, T), T) \in Nat
      /\ SumFunctionOnSet(Restrict(f, S \ T), S \ T) \in Nat
    BY <1>2, SumIsNat
<1>4. SumFunctionOnSet(f, S) = SumFunctionOnSet(Restrict(f, T), T)
                               + SumFunctionOnSet(Restrict(f, S \ T), S \ T)
    BY <1>1, SumSplit
<1> QED
    BY <1>3, <1>4
=============================================================================
