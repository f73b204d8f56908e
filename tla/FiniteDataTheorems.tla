------------------------- MODULE FiniteDataTheorems -------------------------
(***************************************************************************)
(* Facts about the sum of a function's values over a finite set,            *)
(* SumFunctionOnSet of the community module Functions.  The function that   *)
(* defines it by recursion over the subsets exists, because it can be built *)
(* cardinality by cardinality; everything else follows from its equation.   *)
(* The image and the greatest element of a finite set are here too.         *)
(* Induction is by a least counterexample in Nat.                           *)
(***************************************************************************)
EXTENDS Integers, FiniteSets, FiniteSetsExt, Functions, FiniteSetTheorems,
        WellFoundedInduction, TLAPS

Pick(s) == CHOOSE x \in s : TRUE

Step(f, h, s) == IF s = {} THEN 0 ELSE f[Pick(s)] + h[s \ {Pick(s)}]

(* The recursive function inside SumFunctionOnSet(f, S).                     *)
Rec(f, S) == CHOOSE h : h = [s \in SUBSET S |-> Step(f, h, s)]

Summable(f, S) == IsFiniteSet(S) /\ \A x \in S : f[x] \in Int

LEMMA SumIsRec ==
    ASSUME NEW f, NEW S
    PROVE  SumFunctionOnSet(f, S) = Rec(f, S)[S]
BY DEF SumFunctionOnSet, FoldFunctionOnSet, MapThenFoldSet, Pick, Step, Rec

(* A set of natural numbers that is not empty has a least element.           *)
LEMMA LeastElement ==
    ASSUME NEW T, T \subseteq Nat, T # {}
    PROVE  \E n \in T : \A m \in T : n <= m
<1>1. \E n \in T : \A m \in T : ~(<<m, n>> \in OpToRel(<, Nat))
  BY NatLessThanWellFounded, WFMin, Zenon
<1>2. \A m, n \in T : m < n => <<m, n>> \in OpToRel(<, Nat)
  BY DEF OpToRel
<1>3. PICK n \in T : \A m \in T : ~(<<m, n>> \in OpToRel(<, Nat))
  BY <1>1
<1>4. \A m \in T : ~(m < n)
  BY <1>2, <1>3, Zenon
<1>. QED  BY <1>4

LEMMA PickInSet == ASSUME NEW s, s # {} PROVE Pick(s) \in s
BY DEF Pick

LEMMA RemovePick ==
    ASSUME NEW s, IsFiniteSet(s), s # {}
    PROVE  /\ IsFiniteSet(s \ {Pick(s)})
           /\ Cardinality(s) \in Nat
           /\ Cardinality(s \ {Pick(s)}) = Cardinality(s) - 1
           /\ Cardinality(s) # 0
BY PickInSet, FS_RemoveElement, FS_CardinalityType, FS_EmptySet

(* The recursion has a solution.                                             *)
LEMMA RecExists ==
    ASSUME NEW f, NEW S, Summable(f, S)
    PROVE  \E h \in [SUBSET S -> Int] : \A s \in SUBSET S : h[s] = Step(f, h, s)
<1>. DEFINE U(n) == {s \in SUBSET S : Cardinality(s) <= n}
            Good(n) == \E h \in [U(n) -> Int] : \A s \in U(n) : h[s] = Step(f, h, s)
            T == {n \in Nat : ~Good(n)}
<1>1. \A s \in SUBSET S : IsFiniteSet(s) /\ Cardinality(s) \in Nat
  BY FS_Subset, FS_CardinalityType DEF Summable
<1>2. Good(0)
  <2>1. \A s \in U(0) : s = {}
    BY <1>1, FS_EmptySet
  <2>. DEFINE h == [s \in U(0) |-> 0]
  <2>2. h \in [U(0) -> Int] /\ \A s \in U(0) : h[s] = Step(f, h, s)
    BY <2>1 DEF Step
  <2>. QED  BY <2>2
<1>3. ASSUME NEW n \in Nat, Good(n) PROVE Good(n + 1)
  <2>1. PICK g \in [U(n) -> Int] : \A s \in U(n) : g[s] = Step(f, g, s)
    BY <1>3
  <2>. DEFINE h == [s \in U(n + 1) |-> Step(f, g, s)]
  <2>2. ASSUME NEW s \in U(n + 1), s # {}
        PROVE  Pick(s) \in S /\ s \ {Pick(s)} \in U(n)
    BY <2>2, <1>1, PickInSet, RemovePick
  <2>3. \A s \in U(n + 1) : Step(f, g, s) \in Int
    BY <2>1, <2>2 DEF Step, Summable
  <2>4. \A s \in U(n) : s \in U(n + 1) /\ h[s] = g[s]
    BY <1>1, <2>1
  <2>5. \A s \in U(n + 1) : h[s] = Step(f, h, s)
    BY <2>2, <2>4 DEF Step
  <2>. QED  BY <2>3, <2>5
<1>4. T = {}
  <2>1. SUFFICES ASSUME T # {} PROVE FALSE
    OBVIOUS
  <2>2. PICK n \in T : \A m \in T : n <= m
    BY <2>1, LeastElement
  <2>. n \in Nat /\ ~Good(n)
    BY <2>2
  <2>. HIDE DEF Good
  <2>3. n # 0
    BY <1>2, Zenon
  <2>4. n - 1 \in Nat /\ Good(n - 1)
    BY <2>2, <2>3
  <2>5. Good((n - 1) + 1)
    BY <1>3, <2>4
  <2>6. (n - 1) + 1 = n
    BY <2>3
  <2>. QED  BY <2>5, <2>6, Zenon
<1>5. Good(Cardinality(S)) /\ U(Cardinality(S)) = SUBSET S
  BY <1>1, <1>4, FS_Subset DEF Summable
<1>. QED  BY <1>5

(* Two solutions, over sets and functions that agree on s, agree on s.       *)
LEMMA RecUnique ==
    ASSUME NEW R, IsFiniteSet(R),
           NEW f, NEW g, \A x \in R : f[x] = g[x],
           NEW h, NEW k,
           \A s \in SUBSET R : h[s] = Step(f, h, s),
           \A s \in SUBSET R : k[s] = Step(g, k, s)
    PROVE  \A s \in SUBSET R : h[s] = k[s]
<1>. DEFINE T == {Cardinality(s) : s \in {t \in SUBSET R : h[t] # k[t]}}
<1>1. \A s \in SUBSET R : IsFiniteSet(s) /\ Cardinality(s) \in Nat
  BY FS_Subset, FS_CardinalityType
<1>2. SUFFICES ASSUME T # {} PROVE FALSE
  OBVIOUS
<1>3. PICK n \in T : \A m \in T : n <= m
  <2>1. T \subseteq Nat
    BY <1>1
  <2>. QED  BY <2>1, <1>2, LeastElement
<1>4. PICK s \in SUBSET R : h[s] # k[s] /\ Cardinality(s) = n
  BY <1>3
<1>5. s # {}
  BY <1>4 DEF Step
<1>. DEFINE r == s \ {Pick(s)}
<1>6. /\ Pick(s) \in R /\ r \in SUBSET R
      /\ Cardinality(r) = n - 1 /\ n \in Nat
  BY <1>1, <1>4, <1>5, PickInSet, RemovePick
<1>7. h[r] = k[r]
  BY <1>3, <1>6
<1>8. h[s] = f[Pick(s)] + h[r] /\ k[s] = g[Pick(s)] + k[r]
  BY <1>4, <1>5 DEF Step
<1>. QED  BY <1>4, <1>6, <1>7, <1>8

LEMMA RecEquation ==
    ASSUME NEW f, NEW S, Summable(f, S)
    PROVE  /\ \A s \in SUBSET S : Rec(f, S)[s] = Step(f, Rec(f, S), s)
           /\ Rec(f, S) \in [SUBSET S -> Int]
<1>1. PICK h \in [SUBSET S -> Int] : \A s \in SUBSET S : h[s] = Step(f, h, s)
  BY RecExists
<1>2. h = [s \in SUBSET S |-> Step(f, h, s)]
  BY <1>1
<1>3. Rec(f, S) = [s \in SUBSET S |-> Step(f, Rec(f, S), s)]
  BY <1>2 DEF Rec
<1>4. \A s \in SUBSET S : Rec(f, S)[s] = Step(f, Rec(f, S), s)
  BY <1>3, Zenon
<1>5. \A s \in SUBSET S : h[s] = Rec(f, S)[s]
  BY <1>1, <1>4, RecUnique DEF Summable
<1>6. DOMAIN Rec(f, S) = SUBSET S
  BY <1>3, Zenon
<1>7. Rec(f, S) = [s \in SUBSET S |-> Rec(f, S)[s]]
  BY <1>3, <1>6, Zenon
<1>. QED  BY <1>1, <1>4, <1>5, <1>7

-----------------------------------------------------------------------------
(* The sum depends only on the values over its set.                          *)
THEOREM SumCongruent ==
    ASSUME NEW f, NEW g, NEW S, Summable(f, S),
           \A x \in S : f[x] = g[x]
    PROVE  SumFunctionOnSet(f, S) = SumFunctionOnSet(g, S)
<1>1. Summable(g, S) /\ S \in SUBSET S
  BY DEF Summable
<1>2. /\ \A s \in SUBSET S : Rec(f, S)[s] = Step(f, Rec(f, S), s)
      /\ \A s \in SUBSET S : Rec(g, S)[s] = Step(g, Rec(g, S), s)
  BY <1>1, RecEquation, Zenon
<1>3. IsFiniteSet(S)
  BY DEF Summable
<1>4. \A s \in SUBSET S : Rec(f, S)[s] = Rec(g, S)[s]
  <2>. DEFINE h == Rec(f, S)
              k == Rec(g, S)
  <2>. HIDE DEF h, k
  <2>1. /\ \A s \in SUBSET S : h[s] = Step(f, h, s)
        /\ \A s \in SUBSET S : k[s] = Step(g, k, s)
    BY <1>2 DEF h, k
  <2>2. \A s \in SUBSET S : h[s] = k[s]
    BY <1>3, <2>1, RecUnique
  <2>. QED  BY <2>2 DEF h, k
<1>5. Rec(f, S)[S] = Rec(g, S)[S]
  BY <1>1, <1>4, Zenon
<1>. QED  BY <1>5, SumIsRec, Zenon

(* The sum of integers is an integer.                                        *)
THEOREM SumInt ==
    ASSUME NEW f, NEW S, Summable(f, S)
    PROVE  SumFunctionOnSet(f, S) \in Int
<1>1. Rec(f, S) \in [SUBSET S -> Int] /\ S \in SUBSET S
  BY RecEquation
<1>. QED  BY <1>1, SumIsRec

(* The empty sum is zero.                                                    *)
THEOREM SumEmpty ==
    ASSUME NEW f
    PROVE  SumFunctionOnSet(f, {}) = 0
<1>1. Summable(f, {})
  BY FS_EmptySet DEF Summable
<1>2. Rec(f, {})[{}] = Step(f, Rec(f, {}), {})
  <2>1. {} \in SUBSET {}
    OBVIOUS
  <2>2. \A s \in SUBSET {} : Rec(f, {})[s] = Step(f, Rec(f, {}), s)
    BY <1>1, RecEquation, Zenon
  <2>. QED  BY <2>1, <2>2, Zenon
<1>3. \A h : Step(f, h, {}) = 0
  BY DEF Step
<1>. QED  BY <1>2, <1>3, SumIsRec, Zenon

(* The recursion, for the element it happens to pick.                        *)
LEMMA SumPick ==
    ASSUME NEW f, NEW S, Summable(f, S), S # {}
    PROVE  SumFunctionOnSet(f, S) =
             f[Pick(S)] + SumFunctionOnSet(f, S \ {Pick(S)})
<1>. DEFINE r == S \ {Pick(S)}
<1>1. Summable(f, r) /\ r \in SUBSET S /\ SUBSET r \subseteq SUBSET S
  BY RemovePick DEF Summable
<1>2. Rec(f, S)[r] = Rec(f, r)[r]
  <2>1. /\ \A s \in SUBSET r : Rec(f, S)[s] = Step(f, Rec(f, S), s)
        /\ \A s \in SUBSET r : Rec(f, r)[s] = Step(f, Rec(f, r), s)
    BY <1>1, RecEquation
  <2>2. IsFiniteSet(r) /\ r \in SUBSET r
    BY <1>1 DEF Summable
  <2>. DEFINE h == Rec(f, S)
              k == Rec(f, r)
  <2>. HIDE DEF h, k, r
  <2>3. /\ \A s \in SUBSET r : h[s] = Step(f, h, s)
        /\ \A s \in SUBSET r : k[s] = Step(f, k, s)
    BY <2>1 DEF h, k
  <2>4. \A s \in SUBSET r : h[s] = k[s]
    BY <2>2, <2>3, RecUnique
  <2>. QED  BY <2>2, <2>4 DEF h, k
<1>3. Rec(f, S)[S] = Step(f, Rec(f, S), S)
  <2>1. S \in SUBSET S
    OBVIOUS
  <2>. QED  BY <2>1, RecEquation, Zenon
<1>4. Rec(f, S)[S] = f[Pick(S)] + Rec(f, S)[r]
  BY <1>3 DEF Step
<1>5. SumFunctionOnSet(f, S) = Rec(f, S)[S] /\ SumFunctionOnSet(f, r) = Rec(f, r)[r]
  BY SumIsRec, Zenon
<1>. QED  BY <1>2, <1>4, <1>5

(* One more element adds its value.                                          *)
THEOREM SumAdd ==
    ASSUME NEW f, NEW S, NEW x, Summable(f, S \cup {x}), x \notin S
    PROVE  SumFunctionOnSet(f, S \cup {x}) = SumFunctionOnSet(f, S) + f[x]
<1>. DEFINE D == S \cup {x}
            Sum(s) == SumFunctionOnSet(f, s)
            Adds(s) == \A y \in D \ s : Sum(s \cup {y}) = Sum(s) + f[y]
            Bad == {s \in SUBSET D : ~Adds(s)}
            T == {Cardinality(s) : s \in Bad}
<1>1. \A s \in SUBSET D : Summable(f, s) /\ IsFiniteSet(s) /\ Cardinality(s) \in Nat
  BY FS_Subset, FS_CardinalityType DEF Summable
<1>. HIDE DEF Adds
<1>2. SUFFICES ASSUME Bad # {} PROVE FALSE
  <2>1. S \in SUBSET D /\ x \in D \ S
    OBVIOUS
  <2>2. Adds(S)
    BY <1>2, <2>1
  <2>. QED  BY <2>1, <2>2 DEF Adds
<1>3. PICK n \in T : \A m \in T : n <= m
  <2>1. T \subseteq Nat /\ T # {}
    BY <1>1, <1>2
  <2>. QED  BY <2>1, LeastElement
<1>4. PICK s \in SUBSET D : Cardinality(s) = n /\ ~Adds(s)
  BY <1>3
<1>5. ASSUME NEW r \in SUBSET D, Cardinality(r) < Cardinality(s)
      PROVE  Adds(r)
  BY <1>1, <1>3, <1>4, <1>5
<1>. PICK y \in D \ s : Sum(s \cup {y}) # Sum(s) + f[y]
  BY <1>4 DEF Adds
<1>. DEFINE p == Pick(s \cup {y})
<1>6. /\ p \in s \cup {y}
      /\ Sum(s \cup {y}) = f[p] + Sum((s \cup {y}) \ {p})
  BY <1>1, PickInSet, SumPick
<1>7. f[y] \in Int /\ Sum(s) \in Int
  BY <1>1, SumInt DEF Summable
<1>. HIDE DEF p, Sum
<1>8. p # y
  <2>1. SUFFICES ASSUME p = y PROVE FALSE
    OBVIOUS
  <2>2. (s \cup {y}) \ {p} = s
    BY <2>1
  <2>3. Sum(s \cup {y}) = f[y] + Sum(s)
    BY <1>6, <2>1, <2>2, Zenon
  <2>. QED  BY <1>7, <2>3
<1>. DEFINE r == s \ {p}
<1>9. /\ p \in s /\ p \in D /\ r \in SUBSET D /\ p \notin r /\ y \notin r
      /\ (s \cup {y}) \ {p} = r \cup {y} /\ r \cup {p} = s
  BY <1>4, <1>6, <1>8
<1>10. Cardinality(r) < Cardinality(s)
  BY <1>1, <1>9, FS_RemoveElement
<1>11. f[p] \in Int /\ Sum(r) \in Int
  BY <1>1, <1>9, SumInt DEF Summable, Sum
<1>. HIDE DEF r
<1>12. Sum(r \cup {y}) = Sum(r) + f[y] /\ Sum(r \cup {p}) = Sum(r) + f[p]
  BY <1>5, <1>9, <1>10 DEF Adds
<1>13. Sum(s) = Sum(r) + f[p] /\ Sum(s \cup {y}) = f[p] + Sum(r \cup {y})
  BY <1>6, <1>9, <1>12
<1>. QED  BY <1>7, <1>11, <1>12, <1>13

(* The sum of natural numbers is a natural number.                           *)
THEOREM SumNat ==
    ASSUME NEW f, NEW S, IsFiniteSet(S), \A x \in S : f[x] \in Nat
    PROVE  SumFunctionOnSet(f, S) \in Nat
<1>. DEFINE Bad == {s \in SUBSET S : SumFunctionOnSet(f, s) \notin Nat}
            T == {Cardinality(s) : s \in Bad}
<1>1. \A s \in SUBSET S : Summable(f, s) /\ IsFiniteSet(s) /\ Cardinality(s) \in Nat
  BY FS_Subset, FS_CardinalityType DEF Summable
<1>2. SUFFICES ASSUME Bad # {} PROVE FALSE
  OBVIOUS
<1>3. PICK n \in T : \A m \in T : n <= m
  <2>1. T \subseteq Nat /\ T # {}
    BY <1>1, <1>2
  <2>. QED  BY <2>1, LeastElement
<1>4. PICK s \in SUBSET S : Cardinality(s) = n /\ SumFunctionOnSet(f, s) \notin Nat
  BY <1>3
<1>5. s # {}
  BY <1>4, SumEmpty
<1>. DEFINE r == s \ {Pick(s)}
<1>6. Pick(s) \in S /\ r \in SUBSET S /\ Cardinality(r) = n - 1 /\ n \in Nat
  BY <1>1, <1>4, <1>5, PickInSet, RemovePick
<1>7. SumFunctionOnSet(f, r) \in Nat
  BY <1>3, <1>6
<1>8. SumFunctionOnSet(f, s) = f[Pick(s)] + SumFunctionOnSet(f, r)
  BY <1>1, <1>5, SumPick
<1>. QED  BY <1>4, <1>6, <1>7, <1>8

(* Changing one value changes the sum by the difference.                     *)
THEOREM SumUpdate ==
    ASSUME NEW S, IsFiniteSet(S), NEW f \in [S -> Nat], NEW g \in [S -> Nat],
           NEW x \in S, \A y \in S \ {x} : g[y] = f[y]
    PROVE  /\ SumFunctionOnSet(f, S) \in Nat /\ SumFunctionOnSet(g, S) \in Nat
           /\ SumFunctionOnSet(g, S) = SumFunctionOnSet(f, S) - f[x] + g[x]
<1>. DEFINE R == S \ {x}
<1>1. IsFiniteSet(R) /\ R \cup {x} = S /\ x \notin R
  BY FS_RemoveElement
<1>2. Summable(f, R \cup {x}) /\ Summable(g, R \cup {x}) /\ Summable(f, R)
  <2>1. \A y \in S : f[y] \in Int /\ g[y] \in Int
    OBVIOUS
  <2>2. R \subseteq S
    OBVIOUS
  <2>. QED  BY <1>1, <2>1, <2>2, Zenon DEF Summable
<1>3. SumFunctionOnSet(f, S) = SumFunctionOnSet(f, R) + f[x]
  BY <1>1, <1>2, SumAdd
<1>4. SumFunctionOnSet(g, S) = SumFunctionOnSet(g, R) + g[x]
  BY <1>1, <1>2, SumAdd
<1>5. SumFunctionOnSet(f, R) = SumFunctionOnSet(g, R)
  BY <1>2, SumCongruent
<1>6. /\ SumFunctionOnSet(f, R) \in Nat
      /\ f[x] \in Nat /\ g[x] \in Nat
  BY <1>1, SumNat
<1>. QED  BY <1>3, <1>4, <1>5, <1>6

(* A sum of natural numbers is at least each of them.                        *)
THEOREM SumAtLeast ==
    ASSUME NEW S, IsFiniteSet(S), NEW f \in [S -> Nat], NEW x \in S
    PROVE  SumFunctionOnSet(f, S) \in Nat /\ f[x] <= SumFunctionOnSet(f, S)
<1>. DEFINE R == S \ {x}
<1>1. IsFiniteSet(R) /\ R \cup {x} = S /\ x \notin R
  BY FS_RemoveElement
<1>2. Summable(f, R \cup {x})
  BY <1>1 DEF Summable
<1>3. SumFunctionOnSet(f, S) = SumFunctionOnSet(f, R) + f[x]
  BY <1>1, <1>2, SumAdd
<1>4. SumFunctionOnSet(f, R) \in Nat /\ f[x] \in Nat
  BY <1>1, SumNat
<1>. QED  BY <1>3, <1>4

(* The sum of zeros is zero.                                                 *)
THEOREM SumZeros ==
    ASSUME NEW S, IsFiniteSet(S), NEW f, \A x \in S : f[x] = 0
    PROVE  SumFunctionOnSet(f, S) = 0
<1>. DEFINE Bad == {s \in SUBSET S : SumFunctionOnSet(f, s) # 0}
            T == {Cardinality(s) : s \in Bad}
<1>. SUFFICES ASSUME Bad # {} PROVE FALSE
  OBVIOUS
<1>1. \A s \in SUBSET S : IsFiniteSet(s) /\ Cardinality(s) \in Nat
  BY FS_Subset, FS_CardinalityType
<1>2. T \subseteq Nat /\ T # {}
  BY <1>1
<1>a. PICK n \in T : \A m \in T : n <= m
  BY <1>2, LeastElement
<1>3. PICK s \in Bad : \A r \in Bad : Cardinality(s) <= Cardinality(r)
  BY <1>a
<1>4. s # {}
  BY SumEmpty
<1>5. Summable(f, s)
  BY <1>1 DEF Summable
<1>6. SumFunctionOnSet(f, s) = f[Pick(s)] + SumFunctionOnSet(f, s \ {Pick(s)})
  BY <1>4, <1>5, SumPick
<1>7. /\ Pick(s) \in S /\ s \ {Pick(s)} \in SUBSET S
      /\ Cardinality(s) \in Nat
      /\ Cardinality(s \ {Pick(s)}) = Cardinality(s) - 1
  BY <1>1, <1>4, PickInSet, RemovePick
<1>8. SumFunctionOnSet(f, s \ {Pick(s)}) = 0
  BY <1>3, <1>7
<1>. QED  BY <1>3, <1>6, <1>7, <1>8

(* A sum of equal values is a product.                                       *)
THEOREM SumConstant ==
    ASSUME NEW S, IsFiniteSet(S), NEW f, NEW v \in Int, \A x \in S : f[x] = v
    PROVE  SumFunctionOnSet(f, S) = Cardinality(S) * v
<1>. DEFINE Bad == {s \in SUBSET S : SumFunctionOnSet(f, s) # Cardinality(s) * v}
            T == {Cardinality(s) : s \in Bad}
<1>. SUFFICES ASSUME Bad # {} PROVE FALSE
  OBVIOUS
<1>1. \A s \in SUBSET S : IsFiniteSet(s) /\ Cardinality(s) \in Nat
  BY FS_Subset, FS_CardinalityType
<1>2. T \subseteq Nat /\ T # {}
  BY <1>1
<1>a. PICK n \in T : \A m \in T : n <= m
  BY <1>2, LeastElement
<1>3. PICK s \in Bad : \A r \in Bad : Cardinality(s) <= Cardinality(r)
  BY <1>a
<1>4. s # {}
  <2>1. Cardinality({}) = 0 /\ SumFunctionOnSet(f, {}) = 0
    BY FS_EmptySet, SumEmpty
  <2>. QED  BY <1>3, <2>1
<1>5. Summable(f, s)
  BY <1>1 DEF Summable
<1>6. SumFunctionOnSet(f, s) = f[Pick(s)] + SumFunctionOnSet(f, s \ {Pick(s)})
  BY <1>4, <1>5, SumPick
<1>7. /\ Pick(s) \in S /\ s \ {Pick(s)} \in SUBSET S
      /\ Cardinality(s) \in Nat
      /\ Cardinality(s \ {Pick(s)}) = Cardinality(s) - 1
  BY <1>1, <1>4, PickInSet, RemovePick
<1>8. SumFunctionOnSet(f, s \ {Pick(s)}) = (Cardinality(s) - 1) * v
  BY <1>3, <1>7
<1>9. v + (Cardinality(s) - 1) * v = Cardinality(s) * v
  BY <1>7
<1>. QED  BY <1>3, <1>6, <1>7, <1>8, <1>9

(* The sum over two disjoint sets.                                           *)
THEOREM SumDisjoint ==
    ASSUME NEW f, NEW S, NEW R, S \cap R = {}, Summable(f, S), Summable(f, R)
    PROVE  SumFunctionOnSet(f, S \cup R) = SumFunctionOnSet(f, S) + SumFunctionOnSet(f, R)
<1>. DEFINE Sum(s) == SumFunctionOnSet(f, s)
            Bad == {s \in SUBSET R : Sum(S \cup s) # Sum(S) + Sum(s)}
            T == {Cardinality(s) : s \in Bad}
<1>. SUFFICES ASSUME Bad # {} PROVE FALSE
  OBVIOUS
<1>1. \A s \in SUBSET R : IsFiniteSet(s) /\ Cardinality(s) \in Nat /\ Summable(f, s)
  BY FS_Subset, FS_CardinalityType DEF Summable
<1>2. T \subseteq Nat /\ T # {}
  BY <1>1
<1>a. PICK n \in T : \A m \in T : n <= m
  BY <1>2, LeastElement
<1>3. PICK s \in Bad : \A r \in Bad : Cardinality(s) <= Cardinality(r)
  BY <1>a, ZenonT(60)
<1>4. s # {}
  <2>1. {} \notin Bad
    <3>1. S \cup {} = S /\ Sum({}) = 0 /\ Sum(S) \in Int
      BY SumEmpty, SumInt
    <3>2. Sum(S) = Sum(S) + Sum({})
      BY <3>1
    <3>. QED  BY <3>1, <3>2
  <2>. QED  BY <1>3, <2>1
<1>. DEFINE x == Pick(s)  r == s \ {x}
<1>5. /\ x \in s /\ x \in R /\ r \in SUBSET R /\ x \notin S \cup r
      /\ Cardinality(s) \in Nat /\ Cardinality(r) = Cardinality(s) - 1
      /\ S \cup s = (S \cup r) \cup {x} /\ s = r \cup {x}
  BY <1>1, <1>4, PickInSet, RemovePick
<1>6. Sum(S \cup r) = Sum(S) + Sum(r)
  BY <1>3, <1>5
<1>7. Sum(S \cup s) = Sum(S \cup r) + f[x]
  <2>1. Summable(f, (S \cup r) \cup {x})
    BY <1>1, <1>5, FS_Union DEF Summable
  <2>. QED  BY <1>5, <2>1, SumAdd
<1>8. Sum(s) = Sum(r) + f[x]
  BY <1>1, <1>5, SumAdd
<1>9. Sum(S) \in Int /\ Sum(r) \in Int /\ f[x] \in Int
  BY <1>1, <1>5, SumInt DEF Summable
<1>. QED  BY <1>3, <1>6, <1>7, <1>8, <1>9

(* The sum over a set is the sum over its parts of the sums over each part.  *)
THEOREM SumByParts ==
    ASSUME NEW S, NEW f, Summable(f, S),
           NEW A, IsFiniteSet(A), NEW part,
           \A a \in A : part[a] \subseteq S,
           \A a, b \in A : a # b => part[a] \cap part[b] = {},
           \A x \in S : \E a \in A : x \in part[a],
           NEW g, \A a \in A : g[a] = SumFunctionOnSet(f, part[a])
    PROVE  SumFunctionOnSet(g, A) = SumFunctionOnSet(f, S)
<1>. DEFINE Of(B) == {x \in S : \E a \in B : x \in part[a]}
            Bad == {B \in SUBSET A :
                      SumFunctionOnSet(g, B) # SumFunctionOnSet(f, Of(B))}
            T == {Cardinality(B) : B \in Bad}
<1>1. \A B \in SUBSET A : IsFiniteSet(B) /\ Cardinality(B) \in Nat
  BY FS_Subset, FS_CardinalityType
<1>2. \A R \in SUBSET S : Summable(f, R) /\ SumFunctionOnSet(f, R) \in Int
  BY FS_Subset, SumInt DEF Summable
<1>3. \A a \in A : g[a] \in Int
  BY <1>2
<1>4. Of(A) = S /\ A \in SUBSET A
  OBVIOUS
<1>5. SUFFICES ASSUME Bad # {} PROVE FALSE
  BY <1>4
<1>. HIDE DEF Of
<1>6. T \subseteq Nat /\ T # {}
  BY <1>1, <1>5
<1>a. PICK n \in T : \A m \in T : n <= m
  BY <1>6, LeastElement
<1>7. PICK B \in Bad : \A C \in Bad : Cardinality(B) <= Cardinality(C)
  BY <1>a
<1>8. B # {}
  <2>1. Of({}) = {}
    BY DEF Of
  <2>. QED  BY <1>7, <2>1, SumEmpty
<1>. DEFINE b == Pick(B)  C == B \ {b}
<1>9. /\ b \in A /\ b \in B /\ C \in SUBSET A /\ Cardinality(B) \in Nat
      /\ Cardinality(C) = Cardinality(B) - 1
  BY <1>1, <1>7, <1>8, PickInSet, RemovePick
<1>10. SumFunctionOnSet(g, C) = SumFunctionOnSet(f, Of(C))
  BY <1>7, <1>9
<1>11. SumFunctionOnSet(g, B) = g[b] + SumFunctionOnSet(g, C)
  <2>1. Summable(g, B)
    BY <1>1, <1>3, <1>7 DEF Summable
  <2>. QED  BY <1>8, <2>1, SumPick
<1>12. SumFunctionOnSet(f, Of(B)) =
         SumFunctionOnSet(f, Of(C)) + SumFunctionOnSet(f, part[b])
  <2>1. Of(B) = Of(C) \cup part[b]
    BY <1>9 DEF Of
  <2>2. Of(C) \cap part[b] = {}
    BY <1>7, <1>9 DEF Of
  <2>3. Summable(f, Of(C)) /\ Summable(f, part[b])
    BY <1>2, <1>9 DEF Of
  <2>. HIDE DEF b, C
  <2>4. SumFunctionOnSet(f, Of(C) \cup part[b]) =
          SumFunctionOnSet(f, Of(C)) + SumFunctionOnSet(f, part[b])
    BY <2>2, <2>3, SumDisjoint
  <2>. QED  BY <2>1, <2>4, Zenon
<1>13. g[b] = SumFunctionOnSet(f, part[b])
  BY <1>9
<1>14. SumFunctionOnSet(f, Of(C)) \in Int /\ SumFunctionOnSet(f, part[b]) \in Int
  BY <1>2, <1>9 DEF Of
<1>. QED  BY <1>7, <1>10, <1>11, <1>12, <1>13, <1>14

(* If two functions together stay below a third, so do their sums.           *)
THEOREM SumsBelow ==
    ASSUME NEW S, NEW f, NEW g, NEW h,
           Summable(f, S), Summable(g, S), Summable(h, S),
           \A x \in S : f[x] + g[x] <= h[x]
    PROVE  SumFunctionOnSet(f, S) + SumFunctionOnSet(g, S) <= SumFunctionOnSet(h, S)
<1>. DEFINE F(R) == SumFunctionOnSet(f, R)
            G(R) == SumFunctionOnSet(g, R)
            H(R) == SumFunctionOnSet(h, R)
            Bad == {R \in SUBSET S : ~(F(R) + G(R) <= H(R))}
            T == {Cardinality(R) : R \in Bad}
<1>1. ASSUME NEW R \in SUBSET S
      PROVE  /\ IsFiniteSet(R) /\ Cardinality(R) \in Nat
             /\ Summable(f, R) /\ Summable(g, R) /\ Summable(h, R)
             /\ F(R) \in Int /\ G(R) \in Int /\ H(R) \in Int
  <2>1. IsFiniteSet(R) /\ Cardinality(R) \in Nat
    BY FS_Subset, FS_CardinalityType DEF Summable
  <2>2. Summable(f, R) /\ Summable(g, R) /\ Summable(h, R)
    BY <2>1 DEF Summable
  <2>. QED  BY <2>1, <2>2, SumInt
<1>. SUFFICES ASSUME Bad # {} PROVE FALSE
  OBVIOUS
<1>2. T \subseteq Nat /\ T # {}
  BY <1>1
<1>a. PICK n \in T : \A m \in T : n <= m
  BY <1>2, LeastElement
<1>3. PICK R \in Bad : \A Q \in Bad : Cardinality(R) <= Cardinality(Q)
  BY <1>a
<1>4. R # {}
  <2>1. F({}) = 0 /\ G({}) = 0 /\ H({}) = 0
    BY SumEmpty
  <2>. QED  BY <1>3, <2>1
<1>. DEFINE x == Pick(R)  Q == R \ {x}
<1>5. /\ x \in S /\ Q \in SUBSET S /\ Cardinality(R) \in Nat
      /\ Cardinality(Q) = Cardinality(R) - 1
  BY <1>1, <1>3, <1>4, PickInSet, RemovePick
<1>6. F(Q) + G(Q) <= H(Q)
  BY <1>3, <1>5
<1>7. F(R) = f[x] + F(Q) /\ G(R) = g[x] + G(Q) /\ H(R) = h[x] + H(Q)
  BY <1>1, <1>3, <1>4, SumPick
<1>8. /\ f[x] \in Int /\ g[x] \in Int /\ h[x] \in Int
      /\ F(Q) \in Int /\ G(Q) \in Int /\ H(Q) \in Int
  BY <1>1, <1>5 DEF Summable
<1>. HIDE DEF F, G, H, x, Q
<1>9. F(R) + G(R) <= H(R)
  BY <1>5, <1>6, <1>7, <1>8
<1>. QED  BY <1>3, <1>9

-----------------------------------------------------------------------------
(* The image of a finite set is finite.                                      *)
THEOREM FiniteImage ==
    ASSUME NEW f, NEW S, IsFiniteSet(S)
    PROVE  IsFiniteSet({f[x] : x \in S})
<1>. DEFINE T == {f[x] : x \in S}
            g == [x \in S |-> f[x]]
<1>1. g \in Surjection(S, T)
  BY DEF Surjection
<1>. QED  BY <1>1, FS_Surjection

(* A finite set of natural numbers that is not empty has a greatest element. *)
THEOREM MaxNat ==
    ASSUME NEW S, S \subseteq Nat, IsFiniteSet(S), S # {}
    PROVE  Max(S) \in S /\ \A x \in S : x <= Max(S)
<1>. DEFINE HasMax(s) == \E m \in s : \A x \in s : x <= m
            Bad == {s \in SUBSET S : s # {} /\ ~HasMax(s)}
            T == {Cardinality(s) : s \in Bad}
<1>1. \A s \in SUBSET S : IsFiniteSet(s) /\ Cardinality(s) \in Nat
  BY FS_Subset, FS_CardinalityType
<1>. SUFFICES HasMax(S)
  BY DEF Max
<1>2. SUFFICES ASSUME Bad # {} PROVE FALSE
  BY <1>2
<1>3. PICK n \in T : \A m \in T : n <= m
  <2>1. T \subseteq Nat /\ T # {}
    BY <1>1, <1>2
  <2>. QED  BY <2>1, LeastElement
<1>4. PICK s \in SUBSET S : Cardinality(s) = n /\ s # {} /\ ~HasMax(s)
  BY <1>3
<1>. DEFINE r == s \ {Pick(s)}
<1>5. Pick(s) \in s /\ r \in SUBSET S /\ Cardinality(r) = n - 1 /\ n \in Nat
  BY <1>1, <1>4, PickInSet, RemovePick
<1>6. r = {} \/ HasMax(r)
  BY <1>3, <1>5
<1>7. HasMax(s)
  <2>1. CASE r = {}
    <3>1. s = {Pick(s)} /\ Pick(s) \in Nat
      BY <1>5, <2>1
    <3>. QED  BY <3>1
  <2>2. CASE HasMax(r)
    <3>1. PICK m \in r : \A x \in r : x <= m
      BY <2>2
    <3>2. CASE Pick(s) <= m
      BY <1>5, <3>1, <3>2
    <3>3. CASE ~(Pick(s) <= m)
      BY <1>5, <3>1, <3>3
    <3>. QED  BY <3>2, <3>3
  <2>. QED  BY <1>6, <2>1, <2>2
<1>. QED  BY <1>4, <1>7

=============================================================================
