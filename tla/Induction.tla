----------------------------- MODULE Induction -----------------------------
(***************************************************************************)
(* Induction in a form that needs no operator parameter, and what follows  *)
(* from it about definitions by recursion: a property of numbers is given  *)
(* as the set of the numbers that have it, and the step of a recursion as  *)
(* a function.  The proofs about sums over the process table and folds     *)
(* over typed keys and words rest on this.                                 *)
(***************************************************************************)
EXTENDS WordsOfText, FiniteSetTheorems, SequenceTheorems,
        WellFoundedInduction, TLAPS

Below == {p \in Nat \X Nat : p[1] < p[2]}

LEMMA BelowIsWellFounded == IsWellFoundedOn(Below, Nat)
  BY NatLessThanWellFounded, Zenon DEF OpToRel, Below

(* Every nonempty set of natural numbers has a smallest element.            *)
LEMMA SmallestElement ==
  ASSUME NEW T \in SUBSET Nat, T # {}
  PROVE  \E n \in T : \A m \in T : n <= m
<1>1. PICK n \in T : \A m \in T : <<m, n>> \notin Below
  BY BelowIsWellFounded, WFMin, Zenon
<1>2. ASSUME NEW m \in T
      PROVE  n <= m
  <2>1. <<m, n>> \notin Below /\ m \in Nat /\ n \in Nat
    BY <1>1
  <2>2. QED
    BY <2>1 DEF Below
<1>3. QED
  BY <1>2

LEMMA MinIsSmallest ==
  ASSUME NEW T \in SUBSET Nat, T # {}
  PROVE  Min(T) \in T /\ \A m \in T : Min(T) <= m
BY SmallestElement, Zenon DEF Min

(* Induction over the natural numbers.                                      *)
LEMMA InductionOnNat ==
  ASSUME NEW S, 0 \in S, \A n \in Nat : n \in S => n + 1 \in S
  PROVE  \A n \in Nat : n \in S
<1>1. SUFFICES ASSUME Nat \ S # {}
               PROVE  FALSE
  OBVIOUS
<1>2. PICK n \in Nat \ S : \A m \in Nat \ S : n <= m
  BY <1>1, SmallestElement
<1>3. n # 0 /\ n - 1 \in Nat
  BY <1>2
<1>4. n - 1 \in S
  BY <1>2, <1>3
<1>5. QED
  BY <1>2, <1>3, <1>4

(* Induction over the sizes of the subsets of a finite set.                 *)
LEMMA InductionOnSubsets ==
  ASSUME NEW S, IsFiniteSet(S), NEW P, {} \in P,
         \A s \in SUBSET S : s # {} /\ (\A x \in s : s \ {x} \in P) => s \in P
  PROVE  \A s \in SUBSET S : s \in P
<1> DEFINE N == {n \in Nat : \A s \in SUBSET S : Cardinality(s) = n => s \in P}
<1>1. \A s \in SUBSET S : IsFiniteSet(s) /\ Cardinality(s) \in Nat
  BY FS_Subset, FS_CardinalityType
<1>2. 0 \in N
  BY <1>1, FS_EmptySet
<1>3. ASSUME NEW n \in Nat, n \in N
      PROVE  n + 1 \in N
  <2> SUFFICES ASSUME NEW s \in SUBSET S, Cardinality(s) = n + 1
               PROVE  s \in P
    OBVIOUS
  <2>1. s # {}
    BY <1>1, FS_EmptySet
  <2>2. ASSUME NEW x \in s
        PROVE  s \ {x} \in SUBSET S /\ Cardinality(s \ {x}) = n
    <3>1. Cardinality(s \ {x}) = Cardinality(s) - 1
      BY <1>1, FS_RemoveElement
    <3>2. QED
      BY <3>1
  <2>3. QED
    BY <1>3, <2>1, <2>2
<1> HIDE DEF N
<1>4. \A n \in Nat : n \in N
  BY <1>2, <1>3, InductionOnNat
<1>5. QED
  BY <1>1, <1>4 DEF N

-----------------------------------------------------------------------------
(* Recursion over the subsets of a finite set: `c` chooses the element that *)
(* is taken away, `step` combines it with the value of the rest.            *)
IsFold(f, S, V, b, c, step) ==
  /\ f \in [SUBSET S -> V]
  /\ \A s \in SUBSET S :
       f[s] = IF s = {} THEN b ELSE step[<<f[s \ {c[s]}], c[s]>>]

LEMMA FoldExists ==
  ASSUME NEW S, IsFiniteSet(S), NEW V, NEW b \in V,
         NEW c, \A s \in SUBSET S : s # {} => c[s] \in s,
         NEW step \in [V \X S -> V]
  PROVE  \E f : IsFold(f, S, V, b, c, step)
<1> DEFINE Next(f) == [s \in SUBSET S |->
             IF s = {} THEN b ELSE step[<<f[s \ {c[s]}], c[s]>>]]
           Good(f, n) == \A s \in SUBSET S :
             Cardinality(s) <= n => f[s] = Next(f)[s]
           N == {n \in Nat : \E f \in [SUBSET S -> V] : Good(f, n)}
<1>1. \A s \in SUBSET S : Cardinality(s) \in Nat
  BY FS_Subset, FS_CardinalityType
<1>2. \A s \in SUBSET S : s # {} =>
        /\ c[s] \in S /\ s \ {c[s]} \in SUBSET S
        /\ Cardinality(s \ {c[s]}) = Cardinality(s) - 1
  BY FS_Subset, FS_RemoveElement
<1>3. ASSUME NEW f \in [SUBSET S -> V]
      PROVE  Next(f) \in [SUBSET S -> V]
  BY <1>2
<1>4. 0 \in N
  <2> DEFINE f0 == [s \in SUBSET S |-> b]
  <2>1. f0 \in [SUBSET S -> V]
    OBVIOUS
  <2>2. ASSUME NEW s \in SUBSET S, Cardinality(s) <= 0
        PROVE  s = {}
    BY <1>1, <2>2, FS_Subset, FS_EmptySet
  <2>3. Good(f0, 0)
    BY <2>2
  <2>4. QED
    BY <2>1, <2>3
<1>5. ASSUME NEW n \in Nat, n \in N
      PROVE  n + 1 \in N
  <2>1. PICK f \in [SUBSET S -> V] : Good(f, n)
    BY <1>5
  <2>2. Next(f) \in [SUBSET S -> V]
    BY <1>3
  <2>3. ASSUME NEW s \in SUBSET S, Cardinality(s) <= n + 1
        PROVE  Next(f)[s] = Next(Next(f))[s]
    <3>1. CASE s = {}
      BY <3>1
    <3>2. CASE s # {}
      <4>1. /\ s \ {c[s]} \in SUBSET S
            /\ Cardinality(s \ {c[s]}) <= n
        BY <1>1, <1>2, <2>3, <3>2
      <4>2. Next(f)[s \ {c[s]}] = f[s \ {c[s]}]
        BY <2>1, <4>1
      <4>3. /\ Next(f)[s] = step[<<f[s \ {c[s]}], c[s]>>]
            /\ Next(Next(f))[s] = step[<<Next(f)[s \ {c[s]}], c[s]>>]
        BY <3>2
      <4>4. QED
        BY <4>2, <4>3
    <3>3. QED
      BY <3>1, <3>2
  <2>4. Good(Next(f), n + 1)
    BY <2>3
  <2> HIDE DEF Next, Good
  <2>5. \E g \in [SUBSET S -> V] : Good(g, n + 1)
    BY <2>2, <2>4
  <2>6. QED
    BY <2>5
<1> HIDE DEF N
<1>6. \A n \in Nat : n \in N
  BY <1>4, <1>5, InductionOnNat
<1>7. Cardinality(S) \in Nat /\ \A s \in SUBSET S : Cardinality(s) <= Cardinality(S)
  BY FS_Subset, FS_CardinalityType
<1>8. PICK f \in [SUBSET S -> V] : Good(f, Cardinality(S))
  BY <1>6, <1>7 DEF N
<1>9. \A s \in SUBSET S : f[s] = IF s = {} THEN b ELSE step[<<f[s \ {c[s]}], c[s]>>]
  BY <1>7, <1>8
<1>10. QED
  BY <1>8, <1>9, Zenon DEF IsFold

-----------------------------------------------------------------------------
(* Sums over finite sets.  The order in which SumFunctionOnSet takes the    *)
(* elements does not matter: any of them can be split off.                  *)
Chosen(S) == [s \in SUBSET S |-> CHOOSE x \in s : TRUE]
AddTo(f, S) == [p \in Int \X S |-> f[p[2]] + p[1]]
IntValued(f, S) == \A x \in S : f[x] \in Int
IsSum(g, f, S) == IsFold(g, S, Int, 0, Chosen(S), AddTo(f, S))

(* SumFunctionOnSet is such a fold.                                         *)
LEMMA SumIsFold ==
  ASSUME NEW S, IsFiniteSet(S), NEW f, IntValued(f, S)
  PROVE  \E g : IsSum(g, f, S) /\ SumFunctionOnSet(f, S) = g[S]
<1> USE DEF IntValued
<1> DEFINE Eqn(g) == g = [s \in SUBSET S |->
             IF s = {} THEN 0
             ELSE f[CHOOSE x \in s : TRUE] + g[s \ {CHOOSE x \in s : TRUE}]]
           sum == CHOOSE g : Eqn(g)
<1>1. ASSUME NEW s \in SUBSET S, s # {}
      PROVE  /\ Chosen(S)[s] = (CHOOSE x \in s : TRUE)
             /\ Chosen(S)[s] \in s
  BY <1>1 DEF Chosen
<1>2. AddTo(f, S) \in [Int \X S -> Int]
  BY DEF AddTo
<1>3. PICK g0 : IsFold(g0, S, Int, 0, Chosen(S), AddTo(f, S))
  BY <1>1, <1>2, FoldExists
<1>4. ASSUME NEW n \in Int, NEW x \in S
      PROVE  AddTo(f, S)[<<n, x>>] = f[x] + n
  BY DEF AddTo
<1>5. Eqn(g0)
  <2>1. ASSUME NEW s \in SUBSET S, s # {}
        PROVE  g0[s] = f[CHOOSE x \in s : TRUE] + g0[s \ {CHOOSE x \in s : TRUE}]
    <3>1. /\ Chosen(S)[s] \in S
          /\ g0[s \ {Chosen(S)[s]}] \in Int
      BY <1>1, <1>3, <2>1 DEF IsFold
    <3>2. g0[s] = AddTo(f, S)[<<g0[s \ {Chosen(S)[s]}], Chosen(S)[s]>>]
      BY <1>3, <2>1 DEF IsFold
    <3>3. QED
      BY <1>1, <1>4, <2>1, <3>1, <3>2
  <2>2. g0 \in [SUBSET S -> Int] /\ g0[{}] = 0
    BY <1>3 DEF IsFold
  <2>3. QED
    BY <2>1, <2>2
<1>6. Eqn(sum)
  BY <1>5, Zenon
<1>7. SumFunctionOnSet(f, S) = sum[S]
  BY Zenon DEF SumFunctionOnSet, FoldFunctionOnSet, MapThenFoldSet
<1> HIDE DEF sum
<1>8. sum \in [SUBSET S -> Int]
  <2> DEFINE P == {s \in SUBSET S : sum[s] \in Int}
  <2>1. {} \in P
    BY <1>6
  <2>2. ASSUME NEW s \in SUBSET S, s # {}, \A x \in s : s \ {x} \in P
        PROVE  s \in P
    BY <1>1, <1>6, <2>2
  <2> HIDE DEF P
  <2>3. \A s \in SUBSET S : s \in P
    BY <2>1, <2>2, InductionOnSubsets, ZenonT(40) DEF P
  <2>4. QED
    BY <1>6, <2>3 DEF P
<1>9. IsSum(sum, f, S)
  <2>1. ASSUME NEW s \in SUBSET S, s # {}
        PROVE  sum[s] = AddTo(f, S)[<<sum[s \ {Chosen(S)[s]}], Chosen(S)[s]>>]
    <3> DEFINE x == CHOOSE y \in s : TRUE
    <3>1. Chosen(S)[s] = x /\ x \in s
      BY <1>1, <2>1
    <3>2. sum[s] = f[x] + sum[s \ {x}]
      BY <1>6, <2>1
    <3> HIDE DEF x
    <3>3. sum[s \ {x}] \in Int /\ x \in S
      BY <1>8, <3>1
    <3>4. AddTo(f, S)[<<sum[s \ {x}], x>>] = f[x] + sum[s \ {x}]
      BY <1>4, <3>3
    <3>5. QED
      BY <3>1, <3>2, <3>4
  <2>2. sum[{}] = 0
    BY <1>6
  <2>3. QED
    BY <1>8, <2>1, <2>2 DEF IsSum, IsFold
<1>10. QED
  BY <1>7, <1>9

(* The equations of such a fold, without its parts.                         *)
SumEquations(g, f, S) ==
  \A s \in SUBSET S :
    /\ g[s] \in Int
    /\ s = {} => g[s] = 0
    /\ s # {} => /\ (CHOOSE x \in s : TRUE) \in s
                /\ g[s] = f[CHOOSE x \in s : TRUE] + g[s \ {CHOOSE x \in s : TRUE}]

LEMMA SumHasEquations ==
  ASSUME NEW S, NEW f, IntValued(f, S), NEW g, IsSum(g, f, S)
  PROVE  SumEquations(g, f, S)
<1> SUFFICES ASSUME NEW s \in SUBSET S
             PROVE  SumEquations(g, f, S)!(s)
  BY DEF SumEquations
<1>1. g[s] \in Int /\ (s = {} => g[s] = 0)
  BY DEF IsSum, IsFold
<1>2. ASSUME s # {}
      PROVE  /\ (CHOOSE x \in s : TRUE) \in s
             /\ g[s] = f[CHOOSE x \in s : TRUE] + g[s \ {CHOOSE x \in s : TRUE}]
  <2> DEFINE x == CHOOSE y \in s : TRUE
  <2>1. x \in s /\ x = Chosen(S)[s]
    BY <1>2 DEF Chosen
  <2>2. g[s] = AddTo(f, S)[<<g[s \ {Chosen(S)[s]}], Chosen(S)[s]>>]
    BY <1>2 DEF IsSum, IsFold
  <2> HIDE DEF x
  <2>3. g[s \ {x}] \in Int /\ x \in S
    BY <2>1 DEF IsSum, IsFold
  <2>4. AddTo(f, S)[<<g[s \ {x}], x>>] = f[x] + g[s \ {x}]
    BY <2>3 DEF AddTo
  <2>5. x \in s /\ g[s] = f[x] + g[s \ {x}]
    BY <2>1, <2>2, <2>4
  <2>6. QED
    BY <2>5 DEF x
<1>3. QED
  BY <1>1, <1>2

(* The fold over a set also gives the sums over its subsets.                *)
LEMMA SumOfSubset ==
  ASSUME NEW S, IsFiniteSet(S), NEW f, IntValued(f, S),
         NEW g, IsSum(g, f, S), NEW T \in SUBSET S
  PROVE  SumFunctionOnSet(f, T) = g[T]
<1>1. IsFiniteSet(T)
  BY FS_Subset
<1>2. IntValued(f, T)
  BY DEF IntValued
<1>3. PICK h : IsSum(h, f, T) /\ SumFunctionOnSet(f, T) = h[T]
  BY <1>1, <1>2, SumIsFold, Zenon
<1>4. SumEquations(g, f, S) /\ SumEquations(h, f, T)
  BY <1>2, <1>3, SumHasEquations, Zenon
<1> DEFINE P == {s \in SUBSET T : h[s] = g[s]}
<1>5. {} \in P
  BY <1>4 DEF SumEquations
<1>6. ASSUME NEW s \in SUBSET T, s # {}, \A x \in s : s \ {x} \in P
      PROVE  s \in P
  <2> DEFINE x == CHOOSE y \in s : TRUE
  <2>1. s \in SUBSET S
    OBVIOUS
  <2>2. /\ x \in s
        /\ g[s] = f[x] + g[s \ {x}]
        /\ h[s] = f[x] + h[s \ {x}]
    BY <1>4, <1>6, <2>1, Zenon DEF SumEquations
  <2> HIDE DEF x
  <2>3. h[s \ {x}] = g[s \ {x}]
    BY <1>6, <2>2
  <2>4. QED
    BY <2>2, <2>3
<1> HIDE DEF P
<1>7. \A s \in SUBSET T : s \in P
  BY <1>1, <1>5, <1>6, InductionOnSubsets, Zenon
<1>8. QED
  BY <1>3, <1>7 DEF P

LEMMA SumProperties ==
  ASSUME NEW S, IsFiniteSet(S), NEW f, IntValued(f, S)
  PROVE  /\ SumFunctionOnSet(f, S) \in Int
         /\ S = {} => SumFunctionOnSet(f, S) = 0
         /\ \A x \in S :
              SumFunctionOnSet(f, S) = f[x] + SumFunctionOnSet(f, S \ {x})
<1>1. PICK g : IsSum(g, f, S)
  BY SumIsFold, Zenon
<1>2. \A T \in SUBSET S : SumFunctionOnSet(f, T) = g[T]
  BY <1>1, SumOfSubset, SMTT(30)
<1>3. SumEquations(g, f, S)
  BY <1>1, SumHasEquations, Zenon
<1> DEFINE P == {s \in SUBSET S : \A x \in s : g[s] = f[x] + g[s \ {x}]}
<1>4. {} \in P
  OBVIOUS
<1>5. ASSUME NEW s \in SUBSET S, s # {}, \A x \in s : s \ {x} \in P,
             NEW x \in s
      PROVE  g[s] = f[x] + g[s \ {x}]
  <2>1. PICK c \in s : g[s] = f[c] + g[s \ {c}]
    BY <1>3, <1>5, Zenon DEF SumEquations
  <2>2. CASE c = x
    BY <2>1, <2>2
  <2>3. CASE c # x
    <3>1. g[s \ {c}] = f[x] + g[(s \ {c}) \ {x}]
      BY <1>5, <2>3
    <3>2. g[s \ {x}] = f[c] + g[(s \ {x}) \ {c}]
      BY <1>5, <2>3
    <3> DEFINE rest == (s \ {c}) \ {x}
    <3>3. (s \ {x}) \ {c} = rest /\ rest \in SUBSET S
      OBVIOUS
    <3>4. g[rest] \in Int /\ f[c] \in Int /\ f[x] \in Int
      BY <1>3, <3>3 DEF SumEquations, IntValued
    <3>5. g[s \ {c}] = f[x] + g[rest] /\ g[s \ {x}] = f[c] + g[rest]
      BY <3>1, <3>2, <3>3
    <3> HIDE DEF P, rest
    <3>6. QED
      BY <2>1, <3>4, <3>5
  <2>4. QED
    BY <2>2, <2>3
<1>6. \A s \in SUBSET S : s # {} /\ (\A x \in s : s \ {x} \in P) => s \in P
  BY <1>5
<1> HIDE DEF P
<1>7. S \in P
  BY <1>4, <1>6, InductionOnSubsets, ZenonT(40)
<1>8. \A x \in S : g[S] = f[x] + g[S \ {x}]
  BY <1>7 DEF P
<1>9. g[S] \in Int /\ (S = {} => g[S] = 0)
  BY <1>3 DEF SumEquations
<1>10. \A x \in S : SumFunctionOnSet(f, S \ {x}) = g[S \ {x}]
  BY <1>2
<1>11. SumFunctionOnSet(f, S) = g[S]
  BY <1>2
<1>12. QED
  BY <1>8, <1>9, <1>10, <1>11

(* A sum depends on the values of its elements only.                        *)
LEMMA SumAgrees ==
  ASSUME NEW S, IsFiniteSet(S), NEW f, IntValued(f, S), NEW g,
         \A x \in S : f[x] = g[x]
  PROVE  SumFunctionOnSet(f, S) = SumFunctionOnSet(g, S)
<1> DEFINE P == {s \in SUBSET S : SumFunctionOnSet(f, s) = SumFunctionOnSet(g, s)}
<1>1. ASSUME NEW s \in SUBSET S
      PROVE  IsFiniteSet(s) /\ IntValued(f, s) /\ IntValued(g, s)
  BY FS_Subset DEF IntValued
<1>2. {} \in P
  <2>1. IsFiniteSet({}) /\ IntValued(f, {}) /\ IntValued(g, {})
    BY <1>1
  <2>2. SumFunctionOnSet(f, {}) = 0 /\ SumFunctionOnSet(g, {}) = 0
    BY <2>1, SumProperties, Zenon
  <2>3. QED
    BY <2>2
<1>3. ASSUME NEW s \in SUBSET S, s # {}, \A x \in s : s \ {x} \in P
      PROVE  s \in P
  <2>1. PICK x \in s : TRUE
    BY <1>3
  <2>2. /\ SumFunctionOnSet(f, s) = f[x] + SumFunctionOnSet(f, s \ {x})
        /\ SumFunctionOnSet(g, s) = g[x] + SumFunctionOnSet(g, s \ {x})
    BY <1>1, SumProperties, Zenon
  <2>3. f[x] = g[x] /\ SumFunctionOnSet(f, s \ {x}) = SumFunctionOnSet(g, s \ {x})
    BY <1>3
  <2>4. QED
    BY <2>2, <2>3
<1> HIDE DEF P
<1>4. S \in P
  BY <1>2, <1>3, InductionOnSubsets, SMTT(30)
<1>5. QED
  BY <1>4 DEF P

(* What one changed element does to a sum.                                  *)
LEMMA SumUpdate ==
  ASSUME NEW S, IsFiniteSet(S), NEW f, IntValued(f, S), NEW g, IntValued(g, S),
         NEW x \in S, \A y \in S \ {x} : f[y] = g[y]
  PROVE  SumFunctionOnSet(g, S) = SumFunctionOnSet(f, S) + (g[x] - f[x])
<1>1. IsFiniteSet(S \ {x}) /\ IntValued(f, S \ {x}) /\ IntValued(g, S \ {x})
  BY FS_Subset DEF IntValued
<1>2. SumFunctionOnSet(f, S \ {x}) = SumFunctionOnSet(g, S \ {x})
  BY <1>1, SumAgrees
<1>3. SumFunctionOnSet(f, S \ {x}) \in Int
  BY <1>1, SumProperties, Zenon
<1>4. /\ SumFunctionOnSet(f, S) = f[x] + SumFunctionOnSet(f, S \ {x})
      /\ SumFunctionOnSet(g, S) = g[x] + SumFunctionOnSet(g, S \ {x})
  BY SumProperties, Zenon
<1>5. f[x] \in Int /\ g[x] \in Int
  BY DEF IntValued
<1>6. QED
  BY <1>2, <1>3, <1>4, <1>5

LEMMA SumOfZeros ==
  ASSUME NEW S, IsFiniteSet(S), NEW f, \A x \in S : f[x] = 0
  PROVE  SumFunctionOnSet(f, S) = 0
<1> DEFINE P == {s \in SUBSET S : SumFunctionOnSet(f, s) = 0}
<1>1. ASSUME NEW s \in SUBSET S
      PROVE  IsFiniteSet(s) /\ IntValued(f, s)
  BY FS_Subset DEF IntValued
<1>2. {} \in P
  BY <1>1, SumProperties
<1>3. ASSUME NEW s \in SUBSET S, s # {}, \A x \in s : s \ {x} \in P
      PROVE  s \in P
  <2>1. PICK x \in s : TRUE
    BY <1>3
  <2>2. SumFunctionOnSet(f, s) = f[x] + SumFunctionOnSet(f, s \ {x})
    BY <1>1, SumProperties, Zenon
  <2>3. f[x] = 0 /\ SumFunctionOnSet(f, s \ {x}) = 0
    BY <1>3, <2>1
  <2>4. QED
    BY <2>2, <2>3
<1> HIDE DEF P
<1>4. S \in P
  BY <1>2, <1>3, InductionOnSubsets, ZenonT(40)
<1>5. QED
  BY <1>4 DEF P

-----------------------------------------------------------------------------
(* Folds over sequences.  FoldLeft takes away the last of the indices, so    *)
(* its values for the sets 1 .. k are those of the prefixes.                 *)
LEMMA MaxOfIndices ==
  ASSUME NEW n \in Nat, NEW s \in SUBSET (1 .. n), s # {}
  PROVE  Max(s) \in s /\ \A x \in s : x <= Max(s)
<1> DEFINE T == {n - x : x \in s}
<1>1. T \in SUBSET Nat /\ T # {}
  <2>1. \A x \in s : n - x \in Nat
    OBVIOUS
  <2>2. QED
    BY <2>1, Zenon
<1>2. PICK t \in T : \A u \in T : t <= u
  BY <1>1, SmallestElement
<1>3. PICK m \in s : t = n - m
  BY <1>2
<1>4. \A x \in s : n - x \in T
  OBVIOUS
<1>5. \A x \in s : n - m <= n - x
  BY <1>2, <1>3, <1>4
<1>6. \A x \in s : m >= x
  BY <1>3, <1>5
<1>7. \E x \in s : \A y \in s : x >= y
  BY <1>3, <1>6
<1>8. Max(s) \in s /\ \A y \in s : Max(s) >= y
  BY <1>7, Zenon DEF Max
<1>9. QED
  BY <1>8

LEMMA MaxOfPrefix ==
  ASSUME NEW n \in Nat, NEW k \in 1 .. n
  PROVE  Max(1 .. k) = k /\ (1 .. k) \ {k} = 1 .. (k - 1)
<1>1. k \in Nat /\ 1 .. k # {} /\ 1 .. k \in SUBSET (1 .. k)
  OBVIOUS
<1>2. Max(1 .. k) \in 1 .. k /\ \A x \in 1 .. k : x <= Max(1 .. k)
  BY <1>1, MaxOfIndices, Zenon
<1>3. QED
  BY <1>2

IsSeqFold(f, n, V, b, step) ==
  /\ f \in [SUBSET (1 .. n) -> V]
  /\ f[{}] = b
  /\ \A s \in SUBSET (1 .. n) : s # {} => f[s] = step[<<f[s \ {Max(s)}], Max(s)>>]

LEMMA SeqFoldExists ==
  ASSUME NEW n \in Nat, NEW V, NEW b \in V, NEW step \in [V \X (1 .. n) -> V]
  PROVE  \E f : IsSeqFold(f, n, V, b, step)
<1> DEFINE c == [s \in SUBSET (1 .. n) |-> Max(s)]
<1>1. \A s \in SUBSET (1 .. n) : s # {} => c[s] \in s
  BY MaxOfIndices
<1>2. IsFiniteSet(1 .. n)
  BY FS_Interval
<1>3. \A s \in SUBSET (1 .. n) : c[s] = Max(s)
  OBVIOUS
<1> HIDE DEF c
<1>4. PICK f : IsFold(f, 1 .. n, V, b, c, step)
  BY <1>1, <1>2, FoldExists, Zenon
<1>5. IsSeqFold(f, n, V, b, step)
  BY <1>3, <1>4 DEF IsFold, IsSeqFold
<1>6. QED
  BY <1>5

(* The fold is the only function that satisfies its equations.              *)
SolvesSeqFold(g, n, V, b, step) ==
  /\ g[{}] = b
  /\ \A s \in SUBSET (1 .. n) :
       s # {} /\ g[s \ {Max(s)}] \in V =>
         g[s] = step[<<g[s \ {Max(s)}], Max(s)>>]

LEMMA SeqFoldUnique ==
  ASSUME NEW n \in Nat, NEW V, NEW b, NEW step, NEW f, IsSeqFold(f, n, V, b, step),
         NEW g, SolvesSeqFold(g, n, V, b, step)
  PROVE  g[1 .. n] = f[1 .. n]
<1> DEFINE P == {s \in SUBSET (1 .. n) : g[s] = f[s]}
<1>1. {} \in P
  BY DEF IsSeqFold, SolvesSeqFold
<1>2. ASSUME NEW s \in SUBSET (1 .. n), s # {}, \A x \in s : s \ {x} \in P
      PROVE  s \in P
  <2>1. Max(s) \in s
    BY <1>2, MaxOfIndices
  <2>2. g[s \ {Max(s)}] = f[s \ {Max(s)}] /\ s \ {Max(s)} \in SUBSET (1 .. n)
    BY <1>2, <2>1
  <2>3. f[s \ {Max(s)}] \in V
    BY <2>2 DEF IsSeqFold
  <2>4. QED
    BY <1>2, <2>2, <2>3 DEF IsSeqFold, SolvesSeqFold
<1> HIDE DEF P
<1>3. \A s \in SUBSET (1 .. n) : s \in P
  <2>1. IsFiniteSet(1 .. n)
    BY FS_Interval
  <2>2. QED
    BY <1>1, <1>2, <2>1, InductionOnSubsets, ZenonT(40)
<1>4. QED
  BY <1>3 DEF P

(* A fold over one element more: the new one comes last.                    *)
LEMMA SeqFoldOfPrefix ==
  ASSUME NEW n \in Nat, NEW V, NEW b, NEW d, NEW f, IsSeqFold(f, n, V, b, d),
         NEW k \in Nat, k + 1 <= n
  PROVE  f[1 .. (k + 1)] = d[<<f[1 .. k], k + 1>>]
<1>1. /\ k + 1 \in 1 .. n /\ \A x \in 1 .. (k + 1) : x \in 1 .. n
      /\ k + 1 \in 1 .. (k + 1)
  OBVIOUS
<1>2. 1 .. (k + 1) \in SUBSET (1 .. n) /\ 1 .. (k + 1) # {}
  BY <1>1
<1>3. Max(1 .. (k + 1)) = k + 1 /\ (1 .. (k + 1)) \ {k + 1} = 1 .. k
  BY <1>1, MaxOfPrefix
<1>4. QED
  BY <1>2, <1>3 DEF IsSeqFold

StepsAgree(d, e, V, n) == \A j \in 1 .. n : \A v \in V : d[<<v, j>>] = e[<<v, j>>]

LEMMA SeqFoldExtends ==
  ASSUME NEW n \in Nat, NEW V, NEW b, NEW d, NEW e, StepsAgree(d, e, V, n),
         NEW f, IsSeqFold(f, n, V, b, d), NEW g, IsSeqFold(g, n + 1, V, b, e)
  PROVE  g[1 .. (n + 1)] = e[<<f[1 .. n], n + 1>>]
<1> DEFINE P == {i \in Nat : i <= n => f[1 .. i] = g[1 .. i]}
<1>1. 0 \in P
  <2>1. 1 .. 0 = {}
    OBVIOUS
  <2>2. QED
    BY <2>1 DEF IsSeqFold
<1>2. ASSUME NEW i \in Nat, i \in P, i + 1 <= n
      PROVE  f[1 .. (i + 1)] = g[1 .. (i + 1)]
  <2>1. i + 1 <= n + 1 /\ i + 1 \in 1 .. n /\ n + 1 \in Nat
    BY <1>2
  <2>2. f[1 .. (i + 1)] = d[<<f[1 .. i], i + 1>>]
    BY <1>2, SeqFoldOfPrefix
  <2>3. g[1 .. (i + 1)] = e[<<g[1 .. i], i + 1>>]
    BY <2>1, SeqFoldOfPrefix
  <2>4. f[1 .. i] = g[1 .. i]
    BY <1>2
  <2>5. f[1 .. i] \in V
    BY <1>2 DEF IsSeqFold
  <2>6. QED
    BY <2>1, <2>2, <2>3, <2>4, <2>5 DEF StepsAgree
<1>3. \A i \in Nat : i \in P => i + 1 \in P
  BY <1>2
<1> HIDE DEF P
<1>4. n \in P
  BY <1>1, <1>3, InductionOnNat
<1>5. f[1 .. n] = g[1 .. n]
  BY <1>4 DEF P
<1>6. g[1 .. (n + 1)] = e[<<g[1 .. n], n + 1>>]
  <2>1. n + 1 \in Nat /\ n + 1 <= n + 1
    OBVIOUS
  <2>2. QED
    BY <2>1, SeqFoldOfPrefix
<1>7. QED
  BY <1>5, <1>6

(* The same with a step that is given the element and not its index.  What  *)
(* the step does outside V is left open: a fold that begins in V stays there.*)
IsFoldOver(f, d, V, b, T) ==
  /\ f[{}] = b
  /\ \A s \in SUBSET (1 .. Len(d)) :
       s # {} /\ f[s \ {Max(s)}] \in V =>
         f[s] = T[<<f[s \ {Max(s)}], d[Max(s)]>>]

LEMMA FoldOverExists ==
  ASSUME NEW E, NEW d \in Seq(E), NEW V, NEW b \in V, NEW T \in [V \X E -> V]
  PROVE  \E f \in [SUBSET (1 .. Len(d)) -> V] : IsFoldOver(f, d, V, b, T)
<1>1. PICK n \in Nat : n = Len(d)
  OBVIOUS
<1>2. PICK step : step = [p \in V \X (1 .. n) |-> T[<<p[1], d[p[2]]>>]]
  OBVIOUS
<1>3. step \in [V \X (1 .. n) -> V]
  <2>1. ASSUME NEW p \in V \X (1 .. n)
        PROVE  T[<<p[1], d[p[2]]>>] \in V
    BY <1>1
  <2>2. QED
    BY <1>2, <2>1, Zenon
<1>4. PICK f : IsSeqFold(f, n, V, b, step)
  BY <1>3, SeqFoldExists, Zenon
<1>5. ASSUME NEW s \in SUBSET (1 .. n), s # {}
      PROVE  f[s] = T[<<f[s \ {Max(s)}], d[Max(s)]>>]
  <2>1. Max(s) \in 1 .. n /\ s \ {Max(s)} \in SUBSET (1 .. n)
    BY <1>5, MaxOfIndices
  <2>2. f[s \ {Max(s)}] \in V
    BY <1>4, <2>1 DEF IsSeqFold
  <2>3. f[s] = step[<<f[s \ {Max(s)}], Max(s)>>]
    BY <1>4, <1>5, Zenon DEF IsSeqFold
  <2>4. QED
    BY <1>2, <2>1, <2>2, <2>3
<1>6. QED
  BY <1>1, <1>4, <1>5 DEF IsSeqFold, IsFoldOver

(* The fold over the first elements, one element more.                      *)
GrowsByOne(f, d, V, b, T) ==
  /\ f[1 .. 0] = b
  /\ \A k \in Nat : k <= Len(d) => f[1 .. k] \in V
  /\ \A k \in Nat : k + 1 <= Len(d) =>
       f[1 .. (k + 1)] = T[<<f[1 .. k], d[k + 1]>>]

LEMMA FoldOverPrefix ==
  ASSUME NEW E, NEW d \in Seq(E), NEW V, NEW b \in V, NEW T \in [V \X E -> V],
         NEW f, IsFoldOver(f, d, V, b, T)
  PROVE  GrowsByOne(f, d, V, b, T)
<1>1. PICK n \in Nat : n = Len(d)
  OBVIOUS
<1>2. f[1 .. 0] = b
  <2>1. 1 .. 0 = {}
    OBVIOUS
  <2>2. QED
    BY <2>1 DEF IsFoldOver
<1>3. ASSUME NEW k \in Nat, k + 1 <= n, f[1 .. k] \in V
      PROVE  f[1 .. (k + 1)] = T[<<f[1 .. k], d[k + 1]>>] /\ d[k + 1] \in E
  <2>1. /\ k + 1 \in 1 .. n /\ \A x \in 1 .. (k + 1) : x \in 1 .. n
        /\ k + 1 \in 1 .. (k + 1)
    BY <1>3
  <2>2. 1 .. (k + 1) \in SUBSET (1 .. n) /\ 1 .. (k + 1) # {}
    BY <2>1
  <2>3. Max(1 .. (k + 1)) = k + 1 /\ (1 .. (k + 1)) \ {k + 1} = 1 .. k
    BY <2>1, MaxOfPrefix
  <2>4. f[1 .. (k + 1)] = T[<<f[1 .. k], d[k + 1]>>]
    BY <1>1, <1>3, <2>2, <2>3 DEF IsFoldOver
  <2>5. d[k + 1] \in E
    BY <1>1, <2>1
  <2>6. QED
    BY <2>4, <2>5
<1> DEFINE P == {k \in Nat : k <= n => f[1 .. k] \in V}
<1>4. 0 \in P
  BY <1>2
<1>5. ASSUME NEW k \in Nat, k \in P
      PROVE  k + 1 \in P
  <2>1. CASE k + 1 <= n
    <3>1. f[1 .. k] \in V
      BY <1>5, <2>1
    <3>2. f[1 .. (k + 1)] \in V
      BY <1>3, <2>1, <3>1
    <3>3. QED
      BY <3>2
  <2>2. CASE ~(k + 1 <= n)
    BY <2>2
  <2>3. QED
    BY <2>1, <2>2
<1> HIDE DEF P
<1>6. \A k \in Nat : k \in P
  <2>1. \A k \in Nat : k \in P => k + 1 \in P
    BY <1>5
  <2>2. QED
    BY <1>4, <2>1, InductionOnNat, Zenon
<1>7. \A k \in Nat : k <= n => f[1 .. k] \in V
  BY <1>6 DEF P
<1>8. \A k \in Nat : k + 1 <= n => f[1 .. (k + 1)] = T[<<f[1 .. k], d[k + 1]>>]
  BY <1>3, <1>7
<1>9. QED
  BY <1>1, <1>2, <1>7, <1>8 DEF GrowsByOne

-----------------------------------------------------------------------------
(* Recursion over the natural numbers: `less` gives a smaller number,       *)
(* `step` combines its value with the number.                               *)
IsRecursion(f, V, b, less, step) ==
  /\ f \in [Nat -> V]
  /\ \A n \in Nat : f[n] = IF n = 0 THEN b ELSE step[<<f[less[n]], n>>]

LEMMA StrongInduction ==
  ASSUME NEW S, \A n \in Nat : (\A m \in Nat : m < n => m \in S) => n \in S
  PROVE  \A n \in Nat : n \in S
<1>1. SUFFICES ASSUME Nat \ S # {}
               PROVE  FALSE
  OBVIOUS
<1>2. PICK n \in Nat \ S : \A m \in Nat \ S : n <= m
  BY <1>1, SmallestElement
<1>3. \A m \in Nat : m < n => m \in S
  BY <1>2
<1>4. QED
  BY <1>2, <1>3

LEMMA RecursionExists ==
  ASSUME NEW V, NEW b \in V, NEW less \in [Nat -> Nat],
         \A n \in Nat : n # 0 => less[n] < n,
         NEW step \in [V \X Nat -> V]
  PROVE  \E f : IsRecursion(f, V, b, less, step)
<1> DEFINE Next(f) == [n \in Nat |-> IF n = 0 THEN b ELSE step[<<f[less[n]], n>>]]
           Good(f, m) == \A n \in Nat : n <= m => f[n] = Next(f)[n]
<1>1. ASSUME NEW f \in [Nat -> V]
      PROVE  Next(f) \in [Nat -> V]
  <2>1. ASSUME NEW n \in Nat
        PROVE  (IF n = 0 THEN b ELSE step[<<f[less[n]], n>>]) \in V
    <3>1. <<f[less[n]], n>> \in V \X Nat
      OBVIOUS
    <3>2. QED
      BY <3>1
  <2>2. QED
    BY <2>1
<1>2. ASSUME NEW f \in [Nat -> V], NEW n \in Nat
      PROVE  Next(f)[n] = IF n = 0 THEN b ELSE step[<<f[less[n]], n>>]
  OBVIOUS
<1> HIDE DEF Next
<1>3. ASSUME NEW f \in [Nat -> V], NEW g \in [Nat -> V], NEW m \in Nat,
             Good(f, m), Good(g, m)
      PROVE  f[m] = g[m]
  <2> DEFINE S == {n \in Nat : n <= m => f[n] = g[n]}
  <2>1. ASSUME NEW n \in Nat, \A k \in Nat : k < n => k \in S
        PROVE  n \in S
    <3>1. SUFFICES ASSUME n <= m PROVE f[n] = g[n]
      OBVIOUS
    <3>2. f[n] = Next(f)[n] /\ g[n] = Next(g)[n]
      BY <1>3, <3>1
    <3>3. n # 0 => f[less[n]] = g[less[n]]
      <4>1. n # 0 => less[n] \in Nat /\ less[n] < n /\ less[n] <= m
        BY <3>1
      <4>2. QED
        BY <2>1, <4>1
    <3>4. QED
      BY <1>2, <3>2, <3>3, ZenonT(40)
  <2> HIDE DEF S
  <2>2. \A n \in Nat : n \in S
    BY <2>1, StrongInduction
  <2>3. QED
    BY <2>2 DEF S
<1>4. \A m \in Nat : \E f \in [Nat -> V] : Good(f, m)
  <2> DEFINE S == {m \in Nat : \E f \in [Nat -> V] : Good(f, m)}
  <2>1. 0 \in S
    <3>1. PICK f : f = [n \in Nat |-> b]
      OBVIOUS
    <3>2. f \in [Nat -> V] /\ f[0] = b
      BY <3>1
    <3>3. \A n \in Nat : n <= 0 => n = 0
      OBVIOUS
    <3>4. Good(f, 0)
      BY <1>2, <3>2, <3>3
    <3>5. QED
      BY <3>2, <3>4
  <2>2. ASSUME NEW m \in Nat, m \in S
        PROVE  m + 1 \in S
    <3>1. PICK f \in [Nat -> V] : Good(f, m)
      BY <2>2
    <3>2. PICK g \in [Nat -> V] : g = Next(f)
      BY <1>1
    <3>3. ASSUME NEW n \in Nat, n <= m + 1
          PROVE  g[n] = Next(g)[n]
      <4>1. n # 0 => less[n] \in Nat /\ less[n] <= m
        BY <3>3
      <4>2. n # 0 => g[less[n]] = f[less[n]]
        BY <3>1, <3>2, <4>1
      <4>3. g[n] = IF n = 0 THEN b ELSE step[<<f[less[n]], n>>]
        BY <1>2, <3>2
      <4>4. Next(g)[n] = IF n = 0 THEN b ELSE step[<<g[less[n]], n>>]
        BY <1>2
      <4>5. QED
        BY <4>2, <4>3, <4>4
    <3>4. m + 1 \in Nat /\ Good(g, m + 1)
      BY <3>3
    <3>5. QED
      BY <3>4
  <2> HIDE DEF S
  <2>3. \A m \in Nat : m \in S
    BY <2>1, <2>2, InductionOnNat
  <2>4. QED
    BY <2>3 DEF S
<1> DEFINE h == [m \in Nat |-> CHOOSE f \in [Nat -> V] : Good(f, m)]
<1>5. \A m \in Nat : h[m] \in [Nat -> V] /\ Good(h[m], m)
  <2>1. SUFFICES ASSUME NEW m \in Nat PROVE h[m] \in [Nat -> V] /\ Good(h[m], m)
    OBVIOUS
  <2>2. \E f \in [Nat -> V] : Good(f, m)
    BY <1>4
  <2> HIDE DEF Good
  <2>3. h[m] = CHOOSE f \in [Nat -> V] : Good(f, m)
    OBVIOUS
  <2>4. QED
    BY <2>2, <2>3, Zenon
<1> HIDE DEF h
<1>6. PICK F : F = [n \in Nat |-> h[n][n]]
  OBVIOUS
<1>7. F \in [Nat -> V] /\ \A n \in Nat : F[n] = h[n][n]
  BY <1>5, <1>6
<1>8. ASSUME NEW n \in Nat
      PROVE  F[n] = IF n = 0 THEN b ELSE step[<<F[less[n]], n>>]
  <2>1. h[n][n] = Next(h[n])[n]
    BY <1>5
  <2>2. ASSUME n # 0
        PROVE  h[n][less[n]] = F[less[n]]
    <3>1. PICK k \in Nat : k = less[n] /\ k < n
      BY <2>2
    <3>2. Good(h[n], k)
      BY <1>5, <3>1
    <3>3. h[n][k] = h[k][k]
      <4>1. h[n] \in [Nat -> V] /\ h[k] \in [Nat -> V] /\ Good(h[k], k)
        BY <1>5
      <4> HIDE DEF Good
      <4>2. QED
        BY <1>3, <3>2, <4>1
    <3>4. QED
      BY <1>7, <3>1, <3>3
  <2>3. QED
    BY <1>2, <1>5, <1>7, <2>1, <2>2, ZenonT(40)
<1>9. IsRecursion(F, V, b, less, step)
  BY <1>7, <1>8 DEF IsRecursion
<1>10. QED
  BY <1>9

-----------------------------------------------------------------------------
(* How many elements of a set of numbers come up to one of them.            *)
LEMMA UpToIsFinite ==
  ASSUME NEW W, W \subseteq Nat, IsFiniteSet(W), NEW b
  PROVE  IsFiniteSet(UpTo(W, b)) /\ Cardinality(UpTo(W, b)) \in Nat
<1>1. UpTo(W, b) \in SUBSET W
  BY DEF UpTo
<1>2. QED
  BY <1>1, FS_Subset, FS_CardinalityType

LEMMA UpToEarlier ==
  ASSUME NEW W, W \subseteq Nat, IsFiniteSet(W), NEW b \in Nat, NEW i \in UpTo(W, b)
  PROVE  Cardinality(UpTo(W, i)) \in 1 .. Cardinality(UpTo(W, b))
<1>1. /\ IsFiniteSet(UpTo(W, b)) /\ IsFiniteSet(UpTo(W, i))
      /\ Cardinality(UpTo(W, b)) \in Nat /\ Cardinality(UpTo(W, i)) \in Nat
  BY UpToIsFinite
<1>2. UpTo(W, i) \in SUBSET UpTo(W, b) /\ i \in UpTo(W, i)
  <2>1. i \in W /\ i <= b
    BY DEF UpTo
  <2>2. \A j \in W : j \in Nat
    OBVIOUS
  <2>3. \A j \in UpTo(W, i) : j \in W /\ j <= i
    BY DEF UpTo
  <2>4. \A j \in UpTo(W, i) : j <= b
    BY <2>1, <2>2, <2>3
  <2>5. i <= i
    BY <2>1, <2>2
  <2>6. QED
    BY <2>1, <2>3, <2>4, <2>5, Zenon DEF UpTo
<1>3. Cardinality(UpTo(W, i)) <= Cardinality(UpTo(W, b))
  BY <1>1, <1>2, FS_Subset
<1>4. Cardinality(UpTo(W, i)) # 0
  BY <1>1, <1>2, FS_EmptySet
<1>5. QED
  BY <1>1, <1>3, <1>4

(* A number that begins a word, and only such a number, is one more.        *)
LEMMA UpToSame ==
  ASSUME NEW W, \A j \in W : j \in Nat, NEW b \in Nat, NEW c \in Nat, b <= c,
         \A j \in W : ~(b < j /\ j <= c)
  PROVE  UpTo(W, c) = UpTo(W, b)
<1>1. \A j \in W : j <= c <=> j <= b
  OBVIOUS
<1>2. QED
  BY <1>1, Zenon DEF UpTo

OneMore(W, b, c, i) ==
  /\ i \in W /\ b < i /\ i <= c
  /\ \A j \in W : b < j /\ j <= c => j = i

LEMMA UpToNext ==
  ASSUME NEW W, \A j \in W : j \in Nat, IsFiniteSet(W), NEW b \in Nat, NEW c \in Nat,
         NEW i, OneMore(W, b, c, i)
  PROVE  /\ Cardinality(UpTo(W, c)) = Cardinality(UpTo(W, b)) + 1
         /\ Cardinality(UpTo(W, i)) = Cardinality(UpTo(W, b)) + 1
         /\ \A j \in UpTo(W, c) : j = i \/ j \in UpTo(W, b)
<1> USE DEF OneMore
<1>1. \A j \in W : j <= c <=> j <= b \/ j = i
  OBVIOUS
<1>2. \A j \in W : j <= i <=> j <= b \/ j = i
  OBVIOUS
<1>3. UpTo(W, c) = UpTo(W, b) \cup {i} /\ UpTo(W, i) = UpTo(W, b) \cup {i}
  BY <1>1, <1>2, Zenon DEF UpTo
<1>4. i \notin UpTo(W, b)
  <2>1. ~(i <= b)
    OBVIOUS
  <2>2. QED
    BY <2>1, Zenon DEF UpTo
<1>5. IsFiniteSet(UpTo(W, b))
  <2>1. W \subseteq Nat
    OBVIOUS
  <2>2. QED
    BY <2>1, UpToIsFinite
<1>6. PICK U : U = UpTo(W, b)
  OBVIOUS
<1>7. Cardinality(U \cup {i}) = Cardinality(U) + 1
  BY <1>4, <1>5, <1>6, FS_AddElement
<1>8. QED
  BY <1>3, <1>6, <1>7

LEMMA UpToGrows ==
  ASSUME NEW W, \A j \in W : j \in Nat, IsFiniteSet(W), NEW i \in W, NEW j \in W, i < j
  PROVE  Cardinality(UpTo(W, i)) < Cardinality(UpTo(W, j))
<1>1. W \subseteq Nat
  OBVIOUS
<1>2. PICK U : U = UpTo(W, j) /\ IsFiniteSet(U) /\ Cardinality(U) \in Nat
  BY <1>1, UpToIsFinite
<1>3. j \in U
  BY <1>2 DEF UpTo
<1>4. Cardinality(U \ {j}) = Cardinality(U) - 1 /\ IsFiniteSet(U \ {j})
  BY <1>2, <1>3, FS_RemoveElement
<1>5. UpTo(W, i) \in SUBSET (U \ {j})
  <2>1. ASSUME NEW x \in UpTo(W, i)
        PROVE  x \in U \ {j}
    <3>1. x \in W /\ x <= i
      BY DEF UpTo
    <3>2. x <= j /\ x # j
      BY <3>1
    <3>3. QED
      BY <1>2, <3>1, <3>2, Zenon DEF UpTo
  <2>2. QED
    BY <2>1
<1>6. Cardinality(UpTo(W, i)) <= Cardinality(U \ {j})
  BY <1>4, <1>5, FS_Subset
<1>7. Cardinality(UpTo(W, i)) \in Nat
  BY <1>1, UpToIsFinite
<1>8. QED
  BY <1>2, <1>4, <1>6, <1>7

LEMMA WordStartsAreIndices ==
  ASSUME NEW C, NEW text \in Seq(C), NEW blanks
  PROVE  /\ Len(text) \in Nat /\ WordStarts(text, blanks) \subseteq 1 .. Len(text)
         /\ \A i \in 1 .. Len(text) :
              i \in WordStarts(text, blanks) <=>
                text[i] \notin blanks /\ (i = 1 \/ text[i - 1] \in blanks)
BY DEF WordStarts
=============================================================================
