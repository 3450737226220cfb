----------------------------- MODULE SumProofs -----------------------------
(***************************************************************************)
(* Facts about sums, on which the proofs about amounts rest: sums over a   *)
(* finite set (MapThenSumSet of the community modules, a fold) and the     *)
(* least counterexample that takes the place of induction, whose theorems  *)
(* the provers cannot instantiate.                                         *)
(***************************************************************************)
EXTENDS Sums, FiniteSetsExt, TLAPS, WellFoundedInduction, FiniteSetTheorems

Less == {pair \in Nat \X Nat : pair[1] < pair[2]}

LEMMA LeastElement ==
    ASSUME NEW S \in SUBSET Nat, S # {}
    PROVE  \E n \in S : \A m \in S : n <= m
<1>1. IsWellFoundedOn(Less, Nat)
  BY NatLessThanWellFounded, Zenon DEF OpToRel, Less
<1>2. PICK n \in S : \A m \in S : ~ (<<m, n>> \in Less)
  BY <1>1, WFMin, Zenon
<1>3. \A i, j \in Nat : i < j => <<i, j>> \in Less
  BY Zenon DEF Less
<1>4. \A m \in S : ~ (m < n)
  BY <1>2, <1>3
<1>. QED
  BY <1>4

\* Of some subsets of a finite set, one with the fewest elements.
LEMMA SmallestSubset ==
    ASSUME NEW S, IsFiniteSet(S), NEW Bad \in SUBSET SUBSET S, Bad # {}
    PROVE  \E s \in Bad : /\ IsFiniteSet(s)
                          /\ \A t \in SUBSET S : Cardinality(t) < Cardinality(s) => t \notin Bad
<1>. DEFINE Sizes == {Cardinality(s) : s \in Bad}
<1>1. \A s \in SUBSET S : IsFiniteSet(s) /\ Cardinality(s) \in Nat
  BY FS_Subset, FS_CardinalityType
<1>2. Sizes \in SUBSET Nat /\ Sizes # {}
  BY <1>1
<1>3. PICK n \in Sizes : \A m \in Sizes : n <= m
  BY <1>2, LeastElement, Zenon
<1>4. PICK s \in Bad : Cardinality(s) = n
  OBVIOUS
<1>5. \A t \in Bad : Cardinality(t) \in Sizes
  OBVIOUS
<1>. HIDE DEF Sizes
<1>6. \A t \in SUBSET S : Cardinality(t) < Cardinality(s) => t \notin Bad
  BY <1>1, <1>3, <1>4, <1>5
<1>. QED
  BY <1>1, <1>4, <1>6

LEMMA SmallerWithout ==
    ASSUME NEW s, IsFiniteSet(s), NEW x \in s
    PROVE  /\ IsFiniteSet(s \ {x}) /\ Cardinality(s \ {x}) < Cardinality(s)
           /\ Cardinality(s) \in Nat /\ Cardinality(s \ {x}) = Cardinality(s) - 1
<1>1. IsFiniteSet(s \ {x}) /\ Cardinality(s \ {x}) = Cardinality(s) - 1
  BY FS_RemoveElement
<1>2. Cardinality(s) \in Nat
  BY FS_CardinalityType
<1>. QED
  BY <1>1, <1>2

Pick(s) == CHOOSE x \in s : TRUE

\* g adds up f over the subsets of S, in the order in which elements are picked.
AddsUp(g, f, D) ==
    g = [s \in D |-> IF s = {} THEN 0 ELSE f[Pick(s)] + g[s \ {Pick(s)}]]

AddsSubsets(g, f, S) == AddsUp(g, f, SUBSET S)

SetSum(f, S) == MapThenSumSet(LAMBDA x : f[x], S)

LEMMA PickInSet == \A s : s # {} => Pick(s) \in s
BY DEF Pick

LEMMA SetSumsExist ==
    ASSUME NEW S, IsFiniteSet(S), NEW f
    PROVE  \E g : AddsUp(g, f, SUBSET S)
<1>. DEFINE Upto(n) == {s \in SUBSET S : Cardinality(s) <= n}
            N == Cardinality(S)
            Bad == {n \in 0..N : ~ \E g : AddsUp(g, f, Upto(n))}
<1>1. N \in Nat /\ \A s \in SUBSET S : IsFiniteSet(s) /\ Cardinality(s) \in Nat
  BY FS_Subset, FS_CardinalityType
<1>2. \A s \in SUBSET S : Cardinality(s) <= N
  BY FS_Subset
<1>3. Upto(N) = SUBSET S
  BY <1>2
<1>4. SUFFICES ASSUME Bad # {} PROVE FALSE
  <2>1. N \in 0..N
    BY <1>1
  <2>2. Bad = {}
    BY <1>4
  <2>. QED
    BY <1>3, <2>1, <2>2
<1>5. PICK n \in Bad : \A m \in Bad : n <= m
  <2>1. Bad \in SUBSET Nat
    BY <1>1
  <2>. QED
    BY <1>4, <2>1, LeastElement, Zenon
<1>6. n \in Nat /\ n \in 0..N /\ ~ \E g : AddsUp(g, f, Upto(n))
  BY <1>1
<1>7. CASE n = 0
  <2>. DEFINE g == [s \in Upto(n) |-> 0]
  <2>1. \A s \in Upto(n) : s = {}
    BY <1>1, <1>7, FS_EmptySet
  <2>2. AddsUp(g, f, Upto(n))
    BY <2>1 DEF AddsUp
  <2>. QED
    BY <1>6, <2>2
<1>8. CASE n # 0
  <2>1. n - 1 \in 0..N /\ n - 1 \notin Bad
    <3>1. n - 1 \in 0..N /\ ~ (n <= n - 1)
      BY <1>1, <1>6, <1>8
    <3>. HIDE DEF Bad
    <3>. QED
      BY <1>5, <3>1
  <2>2. PICK h : AddsUp(h, f, Upto(n - 1))
    BY <2>1
  <2>3. \A s \in Upto(n - 1) : h[s] = IF s = {} THEN 0 ELSE f[Pick(s)] + h[s \ {Pick(s)}]
    BY <2>2, Zenon DEF AddsUp
  <2>. DEFINE g == [s \in Upto(n) |-> IF s = {} THEN 0 ELSE f[Pick(s)] + h[s \ {Pick(s)}]]
  <2>4. \A s \in Upto(n) : s # {} => /\ s \ {Pick(s)} \in Upto(n - 1)
                                     /\ s \ {Pick(s)} \in Upto(n)
    <3>. SUFFICES ASSUME NEW s \in Upto(n), s # {}
                  PROVE  s \ {Pick(s)} \in Upto(n - 1) /\ s \ {Pick(s)} \in Upto(n)
      OBVIOUS
    <3>1. Pick(s) \in s /\ IsFiniteSet(s) /\ Cardinality(s) \in Nat
      BY <1>1, PickInSet
    <3>2. Cardinality(s \ {Pick(s)}) = Cardinality(s) - 1
      BY <3>1, FS_RemoveElement
    <3>. QED
      BY <1>6, <3>1, <3>2
  <2>5. \A s \in Upto(n - 1) : g[s] = h[s]
    <3>1. \A s \in Upto(n - 1) : s \in Upto(n)
      BY <1>1, <1>6
    <3>. QED
      BY <2>3, <3>1
  <2>6. \A s \in Upto(n) : g[s] = IF s = {} THEN 0 ELSE f[Pick(s)] + g[s \ {Pick(s)}]
    BY <2>4, <2>5
  <2>7. AddsUp(g, f, Upto(n))
    BY <2>6, Zenon DEF AddsUp
  <2>. QED
    BY <1>6, <2>7
<1>. QED
  BY <1>7, <1>8

\* MapThenSumSet adds up.
LEMMA SetSumAddsUp ==
    ASSUME NEW S, IsFiniteSet(S), NEW f
    PROVE  \E g : AddsSubsets(g, f, S) /\ SetSum(f, S) = g[S]
<1>. DEFINE g == CHOOSE g : AddsSubsets(g, f, S)
<1>1. AddsSubsets(g, f, S)
  BY SetSumsExist, Zenon DEF AddsSubsets
<1>2. SetSum(f, S) = g[S]
  BY Zenon DEF SetSum, MapThenSumSet, MapThenFoldSet, AddsSubsets, AddsUp, Pick
<1>. QED
  BY <1>1, <1>2, Zenon

LEMMA AddsUpUnfolded ==
    ASSUME NEW S, NEW f, NEW g, AddsSubsets(g, f, S)
    PROVE  /\ g[{}] = 0
           /\ \A s : s \subseteq S /\ s # {} => g[s] = f[Pick(s)] + g[s \ {Pick(s)}]
<1>1. \A s \in SUBSET S : g[s] = IF s = {} THEN 0 ELSE f[Pick(s)] + g[s \ {Pick(s)}]
  BY Zenon DEF AddsSubsets, AddsUp
<1>. QED
  BY <1>1

\* Two that add up the same numbers agree.
LEMMA AddsUpAgree ==
    ASSUME NEW S, NEW f, NEW g, AddsSubsets(g, f, S),
           NEW U, U \subseteq S, IsFiniteSet(U),
           NEW k, NEW h, AddsSubsets(h, k, U), \A x \in U : f[x] = k[x]
    PROVE  g[U] = h[U]
<1>. DEFINE Bad == {s \in SUBSET U : g[s] # h[s]}
<1>1. SUFFICES ASSUME Bad # {} PROVE FALSE
  OBVIOUS
<1>2. PICK s \in Bad : /\ IsFiniteSet(s)
                       /\ \A t \in SUBSET U : Cardinality(t) < Cardinality(s) => t \notin Bad
  <2>1. Bad \in SUBSET SUBSET U
    OBVIOUS
  <2>. HIDE DEF Bad
  <2>. QED
    BY <1>1, <2>1, SmallestSubset
<1>3. s \in SUBSET U /\ s \in SUBSET S /\ g[s] # h[s]
  OBVIOUS
<1>4. CASE s = {}
  BY <1>3, <1>4, AddsUpUnfolded
<1>5. CASE s # {}
  <2>1. Pick(s) \in s
    BY <1>5, PickInSet
  <2>2. Cardinality(s \ {Pick(s)}) < Cardinality(s)
    BY <1>2, <2>1, SmallerWithout
  <2>3. s \ {Pick(s)} \notin Bad /\ s \ {Pick(s)} \in SUBSET U
    <3>1. s \ {Pick(s)} \in SUBSET U
      BY <1>3
    <3>. HIDE DEF Bad
    <3>. QED
      BY <1>2, <2>2, <3>1
  <2>4. g[s \ {Pick(s)}] = h[s \ {Pick(s)}] /\ f[Pick(s)] = k[Pick(s)]
    BY <1>3, <2>1, <2>3
  <2>. HIDE DEF Bad
  <2>5. g[s] = f[Pick(s)] + g[s \ {Pick(s)}] /\ h[s] = k[Pick(s)] + h[s \ {Pick(s)}]
    BY <1>3, <1>5, AddsUpUnfolded
  <2>. QED
    BY <1>3, <2>4, <2>5
<1>. QED
  BY <1>4, <1>5

\* What every sum over a finite set is about: numbers, for the elements of the set.
LEMMA AddsUpTyped ==
    ASSUME NEW S, IsFiniteSet(S), NEW f, NEW g, AddsSubsets(g, f, S),
           \A x \in S : f[x] \in Int, NEW s \in SUBSET S
    PROVE  g[s] \in Int
<1>. DEFINE Bad == {t \in SUBSET S : g[t] \notin Int}
<1>1. SUFFICES ASSUME Bad # {} PROVE FALSE
  OBVIOUS
<1>2. PICK t \in Bad : /\ IsFiniteSet(t)
                       /\ \A u \in SUBSET S : Cardinality(u) < Cardinality(t) => u \notin Bad
  <2>1. Bad \in SUBSET SUBSET S
    OBVIOUS
  <2>. HIDE DEF Bad
  <2>. QED
    BY <1>1, <2>1, SmallestSubset
<1>3. t \in SUBSET S /\ g[t] \notin Int
  OBVIOUS
<1>4. CASE t = {}
  <2>1. g[{}] = 0
    BY AddsUpUnfolded
  <2>. QED
    BY <1>3, <1>4, <2>1
<1>5. CASE t # {}
  <2>1. Pick(t) \in t
    BY <1>5, PickInSet
  <2>2. Cardinality(t \ {Pick(t)}) < Cardinality(t)
    BY <1>2, <2>1, SmallerWithout
  <2>3. t \ {Pick(t)} \notin Bad /\ t \ {Pick(t)} \in SUBSET S
    <3>1. t \ {Pick(t)} \in SUBSET S
      BY <1>3
    <3>. HIDE DEF Bad
    <3>. QED
      BY <1>2, <2>2, <3>1
  <2>4. g[t \ {Pick(t)}] \in Int /\ f[Pick(t)] \in Int
    BY <1>3, <2>1, <2>3
  <2>. HIDE DEF Bad
  <2>5. g[t] = f[Pick(t)] + g[t \ {Pick(t)}]
    BY <1>3, <1>5, AddsUpUnfolded
  <2>. QED
    BY <1>3, <2>4, <2>5
<1>. QED
  BY <1>4, <1>5

\* In whatever order the elements were picked, any of them may be taken out.
LEMMA AddsUpRemove ==
    ASSUME NEW S, IsFiniteSet(S), NEW f, NEW g, AddsSubsets(g, f, S),
           \A x \in S : f[x] \in Int
    PROVE  \A a \in S : g[S] = f[a] + g[S \ {a}]
<1>. DEFINE Bad == {s \in SUBSET S : \E a \in s : g[s] # f[a] + g[s \ {a}]}
<1>1. SUFFICES ASSUME Bad # {} PROVE FALSE
  OBVIOUS
<1>2. PICK s \in Bad : /\ IsFiniteSet(s)
                       /\ \A t \in SUBSET S : Cardinality(t) < Cardinality(s) => t \notin Bad
  <2>1. Bad \in SUBSET SUBSET S
    OBVIOUS
  <2>. HIDE DEF Bad
  <2>. QED
    BY <1>1, <2>1, SmallestSubset
<1>3. s \in SUBSET S
  OBVIOUS
<1>4. PICK a \in s : g[s] # f[a] + g[s \ {a}]
  OBVIOUS
<1>5. ASSUME NEW y \in s, NEW z \in s \ {y}
      PROVE  g[s \ {y}] = f[z] + g[(s \ {y}) \ {z}]
  <2>1. s \ {y} \in SUBSET S /\ Cardinality(s \ {y}) < Cardinality(s)
    BY <1>2, <1>3, SmallerWithout
  <2>2. s \ {y} \notin Bad
    <3>. HIDE DEF Bad
    <3>. QED
      BY <1>2, <2>1
  <2>. QED
    BY <2>1, <2>2
<1>. HIDE DEF Bad
<1>. DEFINE x == Pick(s)
<1>6. x \in s /\ g[s] = f[x] + g[s \ {x}]
  BY <1>3, <1>4, PickInSet, AddsUpUnfolded
<1>. HIDE DEF x
<1>7. a # x
  BY <1>4, <1>6
<1>8. g[s \ {x}] = f[a] + g[(s \ {x}) \ {a}] /\ g[s \ {a}] = f[x] + g[(s \ {a}) \ {x}]
  BY <1>4, <1>5, <1>6, <1>7
<1>9. (s \ {x}) \ {a} = (s \ {a}) \ {x} /\ (s \ {x}) \ {a} \in SUBSET S
  BY <1>3
<1>10. g[(s \ {x}) \ {a}] \in Int
  <2>1. \A u \in SUBSET S : g[u] \in Int
    BY AddsUpTyped
  <2>. QED
    BY <1>9, <2>1, Zenon
<1>11. f[a] \in Int /\ f[x] \in Int
  BY <1>3, <1>4, <1>6
<1>. DEFINE rest == g[(s \ {x}) \ {a}]
<1>12. g[s] = f[x] + (f[a] + rest) /\ g[s \ {a}] = f[x] + rest /\ rest \in Int
  BY <1>6, <1>8, <1>9, <1>10
<1>. HIDE DEF rest
<1>. QED
  BY <1>4, <1>11, <1>12

(***************************************************************************)
(* What the proofs use of sums over a set.                                 *)
(***************************************************************************)

LEMMA SetSumEmpty ==
    ASSUME NEW f
    PROVE  SetSum(f, {}) = 0
<1>1. PICK g : AddsSubsets(g, f, {}) /\ SetSum(f, {}) = g[{}]
  BY SetSumAddsUp, FS_EmptySet
<1>. QED
  BY <1>1, AddsUpUnfolded

\* f is about numbers on the finite set S, it is k there, it is k but for what it has at a.
NumbersOn(f, S) == IsFiniteSet(S) /\ \A x \in S : f[x] \in Int
AgreesOn(f, k, S) == IsFiniteSet(S) /\ \A x \in S : f[x] = k[x]
DiffersAt(a, f, k, S) == a \in S /\ k[a] \in Int /\ \A x \in S \ {a} : k[x] = f[x]

LEMMA SetSumAgree ==
    ASSUME NEW f, NEW k, NEW S, AgreesOn(f, k, S)
    PROVE  SetSum(f, S) = SetSum(k, S)
<1>1. PICK g : AddsSubsets(g, f, S) /\ SetSum(f, S) = g[S]
  BY SetSumAddsUp DEF AgreesOn
<1>2. PICK h : AddsSubsets(h, k, S) /\ SetSum(k, S) = h[S]
  BY SetSumAddsUp DEF AgreesOn
<1>. QED
  BY <1>1, <1>2, AddsUpAgree DEF AgreesOn

LEMMA SetSumRemove ==
    ASSUME NEW f, NEW S, NumbersOn(f, S), NEW a \in S
    PROVE  SetSum(f, S) = f[a] + SetSum(f, S \ {a}) /\ SetSum(f, S \ {a}) \in Int
<1>. IsFiniteSet(S) /\ \A x \in S : f[x] \in Int
  BY DEF NumbersOn
<1>1. PICK g : AddsSubsets(g, f, S) /\ SetSum(f, S) = g[S]
  BY SetSumAddsUp
<1>2. IsFiniteSet(S \ {a}) /\ S \ {a} \in SUBSET S
  BY SmallerWithout
<1>3. PICK h : AddsSubsets(h, f, S \ {a}) /\ SetSum(f, S \ {a}) = h[S \ {a}]
  BY <1>2, SetSumAddsUp
<1>4. g[S \ {a}] = h[S \ {a}]
  <2>. DEFINE U == S \ {a}
  <2>1. U \subseteq S /\ IsFiniteSet(U) /\ \A x \in U : f[x] = f[x]
    BY <1>2
  <2>2. AddsSubsets(h, f, U)
    BY <1>3
  <2>. HIDE DEF U
  <2>3. g[U] = h[U]
    BY <1>1, <2>1, <2>2, AddsUpAgree
  <2>. QED
    BY <2>3 DEF U
<1>5. g[S] = f[a] + g[S \ {a}] /\ g[S \ {a}] \in Int
  BY <1>1, <1>2, AddsUpRemove, AddsUpTyped
<1>. QED
  BY <1>1, <1>3, <1>4, <1>5

\* One number of a sum is replaced.
LEMMA SetSumUpdate ==
    ASSUME NEW f, NEW k, NEW S, NEW a, NumbersOn(f, S), DiffersAt(a, f, k, S)
    PROVE  SetSum(k, S) = SetSum(f, S) - f[a] + k[a] /\ SetSum(f, S) \in Int
<1>1. NumbersOn(k, S) /\ AgreesOn(k, f, S \ {a}) /\ a \in S
  BY SmallerWithout DEF NumbersOn, DiffersAt, AgreesOn
<1>2. /\ SetSum(f, S) = f[a] + SetSum(f, S \ {a}) /\ SetSum(f, S \ {a}) \in Int
      /\ SetSum(k, S) = k[a] + SetSum(k, S \ {a})
  BY <1>1, SetSumRemove
<1>3. SetSum(k, S \ {a}) = SetSum(f, S \ {a})
  BY <1>1, SetSumAgree
<1>4. f[a] \in Int /\ k[a] \in Int
  BY <1>1 DEF NumbersOn
<1>. QED
  BY <1>2, <1>3, <1>4

LEMMA SetSumNat ==
    ASSUME NEW S, IsFiniteSet(S), NEW f, \A x \in S : f[x] \in Nat
    PROVE  SetSum(f, S) \in Nat
<1>. DEFINE Bad == {s \in SUBSET S : SetSum(f, s) \notin Nat}
<1>1. SUFFICES ASSUME Bad # {} PROVE FALSE
  OBVIOUS
<1>2. PICK s \in Bad : /\ IsFiniteSet(s)
                       /\ \A t \in SUBSET S : Cardinality(t) < Cardinality(s) => t \notin Bad
  <2>1. Bad \in SUBSET SUBSET S
    OBVIOUS
  <2>. HIDE DEF Bad
  <2>. QED
    BY <1>1, <2>1, SmallestSubset
<1>3. s \in SUBSET S /\ SetSum(f, s) \notin Nat
  OBVIOUS
<1>4. PICK a \in s : TRUE
  BY <1>3, SetSumEmpty
<1>5. s \ {a} \in SUBSET S /\ Cardinality(s \ {a}) < Cardinality(s)
  BY <1>2, <1>3, SmallerWithout
<1>6. SetSum(f, s \ {a}) \in Nat
  <2>1. s \ {a} \notin Bad
    <3>. HIDE DEF Bad
    <3>. QED
      BY <1>2, <1>5
  <2>. QED
    BY <1>5, <2>1
<1>. HIDE DEF Bad
<1>7. f[a] \in Nat /\ NumbersOn(f, s)
  BY <1>2, <1>3 DEF NumbersOn
<1>8. SetSum(f, s) = f[a] + SetSum(f, s \ {a})
  BY <1>7, SetSumRemove
<1>. QED
  BY <1>3, <1>6, <1>7, <1>8

\* A sum of one and the same number.
LEMMA SetSumConstant ==
    ASSUME NEW S, IsFiniteSet(S), NEW f, NEW n \in {0, 1}, \A x \in S : f[x] = n
    PROVE  SetSum(f, S) = n * Cardinality(S)
<1>. DEFINE Bad == {s \in SUBSET S : SetSum(f, s) # n * Cardinality(s)}
<1>1. SUFFICES ASSUME Bad # {} PROVE FALSE
  OBVIOUS
<1>2. PICK s \in Bad : /\ IsFiniteSet(s)
                       /\ \A t \in SUBSET S : Cardinality(t) < Cardinality(s) => t \notin Bad
  <2>1. Bad \in SUBSET SUBSET S
    OBVIOUS
  <2>. HIDE DEF Bad
  <2>. QED
    BY <1>1, <2>1, SmallestSubset
<1>3. s \in SUBSET S /\ SetSum(f, s) # n * Cardinality(s)
  OBVIOUS
<1>4. PICK a \in s : TRUE
  <2>1. n * Cardinality({}) = 0
    BY FS_EmptySet
  <2>. QED
    BY <1>3, <2>1, SetSumEmpty
<1>5. /\ s \ {a} \in SUBSET S /\ Cardinality(s \ {a}) < Cardinality(s)
      /\ Cardinality(s) \in Nat /\ Cardinality(s \ {a}) = Cardinality(s) - 1
  BY <1>2, <1>3, SmallerWithout
<1>6. SetSum(f, s \ {a}) = n * Cardinality(s \ {a})
  <2>1. s \ {a} \notin Bad
    <3>. HIDE DEF Bad
    <3>. QED
      BY <1>2, <1>5
  <2>. QED
    BY <1>5, <2>1
<1>. HIDE DEF Bad
<1>7. f[a] = n /\ NumbersOn(f, s)
  BY <1>2, <1>3 DEF NumbersOn
<1>8. SetSum(f, s) = n + SetSum(f, s \ {a})
  BY <1>7, SetSumRemove
<1>9. CASE n = 0
  BY <1>3, <1>5, <1>6, <1>8, <1>9
<1>10. CASE n = 1
  BY <1>3, <1>5, <1>6, <1>8, <1>10
<1>. QED
  BY <1>9, <1>10
-----------------------------------------------------------------------------
(***************************************************************************)
(* Sums of lists.                                                          *)
(***************************************************************************)

\* There is a function that satisfies the recursion of SumOf, so SumOf does.
LEMMA SumsExist ==
    ASSUME NEW s \in Seq(Nat)
    PROVE  \E f \in [0..Len(s) -> Nat] :
              f = [i \in 0..Len(s) |-> IF i = 0 THEN 0 ELSE f[i - 1] + s[i]]
<1>. DEFINE Sums(n, f) == f = [i \in 0..n |-> IF i = 0 THEN 0 ELSE f[i - 1] + s[i]]
            Bad == {n \in 0..Len(s) : ~ \E f \in [0..n -> Nat] : Sums(n, f)}
<1>. SUFFICES Bad = {}
  OBVIOUS
<1>. SUFFICES ASSUME Bad # {}
              PROVE  FALSE
  OBVIOUS
<1>1. PICK n \in Bad : \A m \in Bad : n <= m
  <2>1. Bad \in SUBSET Nat
    OBVIOUS
  <2>. QED
    BY <2>1, LeastElement, Zenon
<1>2. CASE n = 0
  <2>1. Sums(0, [i \in 0..0 |-> 0])
    OBVIOUS
  <2>. QED
    BY <1>2, <2>1
<1>3. CASE n # 0
  <2>1. n - 1 \in 0..Len(s) /\ n - 1 \notin Bad
    <3>1. n \in 0..Len(s) /\ n - 1 < n
      OBVIOUS
    <3>2. n - 1 \in 0..Len(s)
      BY <1>3, <3>1
    <3>3. n - 1 \notin Bad
      <4>. HIDE DEF Bad
      <4>. QED
        BY <1>1, <3>1, <3>2
    <3>. QED
      BY <3>2, <3>3
  <2>2. PICK f \in [0..(n - 1) -> Nat] : Sums(n - 1, f)
    BY <2>1
  <2>. DEFINE g == [i \in 0..n |-> IF i = n THEN f[n - 1] + s[n] ELSE f[i]]
  <2>3. g \in [0..n -> Nat]
    BY <1>3
  <2>4. Sums(n, g)
    <3>1. \A i \in 0..n : g[i] = IF i = 0 THEN 0 ELSE g[i - 1] + s[i]
      BY <1>3, <2>2
    <3>. QED
      BY <3>1
  <2>. QED
    BY <2>3, <2>4
<1>. QED
  BY <1>2, <1>3

\* What SumOf computes.
LEMMA SumOfDef ==
    ASSUME NEW s \in Seq(Nat)
    PROVE  /\ SumOf(s) \in [0..Len(s) -> Nat]
           /\ SumOf(s)[0] = 0
           /\ \A i \in 1..Len(s) : SumOf(s)[i] = SumOf(s)[i - 1] + s[i]
<1>1. SumOf(s) = [i \in 0..Len(s) |-> IF i = 0 THEN 0 ELSE SumOf(s)[i - 1] + s[i]]
  BY SumsExist, Zenon DEF SumOf
<1>2. PICK f \in [0..Len(s) -> Nat] :
           f = [i \in 0..Len(s) |-> IF i = 0 THEN 0 ELSE f[i - 1] + s[i]]
  BY SumsExist
<1>. DEFINE Bad == {i \in 0..Len(s) : SumOf(s)[i] # f[i]}
<1>3. Bad = {}
  <2>. SUFFICES ASSUME Bad # {}
                PROVE  FALSE
    OBVIOUS
  <2>1. PICK n \in Bad : \A m \in Bad : n <= m
    <3>1. Bad \in SUBSET Nat
      OBVIOUS
    <3>. QED
      BY <3>1, LeastElement, Zenon
  <2>2. n # 0
    BY <1>1, <1>2
  <2>3. SumOf(s)[n - 1] = f[n - 1]
    BY <2>1, <2>2
  <2>. QED
    BY <1>1, <1>2, <2>2, <2>3
<1>4. \A i \in 0..Len(s) : SumOf(s)[i] = f[i]
  BY <1>3
<1>5. SumOf(s) = f
  BY <1>1, <1>2, <1>4
<1>6. \A i \in 0..Len(s) : f[i] = IF i = 0 THEN 0 ELSE f[i - 1] + s[i]
  BY <1>2, Zenon
<1>7. Len(s) \in Nat
  OBVIOUS
<1>8. f[0] = 0
  BY <1>6, <1>7
<1>9. \A i \in 1..Len(s) : f[i] = f[i - 1] + s[i]
  BY <1>6, <1>7
<1>. QED
  BY <1>5, <1>8, <1>9

\* S[n] is the sum of the first n of the L numbers a.
PartialSums(S, a, L) ==
    /\ S \in [0..L -> Nat]
    /\ a \in [1..L -> Nat]
    /\ S[0] = 0
    /\ \A n \in 1..L : S[n] = S[n - 1] + a[n]

\* Sums of natural numbers only grow.
LEMMA PartialSumsGrow ==
    ASSUME NEW L \in Nat, NEW S, NEW a, PartialSums(S, a, L),
           NEW i \in 0..L, NEW j \in i..L
    PROVE  S[i] <= S[j]
<1>. DEFINE Bad == {n \in i..L : S[n] < S[i]}
<1>1. Bad \in SUBSET Nat /\ i \in Nat /\ S[i] \in Nat /\ j \in Nat /\ S[j] \in Nat
  BY DEF PartialSums
<1>2. Bad = {}
  <2>. SUFFICES ASSUME Bad # {}
                PROVE  FALSE
    OBVIOUS
  <2>1. PICK n \in Bad : \A m \in Bad : n <= m
    BY <1>1, LeastElement, Zenon
  <2>2. n \in i..L /\ S[n] < S[i] /\ S[n] \in Nat
    BY DEF PartialSums
  <2>3. n # i /\ n - 1 \in i..L /\ n \in 1..L
    <3>1. n # i
      BY <1>1, <2>2
    <3>. QED
      BY <1>1, <2>2, <3>1
  <2>4. n - 1 \notin Bad
    <3>. HIDE DEF Bad
    <3>. QED
      BY <2>1, <2>2, <2>3
  <2>5. S[i] <= S[n - 1] /\ S[n] = S[n - 1] + a[n] /\ a[n] \in Nat
    BY <1>1, <2>3, <2>4 DEF PartialSums
  <2>6. S[n - 1] \in Nat
    BY <1>1, <2>3 DEF PartialSums
  <2>. QED
    BY <1>1, <2>2, <2>5, <2>6
<1>3. ~ (S[j] < S[i])
  BY <1>2
<1>. QED
  BY <1>1, <1>3

LEMMA SumOfIsPartialSums ==
    ASSUME NEW s \in Seq(Nat)
    PROVE  PartialSums(SumOf(s), s, Len(s)) /\ Len(s) \in Nat
<1>1. s \in [1..Len(s) -> Nat] /\ Len(s) \in Nat
  OBVIOUS
<1>. QED
  BY <1>1, SumOfDef DEF PartialSums

LEMMA SumIsNat ==
    ASSUME NEW s \in Seq(Nat)
    PROVE  Total(s) \in Nat /\ (s = <<>> => Total(s) = 0)
<1>1. PartialSums(SumOf(s), s, Len(s)) /\ Len(s) \in Nat
  BY SumOfIsPartialSums
<1>. QED
  BY <1>1 DEF Total, PartialSums
=============================================================================
