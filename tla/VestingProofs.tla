--------------------------- MODULE VestingProofs ---------------------------
(***************************************************************************)
(* Theorems about the schedule (Vesting), for schedules of any length,     *)
(* requests of any size and any number of withdrawals.  They rest on the   *)
(* sums of the schedule's amounts: SumOf is a recursive function, so that  *)
(* it has a value and what that value is are facts to prove, by the least  *)
(* counterexample (LeastElement) in place of induction.                    *)
(***************************************************************************)
EXTENDS Vesting, SumProofs, SequenceTheorems

(***************************************************************************)
(* Sums.                                                                   *)
(***************************************************************************)

\* The M numbers r are those of a after the first k, the first of them less d.
IsRest(r, a, k, d, M) ==
    \A n \in 1..M : r[n] = IF n = 1 THEN a[k + 1] - d ELSE a[k + n]

\* The sums over the rest are the sums over all, less what went before and d.
LEMMA PartialSumsOfRest ==
    ASSUME NEW L \in Nat, NEW S, NEW a, PartialSums(S, a, L),
           NEW k \in 0..L, NEW d \in Nat,
           NEW R, NEW r, PartialSums(R, r, L - k), IsRest(r, a, k, d, L - k)
    PROVE  \A n \in 1..(L - k) : R[n] = S[k + n] - S[k] - d
<1>. DEFINE Bad == {n \in 1..(L - k) : R[n] # S[k + n] - S[k] - d}
<1>1. Bad \in SUBSET Nat
  OBVIOUS
<1>2. SUFFICES ASSUME Bad # {}
               PROVE  FALSE
  OBVIOUS
<1>3. PICK n \in Bad : \A m \in Bad : n <= m
  BY <1>1, <1>2, LeastElement, Zenon
<1>4. n \in 1..(L - k) /\ R[n] # S[k + n] - S[k] - d
  OBVIOUS
<1>5. n \in Nat /\ k \in Nat /\ k + n \in 1..L /\ (k + n) - 1 = k + (n - 1)
  BY <1>4
<1>6. R[n] = R[n - 1] + r[n] /\ S[k + n] = S[k + (n - 1)] + a[k + n]
  BY <1>4, <1>5 DEF PartialSums
<1>7. S[k] \in Nat /\ S[k + (n - 1)] \in Nat /\ a[k + n] \in Nat /\ r[n] \in Nat
  BY <1>4, <1>5 DEF PartialSums
<1>8. CASE n = 1
  <2>1. R[n] = a[k + 1] - d /\ S[k + n] = S[k] + a[k + 1]
    BY <1>4, <1>6, <1>7, <1>8 DEF PartialSums, IsRest
  <2>. QED
    BY <1>4, <1>7, <1>8, <2>1
<1>9. CASE n # 1
  <2>1. n - 1 \in 1..(L - k)
    BY <1>4, <1>5, <1>9
  <2>2. n - 1 \notin Bad
    <3>. HIDE DEF Bad
    <3>. QED
      BY <1>3, <1>5
  <2>3. R[n - 1] = S[k + (n - 1)] - S[k] - d /\ r[n] = a[k + n]
    BY <1>4, <1>9, <2>1, <2>2 DEF IsRest
  <2>. QED
    <3>1. R[n - 1] \in Int /\ S[k + n] \in Int /\ R[n] \in Int /\ r[n] \in Int /\ a[k + n] \in Int
      BY <1>4, <1>5, <1>6, <1>7, <1>9 DEF PartialSums
    <3>2. R[n] = S[k + (n - 1)] - S[k] - d + a[k + n]
      BY <1>6, <2>3
    <3>. QED
      BY <1>4, <1>6, <1>7, <3>1, <3>2
<1>. QED
  BY <1>8, <1>9

\* A set of positions that has every position before one it has is an initial part.
LEMMA Initial ==
    ASSUME NEW n \in Nat, NEW V \in SUBSET (1..n),
           \A i \in V : \A j \in 1..i : j \in V
    PROVE  \E k \in 0..n : V = 1..k /\ Cardinality(V) = k
<1>. DEFINE Out == (1..(n + 1)) \ V
<1>1. Out \in SUBSET Nat /\ n + 1 \in Out
  OBVIOUS
<1>2. PICK m \in Out : \A x \in Out : m <= x
  BY <1>1, LeastElement, Zenon
<1>3. m \in 1..(n + 1) /\ m \notin V
  OBVIOUS
<1>4. V = 1..(m - 1)
  <2>1. ASSUME NEW x \in V
        PROVE  x \in 1..(m - 1)
    BY <1>3, <2>1
  <2>2. ASSUME NEW x \in 1..(m - 1)
        PROVE  x \in V
    <3>1. x \in 1..(n + 1) /\ x < m
      BY <1>3
    <3>2. x \notin Out
      <4>. HIDE DEF Out
      <4>. QED
        BY <1>1, <1>2, <1>3, <3>1
    <3>. QED
      BY <3>1, <3>2
  <2>. QED
    BY <2>1, <2>2
<1>5. m - 1 \in 0..n
  BY <1>3
<1>6. Cardinality(1..(m - 1)) = m - 1
  BY <1>5, FS_Interval
<1>. QED
  BY <1>4, <1>5, <1>6

-----------------------------------------------------------------------------
(***************************************************************************)
(* What collect_vested leaves.                                             *)
(***************************************************************************)

\* The part of VestingTypeOK that is about the schedule.
ScheduleOK ==
    /\ vesting_timestamps \in Seq(Nat)
    /\ vesting_amounts \in Seq(Nat \ {0})
    /\ Len(vesting_timestamps) = Len(vesting_amounts)
    /\ \A i, j \in DOMAIN vesting_timestamps :
          i < j => vesting_timestamps[i] < vesting_timestamps[j]

\* Less than that, which holds of every contract's lists (Migration).
ListsOK ==
    /\ vesting_timestamps \in Seq(Nat)
    /\ vesting_amounts \in Seq(Nat \ {0})

LEMMA ScheduleIsLists == ScheduleOK => ListsOK
BY DEF ScheduleOK, ListsOK

LEMMA ListsSummed ==
    ASSUME ListsOK
    PROVE  /\ vesting_amounts \in Seq(Nat) /\ Len(vesting_amounts) \in Nat
           /\ Len(vesting_timestamps) \in Nat
           /\ DOMAIN vesting_amounts = 1..Len(vesting_amounts)
           /\ DOMAIN vesting_timestamps = 1..Len(vesting_timestamps)
           /\ PartialSums(SumOf(vesting_amounts), vesting_amounts, Len(vesting_amounts))
<1>1. vesting_amounts \in Seq(Nat) /\ Len(vesting_amounts) \in Nat
  BY DEF ListsOK
<1>2. DOMAIN vesting_amounts = 1..Len(vesting_amounts)
  BY DEF ListsOK
<1>3. DOMAIN vesting_timestamps = 1..Len(vesting_timestamps) /\ Len(vesting_timestamps) \in Nat
  BY DEF ListsOK
<1>. QED
  BY <1>1, <1>2, <1>3, SumOfIsPartialSums

LEMMA AmountsSummed ==
    ASSUME ScheduleOK
    PROVE  /\ vesting_amounts \in Seq(Nat) /\ Len(vesting_amounts) \in Nat
           /\ DOMAIN vesting_amounts = 1..Len(vesting_amounts)
           /\ DOMAIN vesting_timestamps = 1..Len(vesting_amounts)
           /\ PartialSums(SumOf(vesting_amounts), vesting_amounts, Len(vesting_amounts))
<1>1. vesting_amounts \in Seq(Nat) /\ Len(vesting_amounts) \in Nat
  BY DEF ScheduleOK
<1>2. DOMAIN vesting_amounts = 1..Len(vesting_amounts)
  BY DEF ScheduleOK
<1>3. DOMAIN vesting_timestamps = 1..Len(vesting_amounts)
  BY DEF ScheduleOK
<1>. QED
  BY <1>1, <1>2, <1>3, SumOfIsPartialSums

\* The loop of collect_vested reaches the first entries, however many.
LEMMA ListsVisited ==
    ASSUME ListsOK
    PROVE  /\ Cardinality(Visited) \in 0..Len(vesting_amounts)
           /\ Cardinality(Visited) \in 0..Len(vesting_timestamps)
           /\ Visited = 1..Cardinality(Visited)
<1>. DEFINE LA == Len(vesting_amounts)
            LT == Len(vesting_timestamps)
<1>1. /\ Visited \in SUBSET (1..LA) /\ Visited \in SUBSET (1..LT) /\ LA \in Nat /\ LT \in Nat
      /\ DOMAIN vesting_amounts = 1..LA /\ DOMAIN vesting_timestamps = 1..LT
  BY ListsSummed DEF Visited
<1>. HIDE DEF LA, LT
<1>2. \A i \in Visited : \A j \in 1..i : j \in Visited
  <2>. SUFFICES ASSUME NEW i \in Visited, NEW j \in 1..i
                PROVE  j \in Visited
    OBVIOUS
  <2>1. i \in 1..LA /\ i \in 1..LT /\ \A n \in 1..i : vesting_timestamps[n] <= now
    BY <1>1 DEF Visited
  <2>2. j \in 1..LA /\ j \in 1..LT /\ 1..j \subseteq 1..i
    BY <1>1, <2>1
  <2>. QED
    BY <1>1, <2>1, <2>2 DEF Visited
<1>3. PICK k \in 0..LA : Visited = 1..k /\ Cardinality(Visited) = k
  BY <1>1, <1>2, Initial
<1>4. k \in 0..LT
  <2>1. CASE k = 0
    BY <1>1, <2>1
  <2>2. CASE k # 0
    <3>1. k \in 1..k
      BY <1>1, <2>2
    <3>2. k \in 1..LT
      BY <1>1, <1>3, <3>1
    <3>. QED
      BY <1>1, <3>2
  <2>. QED
    BY <2>1, <2>2
<1>. QED
  BY <1>3, <1>4 DEF LA, LT

LEMMA VisitedIsInitial ==
    ASSUME ScheduleOK
    PROVE  /\ Cardinality(Visited) \in 0..Len(vesting_amounts)
           /\ Visited = 1..Cardinality(Visited)
BY ListsVisited, ScheduleIsLists

\* What is used up, and what the first entry left has still given, add to the request.
LEMMA Covered ==
    ASSUME ListsOK, NEW requested \in Nat, CollectSucceeds(requested)
    PROVE  LET used == UsedUp(requested)
               part == AmountToSubtract(requested)
           IN  /\ used \in 0..Cardinality(Visited)
               /\ part \in Nat
               /\ SumOf(vesting_amounts)[used] + part = requested
               /\ part > 0 => /\ used + 1 \in 1..Cardinality(Visited)
                              /\ part < vesting_amounts[used + 1]
<1>. DEFINE S == SumOf(vesting_amounts)
            C == Covering(requested)
            k == Cardinality(Visited)
<1>1. /\ Len(vesting_amounts) \in Nat
      /\ PartialSums(S, vesting_amounts, Len(vesting_amounts))
  BY ListsSummed
<1>2. k \in 0..Len(vesting_amounts) /\ Visited = 1..k
  BY ListsVisited
<1>3. requested <= S[k]
  BY DEF CollectSucceeds
<1>4. C = {i \in 1..k : S[i] >= requested}
  BY <1>2 DEF Covering
<1>5. CASE C = {}
  <2>1. k = 0
    <3>. SUFFICES ASSUME k # 0
                  PROVE  FALSE
      OBVIOUS
    <3>1. k \in 1..k
      BY <1>1, <1>2
    <3>. QED
      BY <1>3, <1>4, <1>5, <3>1
  <2>2. UsedUp(requested) = 0 /\ AmountToSubtract(requested) = 0
    BY <1>5, <2>1 DEF UsedUp, AmountToSubtract
  <2>3. S[0] = 0
    BY <1>1 DEF PartialSums
  <2>4. requested = 0
    BY <1>3, <2>1, <2>3
  <2>. QED
    BY <2>1, <2>2, <2>3, <2>4
<1>6. CASE C # {}
  <2>. DEFINE last == Min(C)
  <2>1. C \in SUBSET Nat
    BY <1>4
  <2>2. last \in C /\ \A i \in C : last <= i
    BY <1>6, <2>1, LeastElement DEF Min
  <2>. HIDE DEF last
  <2>3. last \in 1..k /\ S[last] >= requested
    BY <1>4, <2>2
  <2>4. /\ last \in 1..Len(vesting_amounts) /\ last - 1 \in 0..k
        /\ S[last] \in Nat /\ S[last - 1] \in Nat /\ vesting_amounts[last] \in Nat
        /\ S[last] = S[last - 1] + vesting_amounts[last] /\ S[0] = 0
    <3>1. last \in 1..Len(vesting_amounts) /\ last - 1 \in 0..k
      BY <1>1, <1>2, <2>3
    <3>2. last - 1 \in 0..Len(vesting_amounts)
      BY <1>1, <3>1
    <3>. QED
      BY <1>1, <3>1, <3>2 DEF PartialSums
  <2>5. CASE S[last] = requested
    <3>1. UsedUp(requested) = last /\ AmountToSubtract(requested) = 0
      BY <1>6, <2>5 DEF UsedUp, AmountToSubtract, last
    <3>. QED
      BY <1>2, <2>3, <2>4, <2>5, <3>1
  <2>6. CASE S[last] # requested
    <3>1. /\ UsedUp(requested) = last - 1
          /\ AmountToSubtract(requested) = vesting_amounts[last] + requested - S[last]
      BY <1>6, <2>6 DEF UsedUp, AmountToSubtract, last
    <3>2. S[last - 1] <= requested
      <4>1. CASE last = 1
        BY <2>4, <4>1
      <4>2. CASE last # 1
        <5>1. last - 1 \in 1..k /\ ~ (last <= last - 1)
          BY <1>2, <2>3, <4>2
        <5>2. last - 1 \notin C
          BY <2>2, <5>1
        <5>. QED
          BY <1>4, <2>4, <5>1, <5>2
      <4>. QED
        BY <4>1, <4>2
    <3>3. UsedUp(requested) \in 0..k /\ UsedUp(requested) + 1 = last
      BY <1>2, <2>3, <3>1
    <3>4. /\ AmountToSubtract(requested) \in Nat
          /\ S[last - 1] + AmountToSubtract(requested) = requested
          /\ AmountToSubtract(requested) < vesting_amounts[last]
      BY <2>3, <2>4, <2>6, <3>1, <3>2
    <3>5. S[UsedUp(requested)] + AmountToSubtract(requested) = requested
      BY <3>1, <3>4
    <3>. QED
      BY <2>3, <3>3, <3>4, <3>5
  <2>. QED
    BY <2>5, <2>6
<1>. QED
  BY <1>5, <1>6

\* Two facts about sequences: a function on 1..n is one, and what follows position k.
LEMMA FunctionIsSequence ==
    ASSUME NEW n \in Nat, NEW T, NEW f \in [1..n -> T]
    PROVE  f \in Seq(T) /\ Len(f) = n
<1>1. f \in Seq(T)
  BY SeqDef, Zenon
<1>. QED
  BY <1>1

LEMMA RestOfSequence ==
    ASSUME NEW T, NEW q \in Seq(T), NEW k \in 0..Len(q)
    PROVE  LET r == SubSeq(q, k + 1, Len(q))
           IN  /\ r \in [1..(Len(q) - k) -> T]
               /\ r = <<>> <=> k = Len(q)
               /\ \A n \in 1..(Len(q) - k) : r[n] = q[k + n]
<1>. DEFINE L == Len(q)
            r == SubSeq(q, k + 1, L)
<1>1. L \in Nat /\ k \in Nat /\ k <= L /\ k + 1 \in Int
  OBVIOUS
<1>2. \A i \in (k + 1)..L : q[i] \in T
  BY <1>1
<1>3. /\ r \in Seq(T)
      /\ Len(r) = IF k + 1 <= L THEN L - (k + 1) + 1 ELSE 0
      /\ \A i \in 1..(L - (k + 1) + 1) : r[i] = q[(k + 1) + i - 1]
  <2>. HIDE DEF L
  <2>. QED
    BY <1>1, <1>2, SubSeqProperties
<1>. HIDE DEF r, L
<1>4. Len(r) = L - k
  BY <1>1, <1>3
<1>5. r \in [1..(L - k) -> T]
  BY <1>3, <1>4, LenProperties
<1>6. r = <<>> <=> k = L
  BY <1>1, <1>3, <1>4
<1>7. \A n \in 1..(L - k) : r[n] = q[k + n]
  <2>1. ASSUME NEW n \in 1..(L - k)
        PROVE  n \in 1..(L - (k + 1) + 1) /\ (k + 1) + n - 1 = k + n
    BY <1>1
  <2>. QED
    BY <1>3, <2>1
<1>. QED
  BY <1>5, <1>6, <1>7 DEF r, L

\* The lists a withdrawal leaves, entry by entry.
LEMMA WhatListsKeep ==
    ASSUME ListsOK, NEW requested \in Nat, CollectVested(requested)
    PROVE  LET used == UsedUp(requested)
               part == AmountToSubtract(requested)
               L == Len(vesting_amounts)
               M == Len(vesting_timestamps)
           IN  /\ used \in 0..L /\ used \in 0..M
               /\ vesting_amounts' \in [1..(L - used) -> Nat \ {0}]
               /\ \A n \in 1..(L - used) :
                     vesting_amounts'[n] = IF n = 1 THEN vesting_amounts[used + 1] - part
                                           ELSE vesting_amounts[used + n]
               /\ IF used = L
                  THEN vesting_timestamps' = <<>>
                  ELSE /\ vesting_timestamps' \in [1..(M - used) -> Nat]
                       /\ \A n \in 1..(M - used) :
                             vesting_timestamps'[n] = vesting_timestamps[used + n]
<1>. DEFINE used == UsedUp(requested)
            part == AmountToSubtract(requested)
            L == Len(vesting_amounts)
            M == Len(vesting_timestamps)
            left == SubSeq(vesting_amounts, used + 1, L)
<1>1. /\ vesting_amounts' = [i \in DOMAIN left |-> IF i = 1 THEN left[1] - part ELSE left[i]]
      /\ vesting_timestamps' = IF left = <<>> THEN <<>>
                               ELSE SubSeq(vesting_timestamps, used + 1, Len(vesting_timestamps))
      /\ CollectSucceeds(requested)
  BY DEF CollectVested
<1>2. /\ used \in 0..Cardinality(Visited)
      /\ part \in Nat
      /\ part > 0 => used + 1 \in 1..Cardinality(Visited) /\ part < vesting_amounts[used + 1]
  BY <1>1, Covered
<1>. HIDE DEF used, part
<1>3. used \in 0..L /\ L \in Nat /\ used \in 0..M /\ M \in Nat
  BY <1>2, ListsVisited, ListsSummed
<1>4. /\ left \in [1..(L - used) -> Nat \ {0}]
      /\ left = <<>> <=> used = L
      /\ \A n \in 1..(L - used) : left[n] = vesting_amounts[used + n]
  BY <1>3, RestOfSequence DEF ListsOK
<1>5. \A n \in 1..(L - used) : vesting_amounts[used + n] \in Nat \ {0}
  <2>. SUFFICES ASSUME NEW n \in 1..(L - used)
                PROVE  vesting_amounts[used + n] \in Nat \ {0}
    OBVIOUS
  <2>1. used + n \in 1..L
    BY <1>3
  <2>. QED
    BY <2>1 DEF ListsOK
<1>6. \A n \in 1..(L - used) :
          vesting_amounts'[n] = IF n = 1 THEN vesting_amounts[used + 1] - part
                                ELSE vesting_amounts[used + n]
  BY <1>1, <1>4
<1>7. vesting_amounts' \in [1..(L - used) -> Nat \ {0}]
  <2>1. ASSUME NEW n \in 1..(L - used)
        PROVE  (IF n = 1 THEN left[1] - part ELSE left[n]) \in Nat \ {0}
    <3>1. CASE n = 1
      <4>1. left[1] = vesting_amounts[used + 1] /\ left[1] \in Nat \ {0}
        BY <1>4, <3>1
      <4>2. part < left[1]
        BY <1>2, <4>1
      <4>. QED
        BY <1>2, <3>1, <4>1, <4>2
    <3>2. CASE n # 1
      BY <1>4, <1>5, <3>2
    <3>. QED
      BY <3>1, <3>2
  <2>. QED
    BY <1>1, <1>4, <2>1
<1>8. used = L => vesting_timestamps' = <<>>
  BY <1>1, <1>4
<1>9. ASSUME used # L
      PROVE  /\ vesting_timestamps' \in [1..(M - used) -> Nat]
             /\ \A n \in 1..(M - used) : vesting_timestamps'[n] = vesting_timestamps[used + n]
  <2>1. vesting_timestamps' = SubSeq(vesting_timestamps, used + 1, M)
    BY <1>1, <1>4, <1>9
  <2>2. vesting_timestamps \in Seq(Nat)
    BY DEF ListsOK
  <2>. QED
    BY <1>3, <2>1, <2>2, RestOfSequence
<1>. HIDE DEF left, L, M
<1>. QED
  BY <1>3, <1>6, <1>7, <1>8, <1>9 DEF used, part, L, M

\* The list the schedule is left with, entry by entry.
LEMMA WhatIsLeft ==
    ASSUME ScheduleOK, NEW requested \in Nat, CollectVested(requested)
    PROVE  LET used == UsedUp(requested)
               part == AmountToSubtract(requested)
               L == Len(vesting_amounts)
           IN  /\ vesting_amounts' \in [1..(L - used) -> Nat \ {0}]
               /\ vesting_timestamps' \in [1..(L - used) -> Nat]
               /\ \A n \in 1..(L - used) :
                     /\ vesting_amounts'[n] = IF n = 1 THEN vesting_amounts[used + 1] - part
                                              ELSE vesting_amounts[used + n]
                     /\ vesting_timestamps'[n] = vesting_timestamps[used + n]
<1>. DEFINE used == UsedUp(requested)
            part == AmountToSubtract(requested)
            L == Len(vesting_amounts)
            M == Len(vesting_timestamps)
<1>1. M = L /\ L \in Nat
  BY DEF ScheduleOK
<1>2. /\ used \in 0..L
      /\ vesting_amounts' \in [1..(L - used) -> Nat \ {0}]
      /\ \A n \in 1..(L - used) :
            vesting_amounts'[n] = IF n = 1 THEN vesting_amounts[used + 1] - part
                                  ELSE vesting_amounts[used + n]
      /\ IF used = L
         THEN vesting_timestamps' = <<>>
         ELSE /\ vesting_timestamps' \in [1..(M - used) -> Nat]
              /\ \A n \in 1..(M - used) : vesting_timestamps'[n] = vesting_timestamps[used + n]
  BY WhatListsKeep, ScheduleIsLists
<1>. HIDE DEF used, part, L, M
<1>3. used = L => 1..(L - used) = {}
  BY <1>1
<1>4. /\ vesting_timestamps' \in [1..(L - used) -> Nat]
      /\ \A n \in 1..(L - used) : vesting_timestamps'[n] = vesting_timestamps[used + n]
  BY <1>1, <1>2, <1>3
<1>. QED
  BY <1>2, <1>4 DEF used, part, L

\* It is a schedule again.
LEMMA CollectKeepsSchedule ==
    ASSUME ScheduleOK, NEW requested \in Nat, CollectVested(requested)
    PROVE  ScheduleOK'
<1>. DEFINE used == UsedUp(requested)
            L == Len(vesting_amounts)
<1>1. /\ vesting_amounts' \in [1..(L - used) -> Nat \ {0}]
      /\ vesting_timestamps' \in [1..(L - used) -> Nat]
      /\ \A n \in 1..(L - used) : vesting_timestamps'[n] = vesting_timestamps[used + n]
  BY WhatIsLeft
<1>2. used \in 0..L /\ L \in Nat /\ Len(vesting_timestamps) = L
  <2>1. CollectSucceeds(requested)
    BY DEF CollectVested
  <2>. QED
    BY <2>1, Covered, VisitedIsInitial, AmountsSummed, ScheduleIsLists DEF ScheduleOK
<1>. HIDE DEF used
<1>3. /\ vesting_amounts' \in Seq(Nat \ {0}) /\ vesting_timestamps' \in Seq(Nat)
      /\ Len(vesting_amounts') = L - used /\ Len(vesting_timestamps') = L - used
  <2>1. L - used \in Nat
    BY <1>2
  <2>2. vesting_amounts' \in Seq(Nat \ {0}) /\ Len(vesting_amounts') = L - used
    BY <1>1, <2>1, FunctionIsSequence, Zenon
  <2>3. vesting_timestamps' \in Seq(Nat) /\ Len(vesting_timestamps') = L - used
    BY <1>1, <2>1, FunctionIsSequence, Zenon
  <2>. QED
    BY <2>2, <2>3
<1>4. ASSUME NEW i \in DOMAIN vesting_timestamps', NEW j \in DOMAIN vesting_timestamps', i < j
      PROVE  vesting_timestamps'[i] < vesting_timestamps'[j]
  <2>1. i \in 1..(L - used) /\ j \in 1..(L - used)
    BY <1>1
  <2>2. /\ vesting_timestamps'[i] = vesting_timestamps[used + i]
        /\ vesting_timestamps'[j] = vesting_timestamps[used + j]
    BY <1>1, <2>1
  <2>3. used + i \in 1..L /\ used + j \in 1..L /\ used + i < used + j
    BY <1>2, <1>4, <2>1
  <2>4. DOMAIN vesting_timestamps = 1..L
    BY AmountsSummed
  <2>. QED
    BY <2>2, <2>3, <2>4 DEF ScheduleOK
<1>. QED
  BY <1>3, <1>4 DEF ScheduleOK

\* The sums over what is left, from those over what was there.
LEMMA CollectShiftsSums ==
    ASSUME ListsOK, NEW requested \in Nat, CollectVested(requested)
    PROVE  LET used == UsedUp(requested)
               L == Len(vesting_amounts)
           IN  /\ used \in 0..Cardinality(Visited)
               /\ Len(vesting_amounts') = L - used
               /\ \A n \in 0..(L - used) :
                     n > 0 \/ used = Cardinality(Visited) =>
                        SumOf(vesting_amounts')[n] = SumOf(vesting_amounts)[used + n] - requested
<1>. DEFINE used == UsedUp(requested)
            part == AmountToSubtract(requested)
            L == Len(vesting_amounts)
            S == SumOf(vesting_amounts)
            R == SumOf(vesting_amounts')
<1>1. /\ used \in 0..Cardinality(Visited)
      /\ part \in Nat
      /\ S[used] + part = requested
      /\ part > 0 => used + 1 \in 1..Cardinality(Visited)
  BY Covered DEF CollectVested
<1>2. used \in 0..L /\ L \in Nat /\ Cardinality(Visited) \in Nat
  BY <1>1, ListsVisited, ListsSummed
<1>3. /\ vesting_amounts' \in [1..(L - used) -> Nat \ {0}]
      /\ \A n \in 1..(L - used) :
            vesting_amounts'[n] = IF n = 1 THEN vesting_amounts[used + 1] - part
                                  ELSE vesting_amounts[used + n]
  BY WhatListsKeep
<1>. HIDE DEF used, part
<1>4. PartialSums(S, vesting_amounts, L)
  BY ListsSummed
<1>5. PartialSums(R, vesting_amounts', L - used) /\ Len(vesting_amounts') = L - used
  <2>1. L - used \in Nat /\ vesting_amounts' \in [1..(L - used) -> Nat]
    BY <1>2, <1>3
  <2>2. vesting_amounts' \in Seq(Nat) /\ Len(vesting_amounts') = L - used
    BY <2>1, FunctionIsSequence, Zenon
  <2>. QED
    BY <2>2, SumOfIsPartialSums
<1>. HIDE DEF S, R, L
<1>6. \A n \in 1..(L - used) : R[n] = S[used + n] - S[used] - part
  <2>1. IsRest(vesting_amounts', vesting_amounts, used, part, L - used)
    BY <1>3 DEF IsRest
  <2>2. L \in Nat /\ used \in 0..L /\ part \in Nat
    BY <1>1, <1>2
  <2>3. PartialSums(R, vesting_amounts', L - used)
    BY <1>5
  <2>. QED
    BY <1>4, <2>1, <2>2, <2>3, PartialSumsOfRest
<1>7. /\ S[used] \in Nat /\ R[0] = 0
      /\ \A n \in 0..(L - used) : S[used + n] \in Nat
  BY <1>2, <1>4, <1>5 DEF PartialSums
<1>8. ASSUME NEW n \in 0..(L - used), n > 0 \/ used = Cardinality(Visited)
      PROVE  R[n] = S[used + n] - requested
  <2>1. CASE n = 0
    <3>1. part = 0
      BY <1>1, <1>2, <1>8, <2>1
    <3>. QED
      BY <1>1, <1>2, <1>7, <2>1, <3>1
  <2>2. CASE n # 0
    <3>1. n \in 1..(L - used)
      BY <1>2, <2>2
    <3>. QED
      BY <1>1, <1>6, <1>7, <3>1
  <2>. QED
    BY <2>1, <2>2
<1>. QED
  BY <1>1, <1>5, <1>8 DEF used, L, S, R

\* What is requested is what the schedule loses.
LEMMA CollectTakesRequested ==
    ASSUME ListsOK, NEW requested \in Nat, CollectVested(requested)
    PROVE  Total(vesting_amounts') = Total(vesting_amounts) - requested
<1>. DEFINE used == UsedUp(requested)
            L == Len(vesting_amounts)
<1>1. /\ used \in 0..Cardinality(Visited)
      /\ Len(vesting_amounts') = L - used
      /\ \A n \in 0..(L - used) :
            n > 0 \/ used = Cardinality(Visited) =>
               SumOf(vesting_amounts')[n] = SumOf(vesting_amounts)[used + n] - requested
  BY CollectShiftsSums
<1>2. Cardinality(Visited) \in 0..L /\ L \in Nat
  BY ListsVisited, ListsSummed
<1>. HIDE DEF used, L
<1>3. /\ L - used \in 0..(L - used) /\ used + (L - used) = L
      /\ L - used > 0 \/ used = Cardinality(Visited)
  BY <1>1, <1>2
<1>4. SumOf(vesting_amounts')[L - used] = SumOf(vesting_amounts)[L] - requested
  BY <1>1, <1>3
<1>. QED
  BY <1>1, <1>4 DEF Total, L
-----------------------------------------------------------------------------
(***************************************************************************)
(* The books.  BooksOK is inductive: Conservation is not on its own, since *)
(* what a withdrawal takes from the sum depends on the shape of the lists. *)
(***************************************************************************)

BooksOK == VestingTypeOK /\ Conservation

LEMMA BooksInit ==
    ASSUME VestingInit
    PROVE  BooksOK
<1>. USE DEF VestingInit, BooksOK
<1>1. PICK s \in Schedules :
        /\ vesting_timestamps = s[1]
        /\ vesting_amounts = s[2]
        /\ now \in 0..s[1][1]
        /\ now <= MaxTime
        /\ total_amount = Total(s[2])
        /\ withdrawn_unlocked = 0
        /\ withdrawn_locked = 0
  OBVIOUS
<1>2. ScheduleOK /\ s[1][1] \in Nat
  BY <1>1, VestingAssumption DEF ScheduleOK
<1>3. Total(vesting_amounts) \in Nat
  BY <1>2, AmountsSummed, SumIsNat
<1>4. now \in 0..MaxTime
  BY <1>1, <1>2, VestingAssumption
<1>. QED
  BY <1>1, <1>2, <1>3, <1>4 DEF VestingTypeOK, Conservation, ScheduleOK

LEMMA WithdrawKeepsBooks ==
    ASSUME BooksOK, NEW requested \in Requests, WithdrawUnlocked(requested), UNCHANGED now
    PROVE  BooksOK'
<1>1. ScheduleOK /\ requested \in Nat /\ CollectVested(requested)
  BY VestingAssumption DEF BooksOK, VestingTypeOK, ScheduleOK, WithdrawUnlocked
<1>2. ScheduleOK'
  BY <1>1, CollectKeepsSchedule
<1>3. Total(vesting_amounts') = Total(vesting_amounts) - requested
  BY <1>1, CollectTakesRequested, ScheduleIsLists
<1>4. Total(vesting_amounts) \in Nat
  BY <1>1, AmountsSummed, SumIsNat
<1>5. /\ withdrawn_unlocked' = withdrawn_unlocked + requested
      /\ total_amount' = total_amount /\ withdrawn_locked' = withdrawn_locked
  BY DEF WithdrawUnlocked
<1>6. VestingTypeOK'
  BY <1>1, <1>2, <1>5 DEF BooksOK, VestingTypeOK, ScheduleOK
<1>7. Conservation'
  BY <1>1, <1>3, <1>4, <1>5 DEF BooksOK, VestingTypeOK, Conservation
<1>. QED
  BY <1>6, <1>7 DEF BooksOK

LEMMA EmergencyKeepsBooks ==
    ASSUME BooksOK, WithdrawLocked, UNCHANGED now
    PROVE  BooksOK'
<1>1. vesting_amounts' = <<>> /\ vesting_timestamps' = <<>>
  BY DEF WithdrawLocked
<1>2. Total(vesting_amounts) \in Nat /\ Total(vesting_amounts') = 0
  <2>1. vesting_amounts' \in Seq(Nat) /\ vesting_amounts \in Seq(Nat)
    BY <1>1 DEF BooksOK, VestingTypeOK
  <2>. QED
    BY <1>1, <2>1, SumIsNat
<1>3. ScheduleOK'
  BY <1>1 DEF ScheduleOK
<1>. QED
  BY <1>2, <1>3 DEF BooksOK, VestingTypeOK, Conservation, ScheduleOK, WithdrawLocked

LEMMA TickKeepsBooks ==
    ASSUME BooksOK, now' \in 0..MaxTime, UNCHANGED books
    PROVE  BooksOK'
  BY DEF BooksOK, VestingTypeOK, Conservation, books

LEMMA BooksStep == BooksOK /\ [VestingNext]_vestingVars => BooksOK'
<1>. SUFFICES ASSUME BooksOK, [VestingNext]_vestingVars
              PROVE  BooksOK'
  OBVIOUS
<1>1. ASSUME NEW requested \in Requests, WithdrawUnlocked(requested), UNCHANGED now
      PROVE  BooksOK'
  BY <1>1, WithdrawKeepsBooks
<1>2. CASE WithdrawLocked /\ UNCHANGED now
  BY <1>2, EmergencyKeepsBooks
<1>3. CASE Tick /\ UNCHANGED books
  <2>1. now' \in 0..MaxTime
    BY <1>3, VestingAssumption DEF Tick, BooksOK, VestingTypeOK
  <2>. QED
    BY <1>3, <2>1, TickKeepsBooks
<1>4. CASE UNCHANGED vestingVars
  <2>1. UNCHANGED books /\ now' \in 0..MaxTime
    BY <1>4 DEF vestingVars, BooksOK, VestingTypeOK
  <2>. QED
    BY <2>1, TickKeepsBooks
<1>. QED
  BY <1>1, <1>2, <1>3, <1>4 DEF VestingNext

\* The schedule is always one that instantiate could have accepted: two lists of one
\* length, times increasing, no entry of nothing, however withdrawals cut into it.
THEOREM VestingIsTyped == VestingSpec => []VestingTypeOK
<1>1. VestingInit => BooksOK
  BY BooksInit
<1>2. BooksOK => VestingTypeOK
  BY DEF BooksOK
<1>. QED
  BY <1>1, <1>2, BooksStep, PTL DEF VestingSpec

\* Every coin of the plan is withdrawn as vested, withdrawn by emergency or still in the
\* schedule, never two of these: for every schedule and every sequence of withdrawals.
THEOREM CoinsAreConserved == VestingSpec => []Conservation
<1>1. VestingInit => BooksOK
  BY BooksInit
<1>2. BooksOK => Conservation
  BY DEF BooksOK
<1>. QED
  BY <1>1, <1>2, BooksStep, PTL DEF VestingSpec
-----------------------------------------------------------------------------
(***************************************************************************)
(* What TotalVested answers.                                               *)
(***************************************************************************)

LEMMA TotalIsSumOfVisited ==
    ScheduleOK => TotalVestedAmount = SumOf(vesting_amounts)[Cardinality(Visited)]
<1>. SUFFICES ASSUME ScheduleOK
              PROVE  TotalVestedAmount = SumOf(vesting_amounts)[Cardinality(Visited)]
  OBVIOUS
<1>1. DOMAIN vesting_amounts \cap DOMAIN vesting_timestamps = DOMAIN vesting_timestamps
  BY AmountsSummed
<1>. QED
  BY <1>1, Zenon DEF TotalVestedAmount, Visited

\* TotalVested and collect_vested, two loops over the schedule, agree on what has vested.
THEOREM ListedAmountIsWithdrawable == VestingSpec => []ListedIsWithdrawable
<1>1. VestingInit => BooksOK
  BY BooksInit
<1>2. BooksOK => ListedIsWithdrawable
  BY TotalIsSumOfVisited
     DEF BooksOK, VestingTypeOK, ScheduleOK, ListedIsWithdrawable, CollectSucceeds
<1>. QED
  BY <1>1, <1>2, BooksStep, PTL DEF VestingSpec

VisitedIsPrefix ==
    /\ Cardinality(Visited) \in 0..Len(vesting_amounts)
    /\ Visited = 1..Cardinality(Visited)
    /\ TotalVestedAmount = SumOf(vesting_amounts)[Cardinality(Visited)]
    /\ PartialSums(SumOf(vesting_amounts), vesting_amounts, Len(vesting_amounts))
    /\ Len(vesting_amounts) \in Nat

LEMMA VisitedPrefix == ScheduleOK => VisitedIsPrefix
  BY VisitedIsInitial, TotalIsSumOfVisited, AmountsSummed DEF VisitedIsPrefix

LEMMA VisitedPrefixNext == ScheduleOK' => VisitedIsPrefix'
  BY VisitedPrefix, PTL

\* What was reached of the entries left is reached again, one after the other.
LEMMA CollectShiftsVisited ==
    ASSUME ScheduleOK, NEW requested \in Nat, CollectVested(requested), now' = now
    PROVE  Cardinality(Visited') = Cardinality(Visited) - UsedUp(requested)
<1>. DEFINE used == UsedUp(requested)
            L == Len(vesting_amounts)
            k == Cardinality(Visited)
<1>1. used \in 0..k /\ L \in Nat /\ k \in 0..L /\ Visited = 1..k
  BY Covered, VisitedIsInitial, AmountsSummed, ScheduleIsLists DEF CollectVested
<1>2. /\ vesting_amounts' \in [1..(L - used) -> Nat \ {0}]
      /\ vesting_timestamps' \in [1..(L - used) -> Nat]
      /\ \A n \in 1..(L - used) : vesting_timestamps'[n] = vesting_timestamps[used + n]
  BY WhatIsLeft
<1>3. Visited = {i \in 1..L : \A j \in 1..i : vesting_timestamps[j] <= now}
  BY AmountsSummed DEF Visited
<1>4. Visited' = {i \in 1..(L - used) : \A j \in 1..i : vesting_timestamps'[j] <= now}
  <2>1. DOMAIN vesting_amounts' = 1..(L - used) /\ DOMAIN vesting_timestamps' = 1..(L - used)
    BY <1>2
  <2>. QED
    BY <2>1, Zenon DEF Visited
<1>. HIDE DEF used, L, k
<1>5. ASSUME NEW i \in 1..(k - used)
      PROVE  i \in Visited'
  <2>1. i \in 1..(L - used)
    BY <1>1
  <2>2. ASSUME NEW j \in 1..i
        PROVE  vesting_timestamps'[j] <= now
    <3>1. j \in 1..(L - used) /\ used + j \in 1..k /\ used + j \in 1..(used + j)
      BY <1>1, <1>5
    <3>2. used + j \in Visited
      BY <1>1, <3>1
    <3>. QED
      BY <1>2, <1>3, <3>1, <3>2
  <2>. QED
    BY <1>4, <2>1, <2>2
<1>6. ASSUME NEW i \in Visited'
      PROVE  i \in 1..(k - used)
  <2>1. i \in 1..(L - used) /\ \A j \in 1..i : vesting_timestamps'[j] <= now
    BY <1>4
  <2>2. used + i \in 1..L
    BY <1>1, <2>1
  <2>3. ASSUME NEW j \in 1..(used + i)
        PROVE  vesting_timestamps[j] <= now
    <3>1. CASE j <= used
      <4>1. j \in Visited /\ j \in 1..j
        BY <1>1, <3>1
      <4>. QED
        BY <1>3, <4>1
    <3>2. CASE ~ (j <= used)
      <4>1. j - used \in 1..i /\ j - used \in 1..(L - used) /\ used + (j - used) = j
        BY <1>1, <2>1, <3>2
      <4>. QED
        BY <1>2, <2>1, <4>1
    <3>. QED
      BY <3>1, <3>2
  <2>4. used + i \in Visited
    BY <1>3, <2>2, <2>3
  <2>. QED
    BY <1>1, <2>1, <2>4
<1>7. Visited' = 1..(k - used)
  BY <1>5, <1>6
<1>8. Cardinality(1..(k - used)) = k - used
  BY <1>1, FS_Interval
<1>. QED
  BY <1>7, <1>8 DEF k, used

\* A withdrawal lowers the answer of TotalVested by the amount withdrawn.
LEMMA CollectQuote ==
    ASSUME ScheduleOK, NEW requested \in Nat, CollectVested(requested), now' = now
    PROVE  TotalVestedAmount' = TotalVestedAmount - requested
<1>. DEFINE used == UsedUp(requested)
            L == Len(vesting_amounts)
            k == Cardinality(Visited)
<1>1. /\ used \in 0..k
      /\ \A n \in 0..(L - used) :
            n > 0 \/ used = k =>
               SumOf(vesting_amounts')[n] = SumOf(vesting_amounts)[used + n] - requested
  BY CollectShiftsSums, ScheduleIsLists
<1>2. L \in Nat /\ k \in 0..L /\ TotalVestedAmount = SumOf(vesting_amounts)[k]
  BY VisitedPrefix DEF VisitedIsPrefix
<1>3. Cardinality(Visited') = k - used
  BY CollectShiftsVisited
<1>4. TotalVestedAmount' = SumOf(vesting_amounts')[k - used]
  BY <1>3, CollectKeepsSchedule, VisitedPrefixNext DEF VisitedIsPrefix
<1>. HIDE DEF used, L, k
<1>5. /\ k - used \in 0..(L - used) /\ used + (k - used) = k
      /\ k - used > 0 \/ used = k
  BY <1>1, <1>2
<1>. QED
  BY <1>1, <1>2, <1>4, <1>5

\* While the books stand still, time only adds to what has vested.
LEMMA TimeAddsToQuote ==
    ASSUME ScheduleOK, now \in Nat, now' \in Nat, now' >= now, UNCHANGED books
    PROVE  TotalVestedAmount' >= TotalVestedAmount
<1>1. UNCHANGED <<vesting_timestamps, vesting_amounts>>
  BY DEF books
<1>. DEFINE L == Len(vesting_amounts)
            k == Cardinality(Visited)
            kk == Cardinality(Visited')
<1>2. /\ L \in Nat /\ k \in 0..L /\ Visited = 1..k
      /\ PartialSums(SumOf(vesting_amounts), vesting_amounts, L)
      /\ TotalVestedAmount = SumOf(vesting_amounts)[k]
  BY VisitedPrefix DEF VisitedIsPrefix
<1>3. kk \in 0..L /\ Visited' = 1..kk /\ TotalVestedAmount' = SumOf(vesting_amounts)[kk]
  <2>1. ScheduleOK'
    BY <1>1 DEF ScheduleOK
  <2>. QED
    BY <1>1, <2>1, VisitedPrefixNext DEF VisitedIsPrefix
<1>4. Visited \subseteq Visited'
  <2>. SUFFICES ASSUME NEW i \in Visited
                PROVE  i \in Visited'
    OBVIOUS
  <2>1. /\ i \in DOMAIN vesting_amounts \cap DOMAIN vesting_timestamps
        /\ \A j \in 1..i : vesting_timestamps[j] <= now
    BY Zenon DEF Visited
  <2>2. i \in 1..L /\ DOMAIN vesting_timestamps = 1..L /\ L \in Nat
    BY <2>1, AmountsSummed, Zenon
  <2>3. \A j \in 1..i : vesting_timestamps[j] \in Nat
    <3>1. vesting_timestamps \in [1..L -> Nat]
      BY <2>2 DEF ScheduleOK
    <3>. QED
      BY <2>2, <3>1
  <2>4. \A j \in 1..i : vesting_timestamps'[j] <= now'
    BY <1>1, <2>1, <2>3
  <2>. QED
    BY <1>1, <2>1, <2>4, Zenon DEF Visited
<1>. HIDE DEF L, k, kk
<1>5. k <= kk
  BY <1>2, <1>3, <1>4
<1>6. kk \in k..L
  BY <1>2, <1>3, <1>5
<1>7. SumOf(vesting_amounts)[k] <= SumOf(vesting_amounts)[kk]
  BY <1>2, <1>6, PartialSumsGrow
<1>8. SumOf(vesting_amounts)[k] \in Nat /\ SumOf(vesting_amounts)[kk] \in Nat
  BY <1>2, <1>3 DEF PartialSums
<1>. QED
  BY <1>2, <1>3, <1>7, <1>8

LEMMA QuoteIsNat ==
    ASSUME ScheduleOK
    PROVE  /\ TotalVestedAmount \in Nat
           /\ Total(vesting_amounts) \in Nat
           /\ TotalVestedAmount <= Total(vesting_amounts)
<1>. DEFINE L == Len(vesting_amounts)
            k == Cardinality(Visited)
<1>1. /\ L \in Nat /\ k \in 0..L /\ TotalVestedAmount = SumOf(vesting_amounts)[k]
      /\ PartialSums(SumOf(vesting_amounts), vesting_amounts, L)
  BY VisitedPrefix DEF VisitedIsPrefix
<1>. HIDE DEF k, L
<1>2. L \in k..L /\ L \in 0..L
  BY <1>1
<1>3. SumOf(vesting_amounts)[k] <= SumOf(vesting_amounts)[L]
  BY <1>1, <1>2, PartialSumsGrow
<1>4. SumOf(vesting_amounts)[k] \in Nat /\ SumOf(vesting_amounts)[L] \in Nat
  BY <1>1, <1>2 DEF PartialSums
<1>. QED
  BY <1>1, <1>3, <1>4 DEF Total, L

LEMMA QuoteIsNatNext ==
    ASSUME ScheduleOK'
    PROVE  TotalVestedAmount' \in Nat
  BY VisitedPrefixNext DEF VisitedIsPrefix, PartialSums

LEMMA QuoteSteps == BooksOK /\ BooksOK' /\ [VestingNext]_vestingVars => [QuoteStep]_vestingVars
<1>. SUFFICES ASSUME BooksOK, BooksOK', [VestingNext]_vestingVars
              PROVE  QuoteStep
  OBVIOUS
<1>1. /\ ScheduleOK /\ ScheduleOK'
      /\ now \in Nat /\ withdrawn_unlocked \in Nat /\ withdrawn_locked \in Nat
  BY VestingAssumption DEF BooksOK, VestingTypeOK, ScheduleOK
<1>2. TotalVestedAmount \in Nat /\ TotalVestedAmount' \in Nat
  BY <1>1, QuoteIsNat, QuoteIsNatNext
<1>3. ASSUME NEW requested \in Requests, WithdrawUnlocked(requested), UNCHANGED now
      PROVE  QuoteStep
  <2>1. requested \in Nat /\ CollectVested(requested)
    BY <1>3, VestingAssumption DEF WithdrawUnlocked
  <2>2. TotalVestedAmount' = TotalVestedAmount - requested
    BY <1>1, <1>3, <2>1, CollectQuote
  <2>3. withdrawn_unlocked' - withdrawn_unlocked = requested
    BY <1>1, <1>3, <2>1 DEF WithdrawUnlocked
  <2>. QED
    BY <1>2, <2>1, <2>2, <2>3 DEF QuoteStep
<1>4. CASE WithdrawLocked /\ UNCHANGED now
  <2>1. SUFFICES ASSUME withdrawn_locked' = withdrawn_locked
                 PROVE  TotalVestedAmount' = TotalVestedAmount
                        /\ withdrawn_unlocked' - withdrawn_unlocked = 0
    BY <1>2 DEF QuoteStep
  <2>2. /\ withdrawn_locked' = withdrawn_locked + Total(vesting_amounts)
        /\ withdrawn_unlocked' = withdrawn_unlocked
        /\ vesting_amounts' = <<>> /\ vesting_timestamps' = <<>>
    BY <1>4 DEF WithdrawLocked
  <2>3. TotalVestedAmount = 0
    BY <1>1, <2>1, <2>2, QuoteIsNat
  <2>4. TotalVestedAmount' = 0
    <3>1. /\ Cardinality(Visited') \in 0..Len(vesting_amounts')
          /\ TotalVestedAmount' = SumOf(vesting_amounts')[Cardinality(Visited')]
          /\ PartialSums(SumOf(vesting_amounts'), vesting_amounts', Len(vesting_amounts'))
      BY <1>1, VisitedPrefixNext DEF VisitedIsPrefix
    <3>2. Len(vesting_amounts') = 0
      BY <2>2
    <3>. QED
      BY <3>1, <3>2 DEF PartialSums
  <2>. QED
    BY <1>1, <2>2, <2>3, <2>4
<1>5. CASE UNCHANGED books /\ now' \in Nat /\ now' >= now
  <2>1. TotalVestedAmount' >= TotalVestedAmount
    BY <1>1, <1>5, TimeAddsToQuote
  <2>2. withdrawn_unlocked' - withdrawn_unlocked = 0
    BY <1>1, <1>5 DEF books
  <2>3. ASSUME now' = now
        PROVE  TotalVestedAmount' = TotalVestedAmount
    <3>1. UNCHANGED <<vesting_timestamps, vesting_amounts, now>>
      BY <1>5, <2>3 DEF books
    <3>. QED
      BY <3>1 DEF TotalVestedAmount
  <2>. QED
    BY <1>2, <2>1, <2>2, <2>3 DEF QuoteStep
<1>6. CASE Tick /\ UNCHANGED books
  BY <1>1, <1>5, <1>6 DEF Tick
<1>7. CASE UNCHANGED vestingVars
  BY <1>1, <1>5, <1>7 DEF vestingVars
<1>. QED
  BY <1>3, <1>4, <1>6, <1>7 DEF VestingNext

\* An amount TotalVested has quoted remains available, less what others withdraw, until
\* an emergency withdrawal: for every schedule, every pace of blocks, every request.
THEOREM QuotesStayGood == VestingSpec => QuoteStaysGood
<1>1. VestingInit => BooksOK
  BY BooksInit
<1>. QED
  BY <1>1, BooksStep, QuoteSteps, PTL DEF VestingSpec, QuoteStaysGood
-----------------------------------------------------------------------------
(***************************************************************************)
(* Coin by coin.                                                           *)
(***************************************************************************)

\* The entry of coin c.
Entry(amounts, c) == Min({i \in DOMAIN amounts : c <= SumOf(amounts)[i]})

\* Coin c is one of entry i.
IsOf(amounts, c, i) == SumOf(amounts)[i - 1] < c /\ c <= SumOf(amounts)[i]

LEMMA EntryOfCoin ==
    ASSUME NEW amounts \in Seq(Nat), NEW c \in 1..Total(amounts)
    PROVE  /\ Entry(amounts, c) \in 1..Len(amounts)
           /\ IsOf(amounts, c, Entry(amounts, c))
           /\ \A i \in 1..Len(amounts) : c <= SumOf(amounts)[i] => Entry(amounts, c) <= i
<1>. DEFINE S == SumOf(amounts)
            L == Len(amounts)
            C == {i \in 1..L : c <= S[i]}
            e == Min(C)
<1>1. L \in Nat /\ PartialSums(S, amounts, L) /\ DOMAIN amounts = 1..L
  BY SumOfIsPartialSums
<1>2. Total(amounts) = S[L]
  BY Zenon DEF Total
<1>. HIDE DEF S, L
<1>3. S \in [0..L -> Nat] /\ S[0] = 0
  BY <1>1 DEF PartialSums
<1>4. c \in Nat /\ 0 < c /\ c <= S[L]
  BY <1>1, <1>2, <1>3
<1>5. L \in C
  <2>1. L # 0
    BY <1>3, <1>4
  <2>. QED
    BY <1>1, <1>4, <2>1
<1>6. e \in C /\ \A i \in C : e <= i
  <2>1. C \in SUBSET Nat /\ C # {}
    BY <1>1, <1>5
  <2>. HIDE DEF C
  <2>. QED
    BY <2>1, LeastElement DEF Min
<1>7. Entry(amounts, c) = e
  BY <1>1, Zenon DEF Entry, S
<1>. HIDE DEF e
<1>8. e \in 1..L /\ c <= S[e]
  BY <1>6
<1>9. S[e - 1] < c
  <2>1. CASE e = 1
    BY <1>3, <1>4, <2>1
  <2>2. CASE e # 1
    <3>1. e - 1 \in 1..L /\ ~ (e <= e - 1) /\ S[e - 1] \in Nat
      BY <1>1, <1>3, <1>8, <2>2
    <3>2. e - 1 \notin C
      <4>. HIDE DEF C
      <4>. QED
        BY <1>6, <3>1
    <3>. QED
      BY <1>4, <3>1, <3>2
  <2>. QED
    BY <2>1, <2>2
<1>10. \A i \in 1..L : c <= S[i] => e <= i
  BY <1>6
<1>. QED
  BY <1>7, <1>8, <1>9, <1>10 DEF IsOf, S, L

\* A coin is of one entry only.
LEMMA OneEntry ==
    ASSUME NEW amounts \in Seq(Nat), NEW c \in 1..Total(amounts), NEW i \in 1..Len(amounts),
           IsOf(amounts, c, i)
    PROVE  Entry(amounts, c) = i
<1>. DEFINE S == SumOf(amounts)
            L == Len(amounts)
            e == Entry(amounts, c)
<1>1. e \in 1..L /\ e <= i /\ c <= S[e]
  BY EntryOfCoin DEF IsOf
<1>2. S[i - 1] < c
  BY DEF IsOf
<1>3. L \in Nat /\ PartialSums(S, amounts, L)
  BY SumOfIsPartialSums
<1>. HIDE DEF S, e
<1>4. ASSUME e # i
      PROVE  FALSE
  <2>1. e \in 0..L /\ i - 1 \in e..L
    BY <1>1, <1>3, <1>4
  <2>2. S[e] <= S[i - 1]
    BY <1>3, <2>1, PartialSumsGrow
  <2>3. S[e] \in Nat /\ S[i - 1] \in Nat /\ c \in Int
    <3>1. i - 1 \in 0..L
      BY <1>3
    <3>2. c \in Int
      OBVIOUS
    <3>. QED
      BY <1>3, <2>1, <3>1, <3>2 DEF PartialSums
  <2>. QED
    BY <1>1, <1>2, <2>2, <2>3
<1>. QED
  BY <1>4 DEF e

LEMMA CoinsAre ==
    ASSUME NEW timestamps, NEW amounts
    PROVE  Coins(timestamps, amounts) =
               [c \in 1..Total(amounts) |-> timestamps[Entry(amounts, c)]]
BY Zenon DEF Coins, Entry

LEMMA CoinsOfSchedule ==
    ASSUME ScheduleOK
    PROVE  /\ Coins(vesting_timestamps, vesting_amounts) \in Seq(Nat)
           /\ Coins(vesting_timestamps, vesting_amounts) \in [1..Total(vesting_amounts) -> Nat]
           /\ Len(Coins(vesting_timestamps, vesting_amounts)) = Total(vesting_amounts)
           /\ Total(vesting_amounts) \in Nat
           /\ \A c \in 1..Total(vesting_amounts) :
                 Coins(vesting_timestamps, vesting_amounts)[c]
                    = vesting_timestamps[Entry(vesting_amounts, c)]
<1>. DEFINE T == Total(vesting_amounts)
            coins == Coins(vesting_timestamps, vesting_amounts)
<1>1. coins = [c \in 1..T |-> vesting_timestamps[Entry(vesting_amounts, c)]]
  BY CoinsAre
<1>2. T \in Nat
  BY AmountsSummed, SumIsNat
<1>3. \A i \in 1..Len(vesting_amounts) : vesting_timestamps[i] \in Nat
  BY AmountsSummed DEF ScheduleOK
<1>4. \A c \in 1..T : Entry(vesting_amounts, c) \in 1..Len(vesting_amounts)
  BY AmountsSummed, EntryOfCoin
<1>. HIDE DEF coins, T
<1>5. coins \in [1..T -> Nat]
  BY <1>1, <1>3, <1>4
<1>6. coins \in Seq(Nat) /\ Len(coins) = T
  BY <1>2, <1>5, FunctionIsSequence, Zenon
<1>7. \A c \in 1..T : coins[c] = vesting_timestamps[Entry(vesting_amounts, c)]
  BY <1>1
<1>. QED
  BY <1>2, <1>5, <1>6, <1>7 DEF coins, T

LEMMA CoinsOfScheduleNext ==
    ASSUME ScheduleOK'
    PROVE  /\ Coins(vesting_timestamps', vesting_amounts') \in
                  [1..Total(vesting_amounts') -> Nat]
           /\ \A c \in 1..Total(vesting_amounts') :
                 Coins(vesting_timestamps', vesting_amounts')[c]
                    = vesting_timestamps'[Entry(vesting_amounts', c)]
<1>. DEFINE T == Total(vesting_amounts')
            coins == Coins(vesting_timestamps', vesting_amounts')
            L == Len(vesting_amounts')
<1>1. coins = [c \in 1..T |-> vesting_timestamps'[Entry(vesting_amounts', c)]]
  BY CoinsAre
<1>2. /\ vesting_amounts' \in Seq(Nat) /\ vesting_timestamps' \in Seq(Nat)
      /\ Len(vesting_timestamps') = L
  BY DEF ScheduleOK
<1>3. \A i \in 1..L : vesting_timestamps'[i] \in Nat
  BY <1>2
<1>4. \A c \in 1..T : Entry(vesting_amounts', c) \in 1..L
  BY <1>2, EntryOfCoin
<1>. HIDE DEF coins, T, L
<1>5. coins \in [1..T -> Nat] /\ \A c \in 1..T : coins[c] = vesting_timestamps'[Entry(vesting_amounts', c)]
  BY <1>1, <1>3, <1>4
<1>. QED
  BY <1>5 DEF coins, T

\* What has vested covers the coins withdrawn: each of them is of an entry reached.
LEMMA WithdrawnAreUnlocked ==
    ASSUME ScheduleOK, NEW requested \in Nat, CollectSucceeds(requested)
    PROVE  1..requested \subseteq Queue!Unlocked
<1>. DEFINE S == SumOf(vesting_amounts)
            L == Len(vesting_amounts)
            k == Cardinality(Visited)
            T == Total(vesting_amounts)
<1>1. /\ k \in 0..L /\ L \in Nat /\ Visited = 1..k /\ requested <= S[k]
      /\ PartialSums(S, vesting_amounts, L)
  BY VisitedIsInitial, AmountsSummed DEF CollectSucceeds
<1>2. T = S[L]
  BY Zenon DEF Total
<1>3. \A i \in Visited : \A j \in 1..i : vesting_timestamps[j] <= now
  BY Zenon DEF Visited
<1>4. vesting_amounts \in Seq(Nat)
  BY AmountsSummed
<1>. HIDE DEF S, L, k, T
<1>5. S[k] <= T /\ S[k] \in Nat /\ T \in Nat
  <2>1. L \in k..L /\ k \in 0..L /\ L \in 0..L
    BY <1>1
  <2>2. S[k] <= S[L]
    BY <1>1, <2>1, PartialSumsGrow
  <2>. QED
    BY <1>1, <1>2, <2>1, <2>2 DEF PartialSums
<1>. SUFFICES ASSUME NEW c \in 1..requested
              PROVE  c \in Queue!Unlocked
  OBVIOUS
<1>6. c \in 1..T /\ c <= S[k] /\ c \in Nat /\ 0 < c
  BY <1>1, <1>5
<1>7. k # 0
  BY <1>1, <1>6 DEF PartialSums
<1>8. Entry(vesting_amounts, c) \in 1..k
  <2>1. k \in 1..Len(vesting_amounts)
    BY <1>1, <1>7 DEF L
  <2>2. Entry(vesting_amounts, c) \in 1..Len(vesting_amounts) /\ Entry(vesting_amounts, c) <= k
    BY <1>4, <1>6, <2>1, EntryOfCoin DEF S, T
  <2>. QED
    BY <2>1, <2>2
<1>9. vesting_timestamps[Entry(vesting_amounts, c)] <= now
  <2>1. Entry(vesting_amounts, c) \in Visited
        /\ Entry(vesting_amounts, c) \in 1..Entry(vesting_amounts, c)
    BY <1>1, <1>8
  <2>. QED
    BY <1>3, <2>1
<1>10. /\ Coins(vesting_timestamps, vesting_amounts)[c] <= now
       /\ c \in DOMAIN Coins(vesting_timestamps, vesting_amounts)
  BY <1>6, <1>9, CoinsOfSchedule DEF T
<1>. QED
  BY <1>10 DEF Queue!Unlocked

\* The coins left are the others, with their times.
LEMMA OthersAreLeft ==
    ASSUME ScheduleOK, NEW requested \in Nat, CollectVested(requested)
    PROVE  Coins(vesting_timestamps', vesting_amounts') =
               SubSeq(Coins(vesting_timestamps, vesting_amounts), requested + 1,
                      Len(Coins(vesting_timestamps, vesting_amounts)))
<1>. DEFINE S == SumOf(vesting_amounts)
            R == SumOf(vesting_amounts')
            L == Len(vesting_amounts)
            T == Total(vesting_amounts)
            U == Total(vesting_amounts')
            used == UsedUp(requested)
            coins == Coins(vesting_timestamps, vesting_amounts)
            rest == Coins(vesting_timestamps', vesting_amounts')
<1>1. ScheduleOK'
  BY CollectKeepsSchedule
<1>2. U = T - requested /\ T \in Nat /\ U \in Nat
  <2>1. U = T - requested
    BY CollectTakesRequested, ScheduleIsLists
  <2>2. vesting_amounts' \in Seq(Nat) /\ vesting_amounts \in Seq(Nat)
    BY <1>1 DEF ScheduleOK
  <2>. QED
    BY <2>1, <2>2, SumIsNat
<1>3. /\ coins \in [1..T -> Nat] /\ Len(coins) = T /\ coins \in Seq(Nat)
      /\ \A c \in 1..T : coins[c] = vesting_timestamps[Entry(vesting_amounts, c)]
  BY CoinsOfSchedule
<1>4. /\ rest \in [1..U -> Nat]
      /\ \A c \in 1..U : rest[c] = vesting_timestamps'[Entry(vesting_amounts', c)]
  BY <1>1, CoinsOfScheduleNext
<1>5. /\ used \in 0..L /\ L \in Nat /\ Len(vesting_amounts') = L - used
      /\ \A n \in 1..(L - used) : R[n] = S[used + n] - requested
      /\ \A n \in 1..(L - used) : vesting_timestamps'[n] = vesting_timestamps[used + n]
  <2>1. /\ used \in 0..Cardinality(Visited) /\ Len(vesting_amounts') = L - used
        /\ \A n \in 0..(L - used) :
              n > 0 \/ used = Cardinality(Visited) => R[n] = S[used + n] - requested
    BY CollectShiftsSums, ScheduleIsLists
  <2>2. L \in Nat /\ Cardinality(Visited) \in 0..L
    BY AmountsSummed, VisitedIsInitial
  <2>3. \A n \in 1..(L - used) : vesting_timestamps'[n] = vesting_timestamps[used + n]
    BY WhatIsLeft
  <2>. HIDE DEF used, L, R, S
  <2>4. \A n \in 1..(L - used) : n \in 0..(L - used) /\ n > 0
    BY <2>1, <2>2
  <2>. QED
    BY <2>1, <2>2, <2>3, <2>4
<1>6. S[used] <= requested /\ PartialSums(S, vesting_amounts, L)
  <2>1. S[used] + AmountToSubtract(requested) = requested /\ AmountToSubtract(requested) \in Nat
    BY Covered, ScheduleIsLists DEF CollectVested
  <2>2. PartialSums(S, vesting_amounts, L)
    BY AmountsSummed
  <2>3. S[used] \in Nat
    BY <1>5, <2>2 DEF PartialSums
  <2>. HIDE DEF used
  <2>. QED
    BY <2>1, <2>2, <2>3
<1>7. vesting_amounts' \in Seq(Nat) /\ vesting_amounts \in Seq(Nat)
  BY <1>1 DEF ScheduleOK
<1>. HIDE DEF coins, rest, used
<1>8. ASSUME NEW c \in 1..U
      PROVE  requested + c \in 1..T /\ rest[c] = coins[requested + c]
  <2>. DEFINE e == Entry(vesting_amounts', c)
  <2>1. e \in 1..(L - used) /\ R[e - 1] < c /\ c <= R[e]
    BY <1>5, <1>7, EntryOfCoin DEF IsOf
  <2>. HIDE DEF e, R, S, L, T, U
  <2>2. requested + c \in 1..T /\ c \in Nat /\ 0 < c
    BY <1>2
  <2>3. /\ used + e \in 1..L /\ (used + e) - 1 = used + (e - 1)
        /\ S[used + e] \in Nat /\ S[used + (e - 1)] \in Nat /\ S[used] \in Nat
    <3>1. used + e \in 1..L /\ (used + e) - 1 = used + (e - 1)
      BY <1>5, <2>1
    <3>2. used + e \in 0..L /\ used + (e - 1) \in 0..L
      BY <1>5, <2>1
    <3>. QED
      BY <1>5, <1>6, <3>1, <3>2 DEF PartialSums
  <2>4. requested + c <= S[used + e]
    <3>1. R[e] = S[used + e] - requested
      BY <1>5, <2>1
    <3>. QED
      BY <2>1, <2>2, <2>3, <3>1
  <2>5. S[used + (e - 1)] < requested + c
    <3>1. CASE e = 1
      <4>1. used + (e - 1) = used
        BY <1>5, <3>1
      <4>. QED
        BY <1>6, <2>2, <2>3, <4>1
    <3>2. CASE e # 1
      <4>1. e - 1 \in 1..(L - used)
        BY <1>5, <2>1, <3>2
      <4>2. R[e - 1] = S[used + (e - 1)] - requested
        BY <1>5, <4>1
      <4>. QED
        BY <2>1, <2>2, <2>3, <4>2
    <3>. QED
      BY <3>1, <3>2
  <2>6. Entry(vesting_amounts, requested + c) = used + e
    <3>1. IsOf(vesting_amounts, requested + c, used + e)
      BY <2>3, <2>4, <2>5 DEF IsOf, S
    <3>. QED
      BY <1>7, <2>2, <2>3, <3>1, OneEntry DEF T, L
  <2>7. rest[c] = vesting_timestamps'[e]
    BY <1>4 DEF e
  <2>. QED
    BY <1>3, <1>5, <2>1, <2>2, <2>6, <2>7
<1>. HIDE DEF T, U
<1>9. SubSeq(coins, requested + 1, T) = [c \in 1..U |-> coins[requested + c]]
  <2>1. requested \in 0..Len(coins)
    BY <1>2, <1>3
  <2>2. /\ SubSeq(coins, requested + 1, Len(coins)) \in [1..(Len(coins) - requested) -> Nat]
        /\ \A n \in 1..(Len(coins) - requested) :
              SubSeq(coins, requested + 1, Len(coins))[n] = coins[requested + n]
    BY <1>3, <2>1, RestOfSequence
  <2>. QED
    BY <1>2, <1>3, <2>2
<1>10. rest = [c \in 1..U |-> coins[requested + c]]
  BY <1>4, <1>8
<1>. QED
  BY <1>3, <1>9, <1>10 DEF coins, rest

LEMMA QueueSteps == BooksOK /\ [VestingNext]_vestingVars => [Queue!Next]_(Queue!vars)
<1>. SUFFICES ASSUME BooksOK, [VestingNext]_vestingVars
              PROVE  [Queue!Next]_(Queue!vars)
  OBVIOUS
<1>1. ScheduleOK /\ now \in Nat
  BY VestingAssumption DEF BooksOK, VestingTypeOK, ScheduleOK
<1>2. ASSUME NEW requested \in Requests, WithdrawUnlocked(requested), UNCHANGED now
      PROVE  Queue!Withdraw(requested)
  <2>1. requested \in Nat /\ CollectVested(requested) /\ CollectSucceeds(requested)
    BY <1>2, VestingAssumption DEF WithdrawUnlocked, CollectVested
  <2>2. withdrawn_unlocked' = withdrawn_unlocked + requested /\ withdrawn_locked' = withdrawn_locked
    BY <1>2 DEF WithdrawUnlocked
  <2>3. 1..requested \subseteq Queue!Unlocked
    BY <1>1, <2>1, WithdrawnAreUnlocked
  <2>4. Coins(vesting_timestamps', vesting_amounts') =
            SubSeq(Coins(vesting_timestamps, vesting_amounts), requested + 1,
                   Len(Coins(vesting_timestamps, vesting_amounts)))
    BY <1>1, <2>1, OthersAreLeft
  <2>. QED
    BY <1>2, <2>2, <2>3, <2>4, Zenon DEF Queue!Withdraw
<1>3. CASE WithdrawLocked /\ UNCHANGED now
  <2>1. /\ vesting_amounts' = <<>> /\ vesting_timestamps' = <<>>
        /\ withdrawn_locked' = withdrawn_locked + Total(vesting_amounts)
        /\ withdrawn_unlocked' = withdrawn_unlocked
    BY <1>3 DEF WithdrawLocked
  <2>2. Coins(<<>>, <<>>) = <<>>
    <3>1. <<>> \in Seq(Nat)
      OBVIOUS
    <3>2. Total(<<>>) = 0
      BY <3>1, SumIsNat
    <3>3. Coins(<<>>, <<>>) = [c \in 1..0 |-> <<>>[Entry(<<>>, c)]]
      BY <3>2, CoinsAre, Zenon
    <3>. HIDE DEF Entry
    <3>. QED
      BY <3>3
  <2>3. Len(Coins(vesting_timestamps, vesting_amounts)) = Total(vesting_amounts)
    BY <1>1, CoinsOfSchedule
  <2>4. Queue!Seize
    BY <1>3, <2>1, <2>2, <2>3, Zenon DEF Queue!Seize
  <2>. QED
    BY <2>4 DEF Queue!Next
<1>4. CASE Tick /\ UNCHANGED books
  <2>1. now' > now
    BY <1>1, <1>4 DEF Tick
  <2>2. Queue!Pass
    BY <1>4, <2>1, Zenon DEF Queue!Pass, books
  <2>. QED
    BY <2>2 DEF Queue!Next
<1>5. CASE UNCHANGED vestingVars
  <2>1. UNCHANGED Queue!vars
    BY <1>5, Zenon DEF vestingVars, books, Queue!vars
  <2>. QED
    BY <2>1
<1>6. ASSUME NEW requested \in Requests, WithdrawUnlocked(requested), UNCHANGED now
      PROVE  Queue!Next
  BY <1>2, <1>6, Zenon DEF Queue!Next
<1>. QED
  BY <1>3, <1>4, <1>5, <1>6, Zenon DEF VestingNext

LEMMA QueueInitially == VestingInit => Queue!Init
<1>. SUFFICES ASSUME VestingInit PROVE Queue!Init
  OBVIOUS
<1>1. PICK s \in Schedules :
         /\ vesting_timestamps = s[1] /\ vesting_amounts = s[2]
         /\ withdrawn_unlocked = 0 /\ withdrawn_locked = 0
  BY Zenon DEF VestingInit
<1>2. Coins(vesting_timestamps, vesting_amounts) \in {Coins(q[1], q[2]) : q \in Schedules}
  BY <1>1
<1>3. now \in Nat
  BY BooksInit, VestingAssumption DEF BooksOK, VestingTypeOK
<1>. QED
  BY <1>1, <1>2, <1>3, Zenon DEF Queue!Init

\* collect_vested, over two parallel lists of which the first entry may be partly used,
\* takes exactly the coins asked for, the earliest ones, all of them unlocked, and leaves
\* every other coin its time: for every schedule and every sequence of withdrawals.
THEOREM UnlockQueueImplemented == VestingSpec => ImplementsUnlockQueue
<1>1. VestingInit => BooksOK
  BY BooksInit
<1>. QED
  BY <1>1, BooksStep, QueueInitially, QueueSteps, PTL
     DEF VestingSpec, ImplementsUnlockQueue, Queue!Spec
=============================================================================
