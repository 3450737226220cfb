---------------------------- MODULE ChainProofs ----------------------------
(***************************************************************************)
(* What the messages of the treasury do to the chain, for any number of    *)
(* validators and addresses: sums over validators, unbonding entries and   *)
(* accounts, the effect of each message on them, and the effect of the     *)
(* sequence of messages a handler returns (Run).                           *)
(***************************************************************************)
EXTENDS Treasury, VestingProofs

(***************************************************************************)
(* Totals.                                                                 *)
(***************************************************************************)

\* A sum over the first k positions is the sum over them as a set.
LEMMA PartialSumIsSetSum ==
    ASSUME NEW L \in Nat, NEW S, NEW a, PartialSums(S, a, L), NEW k \in 0..L
    PROVE  S[k] = SetSum(a, 1..k)
<1>. DEFINE Bad == {n \in 0..L : S[n] # SetSum(a, 1..n)}
<1>1. SUFFICES ASSUME Bad # {} PROVE FALSE
  OBVIOUS
<1>2. PICK n \in Bad : \A m \in Bad : n <= m
  <2>1. Bad \in SUBSET Nat
    OBVIOUS
  <2>. QED
    BY <1>1, <2>1, LeastElement, Zenon
<1>3. n \in 0..L /\ n \in Nat /\ S[n] # SetSum(a, 1..n)
  OBVIOUS
<1>4. CASE n = 0
  <2>1. 1..0 = {} /\ S[0] = 0
    BY DEF PartialSums
  <2>. QED
    BY <1>3, <1>4, <2>1, SetSumEmpty
<1>5. CASE n # 0
  <2>1. n - 1 \in 0..L /\ ~ (n <= n - 1) /\ n \in 1..L /\ n \in 1..n
    BY <1>3, <1>5
  <2>2. n - 1 \notin Bad
    <3>. HIDE DEF Bad
    <3>. QED
      BY <1>2, <2>1
  <2>3. S[n - 1] = SetSum(a, 1..(n - 1))
    BY <2>1, <2>2
  <2>. HIDE DEF Bad
  <2>4. S[n] = S[n - 1] + a[n] /\ S[n - 1] \in Nat /\ a[n] \in Nat
    BY <2>1 DEF PartialSums
  <2>5. NumbersOn(a, 1..n)
    BY <1>3, FS_Interval DEF PartialSums, NumbersOn
  <2>6. SetSum(a, 1..n) = a[n] + SetSum(a, (1..n) \ {n})
    BY <2>1, <2>5, SetSumRemove
  <2>7. (1..n) \ {n} = 1..(n - 1)
    BY <1>3
  <2>8. SetSum(a, 1..n) = a[n] + S[n - 1]
    BY <2>3, <2>6, <2>7, Zenon
  <2>. QED
    BY <1>3, <2>4, <2>8
<1>. QED
  BY <1>4, <1>5

LEMMA TotalIsSetSum ==
    ASSUME NEW s \in Seq(Nat)
    PROVE  /\ Total(s) = SetSum(s, 1..Len(s)) /\ Total(s) \in Nat
           /\ NumbersOn(s, 1..Len(s)) /\ Len(s) \in Nat
<1>1. PartialSums(SumOf(s), s, Len(s)) /\ Len(s) \in Nat /\ Len(s) \in 0..Len(s)
  BY SumOfIsPartialSums
<1>2. Total(s) = SetSum(s, 1..Len(s))
  BY <1>1, PartialSumIsSetSum DEF Total
<1>3. Total(s) \in Nat
  BY <1>1 DEF Total, PartialSums
<1>4. IsFiniteSet(1..Len(s))
  BY <1>1, FS_Interval
<1>5. \A i \in 1..Len(s) : s[i] \in Nat
  OBVIOUS
<1>. QED
  BY <1>1, <1>2, <1>3, <1>4, <1>5 DEF NumbersOn

\* One entry is replaced.
LEMMA TotalUpdate ==
    ASSUME NEW s \in Seq(Nat), NEW t \in Seq(Nat), Len(s) = Len(t), NEW a \in 1..Len(s),
           \A i \in 1..Len(s) : i # a => t[i] = s[i]
    PROVE  Total(t) = Total(s) - s[a] + t[a]
<1>. DEFINE D == 1..Len(s)
<1>1. DiffersAt(a, s, t, D)
  BY DEF DiffersAt
<1>2. Total(s) = SetSum(s, D) /\ Total(t) = SetSum(t, D) /\ NumbersOn(s, D)
  BY TotalIsSetSum
<1>. HIDE DEF D
<1>. QED
  BY <1>1, <1>2, SetSumUpdate

\* Each entry is a part of the total.
LEMMA TotalCovers ==
    ASSUME NEW s \in Seq(Nat), NEW a \in 1..Len(s)
    PROVE  s[a] <= Total(s)
<1>1. PartialSums(SumOf(s), s, Len(s)) /\ Len(s) \in Nat
  BY SumOfIsPartialSums
<1>. DEFINE S == SumOf(s)
            L == Len(s)
<1>2. PartialSums(S, s, L) /\ L \in Nat /\ a \in 1..L /\ a - 1 \in 0..L /\ a \in 0..L /\ L \in a..L
  BY <1>1
<1>. HIDE DEF S, L
<1>3. S[a] <= S[L]
  BY <1>2, PartialSumsGrow
<1>4. S[a] = S[a - 1] + s[a] /\ S[a - 1] \in Nat /\ s[a] \in Nat /\ S[L] \in Nat
  BY <1>2 DEF PartialSums
<1>5. s[a] <= S[L]
  BY <1>3, <1>4
<1>. QED
  BY <1>5 DEF Total, S, L

LEMMA TotalAppend ==
    ASSUME NEW s \in Seq(Nat), NEW n \in Nat
    PROVE  Total(Append(s, n)) = Total(s) + n
<1>. DEFINE t == Append(s, n)
            L == Len(s)
<1>1. t \in Seq(Nat) /\ Len(t) = L + 1 /\ t[L + 1] = n /\ \A i \in 1..L : t[i] = s[i]
  OBVIOUS
<1>. HIDE DEF t
<1>2. L \in Nat /\ NumbersOn(s, 1..L) /\ Total(s) = SetSum(s, 1..L) /\ Total(s) \in Nat
  BY TotalIsSetSum
<1>3. Total(t) = SetSum(t, 1..(L + 1)) /\ NumbersOn(t, 1..(L + 1))
  BY <1>1, TotalIsSetSum
<1>4. (1..(L + 1)) \ {L + 1} = 1..L /\ L + 1 \in 1..(L + 1)
  BY <1>2
<1>5. SetSum(t, 1..(L + 1)) = t[L + 1] + SetSum(t, (1..(L + 1)) \ {L + 1})
  BY <1>3, <1>4, SetSumRemove
<1>6. SetSum(t, 1..L) = SetSum(s, 1..L)
  <2>1. AgreesOn(t, s, 1..L)
    BY <1>1, <1>2 DEF AgreesOn, NumbersOn
  <2>. QED
    BY <2>1, SetSumAgree
<1>7. Total(t) = n + Total(s)
  BY <1>1, <1>2, <1>3, <1>4, <1>5, <1>6, Zenon
<1>. QED
  BY <1>2, <1>7 DEF t

\* An entry is taken out and those behind it move up.
IsWithout(t, s, a, L) ==
    \A i \in 1..(L - 1) : t[i] = IF i < a THEN s[i] ELSE s[i + 1]

LEMMA PartialSumsWithout ==
    ASSUME NEW L \in Nat \ {0}, NEW S, NEW s, PartialSums(S, s, L), NEW a \in 1..L,
           NEW T, NEW t, PartialSums(T, t, L - 1), IsWithout(t, s, a, L)
    PROVE  T[L - 1] = S[L] - s[a]
<1>. DEFINE Bad == {n \in 0..(L - 1) : T[n] # IF n < a THEN S[n] ELSE S[n + 1] - s[a]}
<1>1. /\ S \in [0..L -> Nat] /\ s \in [1..L -> Nat] /\ T \in [0..(L - 1) -> Nat]
      /\ S[0] = 0 /\ T[0] = 0
      /\ \A i \in 1..L : S[i] = S[i - 1] + s[i]
      /\ \A i \in 1..(L - 1) : T[i] = T[i - 1] + t[i]
  BY DEF PartialSums
<1>2. \A n \in 0..(L - 1) : T[n] = IF n < a THEN S[n] ELSE S[n + 1] - s[a]
  <2>. SUFFICES ASSUME Bad # {} PROVE FALSE
    OBVIOUS
  <2>1. PICK n \in Bad : \A m \in Bad : n <= m
    <3>1. Bad \in SUBSET Nat
      OBVIOUS
    <3>. HIDE DEF Bad
    <3>. QED
      BY <3>1, LeastElement, Zenon
  <2>2. n \in 0..(L - 1) /\ n \in Nat /\ T[n] # (IF n < a THEN S[n] ELSE S[n + 1] - s[a])
    OBVIOUS
  <2>3. n # 0
    BY <1>1, <2>2
  <2>4. n - 1 \in 0..(L - 1) /\ ~ (n <= n - 1) /\ n \in 1..(L - 1)
    BY <2>2, <2>3
  <2>5. n - 1 \notin Bad
    <3>. HIDE DEF Bad
    <3>. QED
      BY <2>1, <2>4
  <2>6. T[n - 1] = IF n - 1 < a THEN S[n - 1] ELSE S[n] - s[a]
    <3>1. (n - 1) + 1 = n
      BY <2>2
    <3>. QED
      BY <2>4, <2>5, <3>1
  <2>. HIDE DEF Bad
  <2>7. T[n] = T[n - 1] + t[n] /\ t[n] = IF n < a THEN s[n] ELSE s[n + 1]
    BY <1>1, <2>4 DEF IsWithout
  <2>8. S[n] = S[n - 1] + s[n] /\ S[n + 1] = S[n] + s[n + 1]
    <3>1. n \in 1..L /\ n + 1 \in 1..L /\ (n + 1) - 1 = n
      BY <2>4
    <3>. QED
      BY <1>1, <3>1
  <2>9. S[n - 1] \in Nat /\ s[n] \in Nat /\ s[n + 1] \in Nat /\ s[a] \in Nat /\ T[n - 1] \in Nat
    <3>1. n - 1 \in 0..L /\ n \in 1..L /\ n + 1 \in 1..L
      BY <2>4
    <3>. QED
      BY <1>1, <2>4, <3>1
  <2>. DEFINE before == S[n - 1]
              here == s[n]
              next == s[n + 1]
              out == s[a]
              sum == T[n - 1]
  <2>10. before \in Nat /\ here \in Nat /\ next \in Nat /\ out \in Nat /\ sum \in Nat
    BY <2>9
  <2>11. /\ sum = IF n - 1 < a THEN before ELSE (before + here) - out
         /\ n = a => here = out
         /\ (sum + IF n < a THEN here ELSE next) #
                 IF n < a THEN before + here ELSE ((before + here) + next) - out
    BY <2>2, <2>6, <2>7, <2>8
  <2>. HIDE DEF before, here, next, out, sum
  <2>. QED
    BY <2>2, <2>10, <2>11
<1>3. L - 1 \in 0..(L - 1) /\ (L - 1) + 1 = L /\ L \in 1..L
  OBVIOUS
<1>4. T[L - 1] = IF L - 1 < a THEN S[L - 1] ELSE S[L] - s[a]
  BY <1>2, <1>3
<1>5. S[L] = S[L - 1] + s[L] /\ S[L - 1] \in Nat /\ s[L] \in Nat
  BY <1>1, <1>3
<1>. QED
  BY <1>4, <1>5

LEMMA TotalRemove ==
    ASSUME NEW s \in Seq(Nat), NEW a \in 1..Len(s), NEW t \in Seq(Nat), Len(t) = Len(s) - 1,
           \A i \in 1..Len(t) : t[i] = IF i < a THEN s[i] ELSE s[i + 1]
    PROVE  Total(t) = Total(s) - s[a]
<1>. DEFINE L == Len(s)
            S == SumOf(s)
            T == SumOf(t)
<1>1. L \in Nat \ {0} /\ Len(t) = L - 1 /\ a \in 1..L
  OBVIOUS
<1>2. PartialSums(S, s, L) /\ PartialSums(T, t, L - 1)
  BY <1>1, SumOfIsPartialSums
<1>3. Total(s) = S[L] /\ Total(t) = T[L - 1]
  BY <1>1 DEF Total
<1>4. IsWithout(t, s, a, L)
  BY <1>1 DEF IsWithout
<1>. HIDE DEF L, S, T
<1>5. T[L - 1] = S[L] - s[a]
  BY <1>1, <1>2, <1>4, PartialSumsWithout
<1>. QED
  BY <1>3, <1>5

(***************************************************************************)
(* What the chain holds.                                                   *)
(***************************************************************************)

UnbondingEntry == [validator : Validators, initial_balance : Nat, balance : Nat]

ChainState ==
    [bank      : [Address -> Nat],
     delegated : [Validators -> Nat],
     accrued   : [Validators -> Nat],
     unbonding : Seq(UnbondingEntry),
     returned  : Nat]

Pending(c) == SumOver(c.accrued)
PaidTo(c) == SetSum(c.bank, Address \ {Self})
Others == Address \ {Self}

LEMMA PaidOutIsPaidTo == PaidOut = PaidTo(chain)
BY Zenon DEF PaidOut, PaidTo, SetSum

LEMMA SumOverIsSetSum ==
    ASSUME NEW f \in [Validators -> Nat]
    PROVE  /\ SumOver(f) = SetSum(f, Validators) /\ SumOver(f) \in Nat
           /\ NumbersOn(f, Validators)
           /\ \A v \in Validators : f[v] <= SumOver(f)
<1>. DEFINE s == [v \in 1..NumValidators |-> f[v]]
<1>1. NumValidators \in Nat
  BY TreasuryAssumption
<1>2. s \in Seq(Nat) /\ Len(s) = NumValidators /\ s = f
  BY <1>1 DEF Validators
<1>3. SumOver(f) = Total(s)
  BY DEF SumOver
<1>. HIDE DEF s
<1>4. Total(s) = SetSum(s, 1..NumValidators) /\ Total(s) \in Nat /\ NumbersOn(s, 1..NumValidators)
  BY <1>2, TotalIsSetSum
<1>5. \A v \in Validators : s[v] <= Total(s)
  BY <1>2, TotalCovers DEF Validators
<1>. QED
  BY <1>2, <1>3, <1>4, <1>5 DEF Validators

LEMMA SumOverUpdate ==
    ASSUME NEW f \in [Validators -> Nat], NEW k \in [Validators -> Nat], NEW v \in Validators,
           \A u \in Validators \ {v} : k[u] = f[u]
    PROVE  SumOver(k) = SumOver(f) - f[v] + k[v]
<1>1. DiffersAt(v, f, k, Validators)
  BY DEF DiffersAt
<1>2. NumbersOn(f, Validators) /\ SumOver(f) = SetSum(f, Validators)
      /\ SumOver(k) = SetSum(k, Validators)
  BY SumOverIsSetSum
<1>. QED
  BY <1>1, <1>2, SetSumUpdate

LEMMA SumOverNothing ==
    ASSUME NEW f \in [Validators -> Nat], \A v \in Validators : f[v] = 0
    PROVE  SumOver(f) = 0
<1>1. SumOver(f) = SetSum(f, Validators) /\ IsFiniteSet(Validators)
  BY SumOverIsSetSum DEF NumbersOn
<1>2. SetSum(f, Validators) = 0 * Cardinality(Validators) /\ Cardinality(Validators) \in Nat
  BY <1>1, SetSumConstant, FS_CardinalityType
<1>. QED
  BY <1>1, <1>2

\* The balances of a list of unbonding entries, which Balances adds up.
AmountsOf(entries) == [i \in DOMAIN entries |-> entries[i].balance]

LEMMA SequenceOf ==
    ASSUME NEW T, NEW L \in Nat, NEW f \in [1..L -> T]
    PROVE  f \in Seq(T) /\ Len(f) = L /\ DOMAIN f = 1..L
OBVIOUS

LEMMA SameSequence ==
    ASSUME NEW T, NEW s \in Seq(T), NEW t \in Seq(T), Len(s) = Len(t),
           \A i \in 1..Len(s) : s[i] = t[i]
    PROVE  s = t
<1>1. s = [i \in 1..Len(s) |-> s[i]] /\ t = [i \in 1..Len(t) |-> t[i]]
  OBVIOUS
<1>. QED
  BY <1>1

LEMMA AmountsOfEntries ==
    ASSUME NEW entries \in Seq(UnbondingEntry)
    PROVE  /\ AmountsOf(entries) \in Seq(Nat) /\ Len(AmountsOf(entries)) = Len(entries)
           /\ \A i \in 1..Len(entries) : /\ entries[i] \in UnbondingEntry
                                         /\ AmountsOf(entries)[i] = entries[i].balance
                                         /\ entries[i].balance \in Nat
           /\ Len(entries) \in Nat /\ DOMAIN entries = 1..Len(entries)
           /\ Balances(entries) = Total(AmountsOf(entries)) /\ Balances(entries) \in Nat
<1>. DEFINE L == Len(entries)
            s == AmountsOf(entries)
<1>1. L \in Nat /\ DOMAIN entries = 1..L /\ \A i \in 1..L : entries[i] \in UnbondingEntry
  OBVIOUS
<1>2. \A i \in 1..L : entries[i].balance \in Nat
  BY <1>1 DEF UnbondingEntry
<1>3. s = [i \in 1..L |-> entries[i].balance]
  BY <1>1 DEF AmountsOf
<1>. HIDE DEF s, L
<1>4. s \in [1..L -> Nat] /\ \A i \in 1..L : s[i] = entries[i].balance
  BY <1>2, <1>3
<1>5. s \in Seq(Nat) /\ Len(s) = L
  BY <1>1, <1>4, SequenceOf
<1>6. Balances(entries) = Total(s)
  BY Zenon DEF Balances, AmountsOf, s
<1>7. Total(s) \in Nat
  BY <1>5, TotalIsSetSum
<1>. QED
  BY <1>1, <1>2, <1>4, <1>5, <1>6, <1>7 DEF s, L

LEMMA BalancesAppend ==
    ASSUME NEW entries \in Seq(UnbondingEntry), NEW entry \in UnbondingEntry
    PROVE  /\ Append(entries, entry) \in Seq(UnbondingEntry)
           /\ Balances(Append(entries, entry)) = Balances(entries) + entry.balance
<1>. DEFINE L == Len(entries)
            more == Append(entries, entry)
            s == AmountsOf(entries)
            t == AmountsOf(more)
<1>1. /\ more \in Seq(UnbondingEntry) /\ Len(more) = L + 1 /\ more[L + 1] = entry
      /\ \A i \in 1..L : more[i] = entries[i]
  OBVIOUS
<1>. HIDE DEF more
<1>2. s \in Seq(Nat) /\ Len(s) = L /\ L \in Nat /\ \A i \in 1..L : s[i] = entries[i].balance
  BY AmountsOfEntries
<1>3. /\ t \in Seq(Nat) /\ Len(t) = L + 1 /\ \A i \in 1..(L + 1) : t[i] = more[i].balance
  BY <1>1, AmountsOfEntries
<1>4. entry.balance \in Nat
  BY DEF UnbondingEntry
<1>. HIDE DEF s, t, L
<1>. DEFINE b == entry.balance
            u == Append(s, b)
<1>5. b \in Nat /\ \A i \in 1..L : t[i] = s[i]
  <2>1. \A i \in 1..L : i \in 1..(L + 1)
    BY <1>2
  <2>2. ASSUME NEW i \in 1..L PROVE t[i] = s[i]
    BY <1>1, <1>2, <1>3, <2>1
  <2>. QED
    BY <1>4, <2>2
<1>6. t[L + 1] = b /\ L + 1 \in 1..(L + 1)
  BY <1>1, <1>2, <1>3
<1>. HIDE DEF b
<1>7. Total(t) = Total(s) + b
  <2>1. u \in Seq(Nat) /\ Len(u) = L + 1 /\ u[L + 1] = b /\ \A i \in 1..L : u[i] = s[i]
    BY <1>2, <1>5
  <2>2. Total(u) = Total(s) + b
    BY <1>2, <1>5, TotalAppend
  <2>. HIDE DEF u
  <2>3. \A i \in 1..(L + 1) : t[i] = u[i]
    <3>. SUFFICES ASSUME NEW i \in 1..(L + 1) PROVE t[i] = u[i]
      OBVIOUS
    <3>1. i \in 1..L \/ i = L + 1
      BY <1>2
    <3>. QED
      BY <1>5, <1>6, <2>1, <3>1
  <2>4. t = u
    BY <1>3, <2>1, <2>3, SameSequence
  <2>. QED
    BY <2>2, <2>4
<1>8. Balances(entries) = Total(s) /\ Balances(more) = Total(t)
  BY <1>1, AmountsOfEntries DEF s, t
<1>. QED
  BY <1>1, <1>7, <1>8 DEF more, b

LEMMA BalancesUpdate ==
    ASSUME NEW entries \in Seq(UnbondingEntry), NEW i \in DOMAIN entries, NEW n \in Nat
    PROVE  /\ [entries EXCEPT ![i].balance = n] \in Seq(UnbondingEntry)
           /\ Balances([entries EXCEPT ![i].balance = n])
                  = Balances(entries) - entries[i].balance + n
<1>. DEFINE L == Len(entries)
            changed == [entries EXCEPT ![i].balance = n]
            s == AmountsOf(entries)
            t == AmountsOf(changed)
<1>1. /\ L \in Nat /\ DOMAIN entries = 1..L /\ \A j \in 1..L : entries[j] \in UnbondingEntry
      /\ s \in Seq(Nat) /\ Len(s) = L /\ \A j \in 1..L : s[j] = entries[j].balance
  BY AmountsOfEntries
<1>2. [entries[i] EXCEPT !.balance = n] \in UnbondingEntry
  BY <1>1 DEF UnbondingEntry
<1>3. /\ changed \in [1..L -> UnbondingEntry] /\ changed[i].balance = n
      /\ \A j \in 1..L : j # i => changed[j] = entries[j]
  BY <1>1, <1>2 DEF UnbondingEntry
<1>. HIDE DEF L, changed
<1>4. changed \in Seq(UnbondingEntry) /\ Len(changed) = L
  BY <1>1, <1>3, SequenceOf
<1>5. t \in Seq(Nat) /\ Len(t) = L /\ \A j \in 1..L : t[j] = changed[j].balance
  BY <1>4, AmountsOfEntries
<1>6. Balances(entries) = Total(s) /\ Balances(changed) = Total(t)
  BY <1>4, AmountsOfEntries
<1>. HIDE DEF s, t
<1>7. i \in 1..Len(s) /\ s[i] = entries[i].balance /\ t[i] = n
      /\ \A j \in 1..Len(s) : j # i => t[j] = s[j]
  BY <1>1, <1>3, <1>5
<1>8. Total(t) = Total(s) - s[i] + t[i]
  BY <1>1, <1>5, <1>7, TotalUpdate
<1>. QED
  BY <1>4, <1>6, <1>7, <1>8 DEF changed

LEMMA RemoveAtProperties ==
    ASSUME NEW T, NEW s \in Seq(T), NEW i \in 1..Len(s)
    PROVE  /\ RemoveAt(s, i) \in Seq(T) /\ Len(RemoveAt(s, i)) = Len(s) - 1
           /\ \A j \in 1..(Len(s) - 1) : RemoveAt(s, i)[j] = IF j < i THEN s[j] ELSE s[j + 1]
<1>. DEFINE L == Len(s)
            front == SubSeq(s, 1, i - 1)
            back == SubSeq(s, i + 1, L)
            less == RemoveAt(s, i)
<1>1. L \in Nat /\ i \in 1..L /\ i \in Nat /\ i >= 1 /\ i <= L
  OBVIOUS
<1>2. less = front \o back
  BY Zenon DEF RemoveAt
<1>3. \A m \in 1..(L + 1), n \in 0..L :
          /\ SubSeq(s, m, n) \in Seq(T)
          /\ Len(SubSeq(s, m, n)) = IF m <= n THEN n - m + 1 ELSE 0
          /\ \A k \in 1..(n - m + 1) : SubSeq(s, m, n)[k] = s[m + k - 1]
  BY SubSeqProperties
<1>4. 1 \in 1..(L + 1) /\ i + 1 \in 1..(L + 1) /\ i - 1 \in 0..L /\ L \in 0..L
  BY <1>1
<1>5. /\ front \in Seq(T) /\ Len(front) = IF 1 <= i - 1 THEN (i - 1) - 1 + 1 ELSE 0
      /\ \A k \in 1..((i - 1) - 1 + 1) : front[k] = s[1 + k - 1]
  BY <1>3, <1>4
<1>6. /\ back \in Seq(T) /\ Len(back) = IF i + 1 <= L THEN L - (i + 1) + 1 ELSE 0
      /\ \A k \in 1..(L - (i + 1) + 1) : back[k] = s[(i + 1) + k - 1]
  BY <1>3, <1>4
<1>. HIDE DEF front, back, less, L
<1>7. Len(front) = i - 1 /\ Len(back) = L - i
  BY <1>1, <1>5, <1>6
<1>8. less \in Seq(T) /\ Len(less) = L - 1
  <2>1. less \in Seq(T) /\ Len(less) = Len(front) + Len(back)
    BY <1>2, <1>5, <1>6, ConcatProperties
  <2>. QED
    BY <1>1, <1>7, <2>1
<1>9. ASSUME NEW j \in 1..(L - 1) PROVE less[j] = IF j < i THEN s[j] ELSE s[j + 1]
  <2>1. j \in Nat /\ j \in 1..(Len(front) + Len(back))
    BY <1>1, <1>7
  <2>2. less[j] = IF j <= Len(front) THEN front[j] ELSE back[j - Len(front)]
    BY <1>2, <1>5, <1>6, <2>1, ConcatProperties
  <2>3. CASE j < i
    <3>1. j <= i - 1 /\ j \in 1..((i - 1) - 1 + 1) /\ 1 + j - 1 = j
      BY <1>1, <2>1, <2>3
    <3>. QED
      BY <1>5, <1>7, <2>2, <2>3, <3>1
  <2>4. CASE ~ (j < i)
    <3>1. ~ (j <= i - 1) /\ j - (i - 1) \in 1..(L - (i + 1) + 1)
          /\ (i + 1) + (j - (i - 1)) - 1 = j + 1
      BY <1>1, <2>1, <2>4
    <3>. QED
      BY <1>6, <1>7, <2>2, <2>4, <3>1
  <2>. QED
    BY <2>3, <2>4
<1>. QED
  BY <1>8, <1>9 DEF less, L

LEMMA BalancesRemove ==
    ASSUME NEW entries \in Seq(UnbondingEntry), NEW i \in DOMAIN entries
    PROVE  /\ RemoveAt(entries, i) \in Seq(UnbondingEntry)
           /\ Balances(RemoveAt(entries, i)) = Balances(entries) - entries[i].balance
           /\ entries[i].balance \in Nat
<1>. DEFINE L == Len(entries)
            less == RemoveAt(entries, i)
            s == AmountsOf(entries)
            t == AmountsOf(less)
<1>1. /\ L \in Nat /\ DOMAIN entries = 1..L /\ \A j \in 1..L : entries[j] \in UnbondingEntry
      /\ s \in Seq(Nat) /\ Len(s) = L /\ \A j \in 1..L : s[j] = entries[j].balance
      /\ entries[i].balance \in Nat
  BY AmountsOfEntries
<1>2. i \in 1..L
  BY <1>1
<1>5. /\ less \in Seq(UnbondingEntry) /\ Len(less) = L - 1
      /\ \A j \in 1..(L - 1) : less[j] = IF j < i THEN entries[j] ELSE entries[j + 1]
  BY <1>2, RemoveAtProperties
<1>. HIDE DEF less, L
<1>6. /\ t \in Seq(Nat) /\ Len(t) = L - 1 /\ \A j \in 1..(L - 1) : t[j] = less[j].balance
  BY <1>5, AmountsOfEntries
<1>7. Balances(entries) = Total(s) /\ Balances(less) = Total(t)
  BY <1>5, AmountsOfEntries
<1>. HIDE DEF s, t
<1>8. ASSUME NEW j \in 1..Len(t) PROVE t[j] = IF j < i THEN s[j] ELSE s[j + 1]
  <2>1. j \in 1..(L - 1) /\ j \in 1..L /\ j + 1 \in 1..L
    BY <1>1, <1>6
  <2>2. t[j] = less[j].balance /\ less[j] = IF j < i THEN entries[j] ELSE entries[j + 1]
    BY <1>5, <1>6, <2>1
  <2>3. s[j] = entries[j].balance /\ s[j + 1] = entries[j + 1].balance
    BY <1>1, <2>1
  <2>. QED
    BY <2>2, <2>3
<1>9. Total(t) = Total(s) - s[i]
  BY <1>1, <1>2, <1>6, <1>8, TotalRemove
<1>. QED
  BY <1>1, <1>2, <1>5, <1>7, <1>9 DEF less

-----------------------------------------------------------------------------
(***************************************************************************)
(* What a message does to the amounts on the chain.                        *)
(***************************************************************************)

\* Rewards accrue where something is delegated, and a slash takes from an entry.
AccruedAtDelegations(c) == \A v \in Validators : c.delegated[v] = 0 => c.accrued[v] = 0
EntriesOK(c) ==
    \A i \in DOMAIN c.unbonding : c.unbonding[i].balance <= c.unbonding[i].initial_balance

LEMMA ChainAmounts ==
    ASSUME NEW c \in ChainState
    PROVE  /\ c.bank \in [Address -> Nat] /\ c.bank[Self] \in Nat /\ Self \in Address
           /\ c.delegated \in [Validators -> Nat] /\ c.accrued \in [Validators -> Nat]
           /\ c.unbonding \in Seq(UnbondingEntry) /\ c.returned \in Nat
           /\ Staked(c) \in Nat /\ Balances(c.unbonding) \in Nat
           /\ Pending(c) \in Nat /\ Assets(c) \in Nat
           /\ Staked(c) = SumOver(c.delegated) /\ Pending(c) = SumOver(c.accrued)
           /\ Assets(c) = c.bank[Self] + Staked(c) + Balances(c.unbonding)
<1>1. /\ c.bank \in [Address -> Nat] /\ c.delegated \in [Validators -> Nat]
      /\ c.accrued \in [Validators -> Nat] /\ c.unbonding \in Seq(UnbondingEntry)
      /\ c.returned \in Nat
  BY DEF ChainState
<1>2. c.bank[Self] \in Nat /\ Self \in Address
  BY <1>1, PermissionAssumption
<1>3. SumOver(c.delegated) \in Nat /\ SumOver(c.accrued) \in Nat
  BY <1>1, SumOverIsSetSum
<1>4. Balances(c.unbonding) \in Nat
  BY <1>1, AmountsOfEntries
<1>. QED
  BY <1>1, <1>2, <1>3, <1>4 DEF Assets, Staked, Pending

\* Staking operations pay nothing and lose nothing: coins change place, and rewards on
\* their way come in.
StakingEffect(c, d) ==
    /\ d \in ChainState
    /\ d.returned = c.returned
    /\ \A a \in Others : d.bank[a] = c.bank[a]
    /\ Pending(d) <= Pending(c)
    /\ Assets(d) + Pending(d) = Assets(c) + Pending(c)
    /\ AccruedAtDelegations(c) => AccruedAtDelegations(d)
    /\ EntriesOK(c) => EntriesOK(d)

LEMMA StakingEffectTransitive ==
    ASSUME NEW c \in ChainState, NEW d, NEW e, StakingEffect(c, d), StakingEffect(d, e)
    PROVE  StakingEffect(c, e)
<1>1. d \in ChainState /\ e \in ChainState
  BY DEF StakingEffect
<1>2. /\ Pending(c) \in Nat /\ Pending(d) \in Nat /\ Pending(e) \in Nat
      /\ Assets(c) \in Nat /\ Assets(d) \in Nat /\ Assets(e) \in Nat
  BY <1>1, ChainAmounts
<1>3. Pending(e) <= Pending(c) /\ Assets(e) + Pending(e) = Assets(c) + Pending(c)
  BY <1>2 DEF StakingEffect
<1>. QED
  BY <1>1, <1>3 DEF StakingEffect

LEMMA PayRewardsEffect ==
    ASSUME NEW c \in ChainState, NEW v \in Validators
    PROVE  LET d == PayRewards(c, v)
           IN  /\ StakingEffect(c, d)
               /\ d.delegated = c.delegated /\ d.unbonding = c.unbonding
               /\ d.accrued[v] = 0 /\ \A u \in Validators \ {v} : d.accrued[u] = c.accrued[u]
               /\ d.bank[Self] = c.bank[Self] + c.accrued[v]
               /\ Pending(d) = Pending(c) - c.accrued[v]
<1>. DEFINE d == PayRewards(c, v)
            n == c.accrued[v]
<1>1. c.bank \in [Address -> Nat] /\ Self \in Address /\ c.accrued \in [Validators -> Nat]
  BY ChainAmounts
<1>2. n \in Nat
  BY <1>1
<1>3. c.bank[Self] + n \in Nat
  BY <1>2, ChainAmounts
<1>4. /\ d.bank = [c.bank EXCEPT ![Self] = @ + n] /\ d.accrued = [c.accrued EXCEPT ![v] = 0]
      /\ d.delegated = c.delegated /\ d.unbonding = c.unbonding /\ d.returned = c.returned
      /\ d \in ChainState
  BY <1>1, <1>3 DEF ChainState, PayRewards
<1>. HIDE DEF d, n
<1>5. /\ d.bank[Self] = c.bank[Self] + n /\ \A a \in Others : d.bank[a] = c.bank[a]
      /\ d.accrued[v] = 0 /\ \A u \in Validators \ {v} : d.accrued[u] = c.accrued[u]
  BY <1>1, <1>4 DEF Others
<1>6. SumOver(d.accrued) = SumOver(c.accrued) - c.accrued[v] + d.accrued[v]
  <2>1. d.accrued \in [Validators -> Nat]
    BY <1>4, ChainAmounts
  <2>. QED
    BY <1>1, <1>5, <2>1, SumOverUpdate
<1>7. /\ Pending(d) = Pending(c) - n
      /\ Pending(c) \in Nat /\ Pending(d) \in Nat
  BY <1>4, <1>5, <1>6, <1>2, ChainAmounts DEF n
<1>8. Assets(d) = Assets(c) + n
  BY <1>2, <1>4, <1>5, ChainAmounts DEF Assets, Staked
<1>9. /\ AccruedAtDelegations(c) => AccruedAtDelegations(d)
      /\ EntriesOK(c) => EntriesOK(d)
  BY <1>4, <1>5 DEF AccruedAtDelegations, EntriesOK
<1>10. Assets(c) \in Nat /\ Assets(d) + Pending(d) = Assets(c) + Pending(c)
      /\ Pending(d) <= Pending(c)
  BY <1>2, <1>7, <1>8, ChainAmounts
<1>. QED
  BY <1>4, <1>5, <1>7, <1>9, <1>10 DEF StakingEffect, d, n

\* amount coins of the bank are delegated.
LEMMA DelegateMoves ==
    ASSUME NEW c \in ChainState, NEW v \in Validators, NEW amount \in Nat,
           amount <= c.bank[Self]
    PROVE  StakingEffect(c, [c EXCEPT !.bank[Self] = @ - amount, !.delegated[v] = @ + amount])
<1>. DEFINE d == [c EXCEPT !.bank[Self] = @ - amount, !.delegated[v] = @ + amount]
<1>1. /\ c.bank \in [Address -> Nat] /\ Self \in Address /\ c.delegated \in [Validators -> Nat]
      /\ c.bank[Self] - amount \in Nat /\ c.delegated[v] + amount \in Nat
  BY ChainAmounts
<1>2. /\ d.bank = [c.bank EXCEPT ![Self] = @ - amount]
      /\ d.delegated = [c.delegated EXCEPT ![v] = @ + amount]
      /\ d.accrued = c.accrued /\ d.unbonding = c.unbonding /\ d.returned = c.returned
      /\ d \in ChainState
  BY <1>1 DEF ChainState
<1>. HIDE DEF d
<1>3. /\ d.bank[Self] = c.bank[Self] - amount /\ \A a \in Others : d.bank[a] = c.bank[a]
      /\ d.delegated[v] = c.delegated[v] + amount
      /\ \A u \in Validators \ {v} : d.delegated[u] = c.delegated[u]
  BY <1>1, <1>2 DEF Others
<1>4. SumOver(d.delegated) = SumOver(c.delegated) - c.delegated[v] + d.delegated[v]
  <2>1. d.delegated \in [Validators -> Nat]
    BY <1>2, ChainAmounts
  <2>. QED
    BY <1>1, <1>3, <2>1, SumOverUpdate
<1>5. Staked(d) = Staked(c) + amount
  <2>1. SumOver(c.delegated) \in Nat /\ c.delegated[v] \in Nat
    BY <1>1, SumOverIsSetSum
  <2>. QED
    BY <1>3, <1>4, <2>1 DEF Staked
<1>6. Assets(d) = Assets(c) /\ Pending(d) = Pending(c) /\ Pending(c) \in Nat
  <2>1. /\ Assets(d) = d.bank[Self] + Staked(d) + Balances(d.unbonding)
        /\ Assets(c) = c.bank[Self] + Staked(c) + Balances(c.unbonding)
        /\ c.bank[Self] \in Nat /\ Staked(c) \in Nat /\ Balances(c.unbonding) \in Nat
        /\ Pending(c) \in Nat
    BY ChainAmounts DEF Assets
  <2>. QED
    BY <1>2, <1>3, <1>5, <2>1 DEF Pending
<1>7. AccruedAtDelegations(c) => AccruedAtDelegations(d)
  BY <1>1, <1>2, <1>3 DEF AccruedAtDelegations
<1>. QED
  BY <1>2, <1>3, <1>6, <1>7 DEF StakingEffect, EntriesOK, d

\* amount coins go from one delegation, whose rewards are paid, to another.
LEMMA RedelegateMoves ==
    ASSUME NEW c \in ChainState, NEW src \in Validators, NEW dst \in Validators \ {src},
           NEW amount \in Nat, amount <= c.delegated[src], c.accrued[src] = 0
    PROVE  StakingEffect(c, [c EXCEPT !.delegated[src] = @ - amount,
                                      !.delegated[dst] = @ + amount])
<1>. DEFINE d == [c EXCEPT !.delegated[src] = @ - amount, !.delegated[dst] = @ + amount]
            f == c.delegated
            g == [f EXCEPT ![src] = @ - amount]
            k == [g EXCEPT ![dst] = @ + amount]
<1>1. f \in [Validators -> Nat]
  BY ChainAmounts
<1>2. /\ g \in [Validators -> Nat] /\ g[src] = f[src] - amount
      /\ \A u \in Validators \ {src} : g[u] = f[u]
  BY <1>1
<1>3. /\ k \in [Validators -> Nat] /\ k[dst] = g[dst] + amount
      /\ \A u \in Validators \ {dst} : k[u] = g[u]
  <2>. HIDE DEF g
  <2>. QED
    BY <1>2
<1>4. /\ d.bank = c.bank /\ d.delegated = k /\ d.accrued = c.accrued
      /\ d.unbonding = c.unbonding /\ d.returned = c.returned
      /\ d \in ChainState
  <2>1. d = [c EXCEPT !.delegated = k]
    BY DEF ChainState
  <2>. HIDE DEF d, k
  <2>. QED
    BY <1>3, <2>1 DEF ChainState
<1>. HIDE DEF d, f, g, k
<1>5. SumOver(g) = SumOver(f) - f[src] + g[src] /\ SumOver(k) = SumOver(g) - g[dst] + k[dst]
  BY <1>1, <1>2, <1>3, SumOverUpdate
<1>6. /\ SumOver(f) \in Nat /\ SumOver(g) \in Nat /\ SumOver(k) \in Nat
      /\ f[src] \in Nat /\ g[dst] \in Nat
  BY <1>1, <1>2, <1>3, SumOverIsSetSum
<1>7. SumOver(k) = SumOver(f)
  BY <1>2, <1>3, <1>5, <1>6
<1>8. Assets(d) = Assets(c) /\ Pending(d) = Pending(c) /\ Pending(c) \in Nat
  BY <1>4, <1>7, ChainAmounts DEF Pending, Assets, Staked, f
<1>9. AccruedAtDelegations(c) => AccruedAtDelegations(d)
  <2>. SUFFICES ASSUME AccruedAtDelegations(c), NEW u \in Validators, k[u] = 0
                PROVE  c.accrued[u] = 0
    BY <1>4 DEF AccruedAtDelegations
  <2>1. u = src \/ k[u] >= f[u]
    BY <1>1, <1>2, <1>3
  <2>2. u = src \/ f[u] = 0
    BY <1>1, <2>1
  <2>. QED
    BY <2>2 DEF AccruedAtDelegations, f
<1>. QED
  BY <1>4, <1>8, <1>9 DEF StakingEffect, EntriesOK, d

\* amount coins go from a delegation, whose rewards are paid, to an unbonding entry.
LEMMA UndelegateMoves ==
    ASSUME NEW c \in ChainState, NEW v \in Validators, NEW amount \in Nat,
           amount <= c.delegated[v], c.accrued[v] = 0, NEW entry \in UnbondingEntry,
           entry.balance = amount, entry.initial_balance = amount
    PROVE  StakingEffect(c, [c EXCEPT !.delegated[v] = @ - amount,
                                      !.unbonding = Append(@, entry)])
<1>. DEFINE d == [c EXCEPT !.delegated[v] = @ - amount, !.unbonding = Append(@, entry)]
            more == Append(c.unbonding, entry)
<1>1. /\ c.delegated \in [Validators -> Nat] /\ c.delegated[v] - amount \in Nat
      /\ c.unbonding \in Seq(UnbondingEntry)
  BY ChainAmounts
<1>2. more \in Seq(UnbondingEntry) /\ Balances(more) = Balances(c.unbonding) + amount
  BY <1>1, BalancesAppend
<1>4. EntriesOK(c) => \A i \in DOMAIN more : more[i].balance <= more[i].initial_balance
  <2>. SUFFICES ASSUME EntriesOK(c), NEW i \in DOMAIN more
                PROVE  more[i].balance <= more[i].initial_balance
    OBVIOUS
  <2>. DEFINE L == Len(c.unbonding)
  <2>1. \/ i \in 1..L /\ more[i] = c.unbonding[i] /\ i \in DOMAIN c.unbonding
        \/ more[i] = entry
    BY <1>1
  <2>. QED
    BY <2>1 DEF EntriesOK
<1>5. /\ d.bank = c.bank /\ d.delegated = [c.delegated EXCEPT ![v] = @ - amount]
      /\ d.accrued = c.accrued /\ d.unbonding = more /\ d.returned = c.returned
      /\ d \in ChainState
  <2>1. d = [c EXCEPT !.delegated[v] = @ - amount, !.unbonding = more]
    BY DEF ChainState
  <2>. HIDE DEF d, more
  <2>. QED
    BY <1>1, <1>2, <2>1 DEF ChainState
<1>. HIDE DEF d, more
<1>6. /\ d.delegated[v] = c.delegated[v] - amount
      /\ \A u \in Validators \ {v} : d.delegated[u] = c.delegated[u]
  BY <1>1, <1>5
<1>7. SumOver(d.delegated) = SumOver(c.delegated) - c.delegated[v] + d.delegated[v]
  <2>1. d.delegated \in [Validators -> Nat]
    BY <1>5, ChainAmounts
  <2>. QED
    BY <1>1, <1>6, <2>1, SumOverUpdate
<1>8. Staked(d) = Staked(c) - amount
  <2>1. SumOver(c.delegated) \in Nat /\ c.delegated[v] \in Nat
    BY <1>1, SumOverIsSetSum
  <2>. QED
    BY <1>6, <1>7, <2>1 DEF Staked
<1>9. Assets(d) = Assets(c) /\ Pending(d) = Pending(c) /\ Pending(c) \in Nat
  <2>1. /\ Assets(d) = d.bank[Self] + Staked(d) + Balances(d.unbonding)
        /\ Assets(c) = c.bank[Self] + Staked(c) + Balances(c.unbonding)
        /\ c.bank[Self] \in Nat /\ Staked(c) \in Nat /\ Balances(c.unbonding) \in Nat
        /\ Pending(c) \in Nat
    BY ChainAmounts DEF Assets
  <2>. QED
    BY <1>2, <1>5, <1>8, <2>1 DEF Pending
<1>10. AccruedAtDelegations(c) => AccruedAtDelegations(d)
  BY <1>5, <1>6 DEF AccruedAtDelegations
<1>11. EntriesOK(c) => EntriesOK(d)
  BY <1>4, <1>5 DEF EntriesOK
<1>. QED
  BY <1>5, <1>9, <1>10, <1>11 DEF StakingEffect, d

(***************************************************************************)
(* The chain executes a message of the treasury.                           *)
(***************************************************************************)

LEMMA WithdrawRewardEffect ==
    ASSUME NEW c \in ChainState, NEW v \in Validators, NEW d \in Exec(c, WithdrawRewardMsg(v))
    PROVE  d = PayRewards(c, v) /\ c.delegated[v] > 0
<1>1. Exec(c, WithdrawRewardMsg(v)) = ExecWithdrawReward(c, v)
  BY DEF Exec, WithdrawRewardMsg
<1>. QED
  BY <1>1 DEF ExecWithdrawReward

LEMMA DelegateEffect ==
    ASSUME NEW c \in ChainState, NEW v \in Validators, NEW amount \in Nat,
           NEW d \in Exec(c, DelegateMsg(v, amount))
    PROVE  StakingEffect(c, d)
<1>. DEFINE p == PayRewards(c, v)
<1>1. StakingEffect(c, p) /\ p \in ChainState
  BY PayRewardsEffect DEF StakingEffect
<1>2. Exec(c, DelegateMsg(v, amount)) = ExecDelegate(c, v, amount)
  BY DEF Exec, DelegateMsg
<1>3. /\ p.bank[Self] >= amount
      /\ d = [p EXCEPT !.bank[Self] = @ - amount, !.delegated[v] = @ + amount]
  BY <1>2 DEF ExecDelegate
<1>. HIDE DEF p
<1>4. amount <= p.bank[Self]
  BY <1>1, <1>3, ChainAmounts
<1>5. StakingEffect(p, d)
  BY <1>1, <1>3, <1>4, DelegateMoves
<1>. QED
  BY <1>1, <1>5, StakingEffectTransitive

LEMMA RedelegateEffect ==
    ASSUME NEW c \in ChainState, NEW src \in Validators, NEW dst \in Validators,
           NEW amount \in Nat, NEW d \in Exec(c, RedelegateMsg(src, dst, amount))
    PROVE  StakingEffect(c, d)
<1>. DEFINE o == PayRewards(c, src)
            p == PayRewards(o, dst)
<1>1. Exec(c, RedelegateMsg(src, dst, amount)) = ExecRedelegate(c, src, dst, amount)
  BY DEF Exec, RedelegateMsg
<1>2. /\ src # dst /\ p.delegated[src] >= amount
      /\ d = [p EXCEPT !.delegated[src] = @ - amount, !.delegated[dst] = @ + amount]
  BY <1>1 DEF ExecRedelegate
<1>3. StakingEffect(c, o) /\ o \in ChainState /\ o.accrued[src] = 0
  BY PayRewardsEffect DEF StakingEffect
<1>. HIDE DEF o
<1>4. StakingEffect(o, p) /\ p \in ChainState /\ p.accrued[src] = 0
  BY <1>2, <1>3, PayRewardsEffect DEF StakingEffect
<1>. HIDE DEF p
<1>5. amount <= p.delegated[src] /\ dst \in Validators \ {src}
  BY <1>2, <1>4, ChainAmounts
<1>6. StakingEffect(p, d)
  BY <1>2, <1>4, <1>5, RedelegateMoves
<1>7. StakingEffect(c, p)
  BY <1>3, <1>4, StakingEffectTransitive
<1>. QED
  BY <1>6, <1>7, StakingEffectTransitive

LEMMA UndelegateEffect ==
    ASSUME NEW c \in ChainState, NEW v \in Validators, NEW amount \in Nat,
           NEW d \in Exec(c, UndelegateMsg(v, amount))
    PROVE  StakingEffect(c, d)
<1>. DEFINE p == PayRewards(c, v)
            entry == [validator |-> v, initial_balance |-> amount, balance |-> amount]
<1>1. StakingEffect(c, p) /\ p \in ChainState /\ p.accrued[v] = 0
  BY PayRewardsEffect DEF StakingEffect
<1>2. Exec(c, UndelegateMsg(v, amount)) = ExecUndelegate(c, v, amount)
  BY DEF Exec, UndelegateMsg
<1>3. /\ p.delegated[v] >= amount
      /\ d = [p EXCEPT !.delegated[v] = @ - amount, !.unbonding = Append(@, entry)]
  BY <1>2 DEF ExecUndelegate
<1>4. entry \in UnbondingEntry /\ entry.balance = amount /\ entry.initial_balance = amount
  BY DEF UnbondingEntry
<1>. HIDE DEF p, entry
<1>5. amount <= p.delegated[v]
  BY <1>1, <1>3, ChainAmounts
<1>6. StakingEffect(p, d)
  BY <1>1, <1>3, <1>4, <1>5, UndelegateMoves
<1>. QED
  BY <1>1, <1>6, StakingEffectTransitive

\* n coins are paid to an address; beyond that, coins change place as they do by staking.
Share(mine, n) == IF mine THEN n ELSE 0

PaymentEffect(c, d, n, to) ==
    /\ d \in ChainState
    /\ d.returned = c.returned + Share(to = Self, n)
    /\ c.returned <= MaxReturned => d.returned <= MaxReturned
    /\ \A a \in Others : d.bank[a] = c.bank[a] + Share(a = to, n)
    /\ Pending(d) <= Pending(c)
    /\ Assets(d) + Pending(d) + Share(to # Self, n) = Assets(c) + Pending(c)
    /\ AccruedAtDelegations(c) => AccruedAtDelegations(d)
    /\ EntriesOK(c) => EntriesOK(d)

LEMMA StakingPaysNothing ==
    ASSUME NEW c \in ChainState, NEW d, StakingEffect(c, d), NEW to
    PROVE  PaymentEffect(c, d, 0, to)
<1>1. \A mine \in BOOLEAN : Share(mine, 0) = 0
  BY DEF Share
<1>2. d \in ChainState /\ Share(to = Self, 0) = 0 /\ Share(to # Self, 0) = 0
      /\ \A a \in Others : Share(a = to, 0) = 0
  BY <1>1 DEF StakingEffect
<1>3. \A a \in Others : c.bank[a] \in Nat
  BY ChainAmounts DEF Others
<1>4. /\ c.returned \in Nat /\ Assets(d) \in Nat /\ Pending(d) \in Nat
  BY <1>2, ChainAmounts
<1>. QED
  BY <1>2, <1>3, <1>4 DEF StakingEffect, PaymentEffect

LEMMA PaymentEffectTransitive ==
    ASSUME NEW c \in ChainState, NEW d, NEW e, NEW n \in Nat, NEW m \in Nat, NEW to,
           PaymentEffect(c, d, n, to), PaymentEffect(d, e, m, to)
    PROVE  PaymentEffect(c, e, n + m, to)
<1>1. d \in ChainState /\ e \in ChainState
  BY DEF PaymentEffect
<1>2. /\ Pending(c) \in Nat /\ Pending(d) \in Nat /\ Pending(e) \in Nat
      /\ Assets(c) \in Nat /\ Assets(d) \in Nat /\ Assets(e) \in Nat
      /\ c.returned \in Nat /\ d.returned \in Nat
  BY <1>1, ChainAmounts
<1>3. \A mine \in BOOLEAN :
          /\ Share(mine, n + m) = Share(mine, n) + Share(mine, m)
          /\ Share(mine, n) \in Nat /\ Share(mine, m) \in Nat
  BY DEF Share
<1>4. \A a \in Others : c.bank[a] \in Nat
  BY ChainAmounts DEF Others
<1>5. \A a \in Others : e.bank[a] = c.bank[a] + Share(a = to, n + m)
  <2>. SUFFICES ASSUME NEW a \in Others PROVE e.bank[a] = c.bank[a] + Share(a = to, n + m)
    OBVIOUS
  <2>1. d.bank[a] = c.bank[a] + Share(a = to, n) /\ e.bank[a] = d.bank[a] + Share(a = to, m)
    BY DEF PaymentEffect
  <2>2. /\ Share(a = to, n + m) = Share(a = to, n) + Share(a = to, m)
        /\ Share(a = to, n) \in Nat /\ Share(a = to, m) \in Nat
    BY DEF Share
  <2>. QED
    BY <1>4, <2>1, <2>2
<1>6. /\ Share(to = Self, n + m) = Share(to = Self, n) + Share(to = Self, m)
      /\ Share(to # Self, n + m) = Share(to # Self, n) + Share(to # Self, m)
      /\ Share(to = Self, n) \in Nat /\ Share(to = Self, m) \in Nat
      /\ Share(to # Self, n) \in Nat /\ Share(to # Self, m) \in Nat
  BY DEF Share
<1>7. e.returned = c.returned + Share(to = Self, n + m)
  BY <1>2, <1>6 DEF PaymentEffect
<1>8. /\ Pending(e) <= Pending(c)
      /\ Assets(e) + Pending(e) + Share(to # Self, n + m) = Assets(c) + Pending(c)
  <2>1. /\ Assets(e) + Pending(e) + Share(to # Self, m) = Assets(d) + Pending(d)
        /\ Assets(d) + Pending(d) + Share(to # Self, n) = Assets(c) + Pending(c)
        /\ Pending(e) <= Pending(d) /\ Pending(d) <= Pending(c)
    BY DEF PaymentEffect
  <2>. QED
    BY <1>2, <1>6, <2>1
<1>. QED
  BY <1>1, <1>5, <1>7, <1>8 DEF PaymentEffect

SameStake(c, d) ==
    d.delegated = c.delegated /\ d.accrued = c.accrued /\ d.unbonding = c.unbonding

LEMMA SameStakeAmounts ==
    ASSUME NEW c \in ChainState, NEW d \in ChainState, SameStake(c, d)
    PROVE  /\ Pending(d) = Pending(c) /\ Pending(c) \in Nat
           /\ Assets(d) - d.bank[Self] = Assets(c) - c.bank[Self]
           /\ AccruedAtDelegations(c) => AccruedAtDelegations(d)
           /\ EntriesOK(c) => EntriesOK(d)
<1>1. /\ Assets(d) = d.bank[Self] + Staked(d) + Balances(d.unbonding)
      /\ Assets(c) = c.bank[Self] + Staked(c) + Balances(c.unbonding)
      /\ c.bank[Self] \in Nat /\ d.bank[Self] \in Nat /\ Staked(c) \in Nat
      /\ Balances(c.unbonding) \in Nat /\ Pending(c) \in Nat
  BY ChainAmounts
<1>2. Staked(d) = Staked(c) /\ Balances(d.unbonding) = Balances(c.unbonding)
      /\ Pending(d) = Pending(c)
  BY DEF SameStake, Staked, Pending
<1>. QED
  BY <1>1, <1>2 DEF SameStake, AccruedAtDelegations, EntriesOK

LEMMA SendEffect ==
    ASSUME NEW c \in ChainState, NEW to \in Address, NEW n \in Nat,
           NEW d \in Exec(c, SendMsg(to, n))
    PROVE  /\ PaymentEffect(c, d, n, to) /\ SameStake(c, d)
           /\ n > 0 /\ n <= c.bank[Self]
<1>1. Exec(c, SendMsg(to, n)) = ExecSend(c, to, n)
  BY DEF Exec, SendMsg
<1>2. n > 0 /\ c.bank[Self] >= n
  BY <1>1 DEF ExecSend
<1>3. /\ c.bank \in [Address -> Nat] /\ c.bank[Self] \in Nat /\ Self \in Address
      /\ c.returned \in Nat /\ Assets(c) \in Nat /\ Pending(c) \in Nat
      /\ c.bank[Self] - n \in Nat /\ c.bank[to] + n \in Nat /\ c.returned + n \in Nat
  <2>1. /\ c.bank \in [Address -> Nat] /\ c.bank[Self] \in Nat /\ Self \in Address
        /\ c.returned \in Nat /\ Assets(c) \in Nat /\ Pending(c) \in Nat
    BY ChainAmounts
  <2>. QED
    BY <1>2, <2>1
<1>4. CASE to = Self
  <2>1. d = [c EXCEPT !.returned = @ + n] /\ d.returned <= MaxReturned
    BY <1>1, <1>2, <1>4 DEF ExecSend
  <2>2. d \in ChainState /\ SameStake(c, d) /\ d.bank = c.bank /\ d.returned = c.returned + n
    BY <1>3, <2>1 DEF ChainState, SameStake
  <2>3. Assets(d) = Assets(c) /\ Pending(d) = Pending(c)
    BY <2>2 DEF SameStake, Assets, Staked, Pending
  <2>4. /\ Share(to = Self, n) = n /\ Share(to # Self, n) = 0
        /\ \A a \in Others : Share(a = to, n) = 0 /\ c.bank[a] \in Nat
    BY <1>3, <1>4 DEF Share, Others
  <2>5. \A a \in Others : d.bank[a] = c.bank[a] + Share(a = to, n)
    BY <2>2, <2>4
  <2>6. /\ Pending(d) <= Pending(c)
        /\ Assets(d) + Pending(d) + Share(to # Self, n) = Assets(c) + Pending(c)
    BY <1>3, <2>3, <2>4
  <2>. QED
    BY <1>2, <1>3, <2>1, <2>2, <2>4, <2>5, <2>6, SameStakeAmounts DEF PaymentEffect
<1>5. CASE to # Self
  <2>1. d = [c EXCEPT !.bank[Self] = @ - n, !.bank[to] = @ + n]
    BY <1>1, <1>2, <1>5 DEF ExecSend
  <2>. DEFINE first == [c.bank EXCEPT ![Self] = @ - n]
              bank == [first EXCEPT ![to] = c.bank[to] + n]
  <2>2. /\ bank \in [Address -> Nat] /\ bank[Self] = c.bank[Self] - n /\ bank[to] = c.bank[to] + n
        /\ \A a \in Others : a # to => bank[a] = c.bank[a]
    BY <1>3, <1>5 DEF Others
  <2>3. d = [c EXCEPT !.bank = bank]
    <3>1. [c EXCEPT !.bank[Self] = @ - n, !.bank[to] = @ + n] = [c EXCEPT !.bank = bank]
      BY DEF ChainState
    <3>. QED
      BY <2>1, <3>1, Zenon
  <2>. HIDE DEF bank
  <2>4. d \in ChainState /\ SameStake(c, d) /\ d.bank = bank /\ d.returned = c.returned
    BY <2>2, <2>3 DEF ChainState, SameStake
  <2>5. /\ Share(to = Self, n) = 0 /\ Share(to # Self, n) = n
        /\ \A a \in Others : Share(a = to, n) = (IF a = to THEN n ELSE 0) /\ c.bank[a] \in Nat
    BY <1>3, <1>5 DEF Share, Others
  <2>6. \A a \in Others : d.bank[a] = c.bank[a] + Share(a = to, n)
    <3>. SUFFICES ASSUME NEW a \in Others PROVE d.bank[a] = c.bank[a] + Share(a = to, n)
      OBVIOUS
    <3>1. CASE a = to
      BY <2>2, <2>4, <2>5, <3>1
    <3>2. CASE a # to
      BY <2>2, <2>4, <2>5, <3>2
    <3>. QED
      BY <3>1, <3>2
  <2>7. /\ Pending(d) = Pending(c) /\ Assets(d) - d.bank[Self] = Assets(c) - c.bank[Self]
        /\ AccruedAtDelegations(c) => AccruedAtDelegations(d)
        /\ EntriesOK(c) => EntriesOK(d)
    BY <2>4, SameStakeAmounts
  <2>8. /\ Pending(d) <= Pending(c)
        /\ Assets(d) + Pending(d) + Share(to # Self, n) = Assets(c) + Pending(c)
    <3>1. Assets(d) \in Nat
      BY <2>4, ChainAmounts
    <3>. QED
      BY <1>3, <2>2, <2>4, <2>5, <2>7, <3>1
  <2>9. d.returned = c.returned + Share(to = Self, n)
    BY <1>3, <2>4, <2>5
  <2>. QED
    BY <1>2, <1>3, <2>4, <2>6, <2>7, <2>8, <2>9 DEF PaymentEffect
<1>. QED
  BY <1>4, <1>5

\* What the others have received, and what the contract has sent to itself.
LEMMA PaymentIsReceived ==
    ASSUME NEW c \in ChainState, NEW d, NEW n \in Nat, NEW to \in Address,
           PaymentEffect(c, d, n, to)
    PROVE  /\ PaidTo(d) = PaidTo(c) + Share(to # Self, n) /\ PaidTo(c) \in Nat
           /\ PaidTo(d) + d.returned = PaidTo(c) + c.returned + n
<1>1. /\ d \in ChainState /\ c.bank \in [Address -> Nat] /\ d.bank \in [Address -> Nat]
      /\ c.returned \in Nat
  BY ChainAmounts DEF PaymentEffect
<1>2. IsFiniteSet(Others) /\ Others \subseteq Address
  BY PermissionAssumption, FS_Subset DEF Others
<1>3. NumbersOn(c.bank, Others) /\ PaidTo(c) \in Nat
  BY <1>1, <1>2, SetSumNat DEF NumbersOn, PaidTo, Others
<1>4. PaidTo(c) = SetSum(c.bank, Others) /\ PaidTo(d) = SetSum(d.bank, Others)
  BY Zenon DEF PaidTo, Others
<1>5. \A a \in Others : c.bank[a] \in Nat /\ d.bank[a] = c.bank[a] + Share(a = to, n)
  BY <1>1, <1>2 DEF PaymentEffect
<1>6. d.returned = c.returned + Share(to = Self, n)
  BY DEF PaymentEffect
<1>7. CASE to = Self
  <2>1. \A a \in Others : a # to
    BY <1>7 DEF Others
  <2>2. \A a \in Others : d.bank[a] = c.bank[a]
    BY <1>5, <2>1 DEF Share
  <2>3. AgreesOn(d.bank, c.bank, Others)
    BY <1>2, <2>2 DEF AgreesOn
  <2>4. PaidTo(d) = PaidTo(c)
    BY <1>4, <2>3, SetSumAgree
  <2>. QED
    BY <1>1, <1>3, <1>6, <1>7, <2>4 DEF Share
<1>8. CASE to # Self
  <2>1. to \in Others /\ d.bank[to] = c.bank[to] + n /\ c.bank[to] \in Nat
    BY <1>5, <1>8 DEF Others, Share
  <2>2. \A a \in Others \ {to} : d.bank[a] = c.bank[a]
    BY <1>5 DEF Share
  <2>3. DiffersAt(to, c.bank, d.bank, Others)
    BY <2>1, <2>2 DEF DiffersAt
  <2>4. PaidTo(d) = PaidTo(c) - c.bank[to] + d.bank[to]
    BY <1>3, <1>4, <2>3, SetSumUpdate
  <2>. QED
    BY <1>1, <1>3, <1>6, <1>8, <2>1, <2>4 DEF Share
<1>. QED
  BY <1>7, <1>8

-----------------------------------------------------------------------------
(***************************************************************************)
(* The messages of a response are executed in order: the recursion of Run  *)
(* has a value, and one more message is executed after the others.         *)
(***************************************************************************)

ExecAll(S, m) == UNION {Exec(d, m) : d \in S}
Runs(f, c, s, n) == f = [i \in 0..n |-> IF i = 0 THEN {c} ELSE ExecAll(f[i - 1], s[i])]

LEMMA RunsUnfolded ==
    ASSUME NEW f, NEW c, NEW s, NEW n \in Nat, Runs(f, c, s, n)
    PROVE  /\ f = [i \in 0..n |-> f[i]] /\ f[0] = {c}
           /\ \A i \in 1..n : f[i] = ExecAll(f[i - 1], s[i])
<1>. DEFINE step(i) == IF i = 0 THEN {c} ELSE ExecAll(f[i - 1], s[i])
<1>1. f = [i \in 0..n |-> step(i)]
  BY Zenon DEF Runs
<1>2. step(0) = {c} /\ \A i \in 1..n : i \in 0..n /\ step(i) = ExecAll(f[i - 1], s[i])
  OBVIOUS
<1>3. 0 \in 0..n
  OBVIOUS
<1>. HIDE DEF step
<1>4. \A i \in 0..n : f[i] = step(i)
  BY <1>1
<1>5. f = [i \in 0..n |-> f[i]]
  BY <1>1
<1>. QED
  BY <1>2, <1>3, <1>4, <1>5

LEMMA RunsExist ==
    ASSUME NEW c, NEW s, NEW n \in Nat
    PROVE  \E f : Runs(f, c, s, n)
<1>. DEFINE Bad == {m \in Nat : ~ \E f : Runs(f, c, s, m)}
<1>1. SUFFICES ASSUME Bad # {} PROVE FALSE
  OBVIOUS
<1>2. PICK m \in Bad : \A k \in Bad : m <= k
  <2>1. Bad \in SUBSET Nat
    OBVIOUS
  <2>. QED
    BY <1>1, <2>1, LeastElement, Zenon
<1>3. m \in Nat /\ ~ \E f : Runs(f, c, s, m)
  OBVIOUS
<1>4. CASE m = 0
  <2>. DEFINE f == [i \in 0..0 |-> {c}]
  <2>1. f = [i \in 0..0 |-> IF i = 0 THEN {c} ELSE ExecAll(f[i - 1], s[i])]
    OBVIOUS
  <2>. QED
    BY <1>3, <1>4, <2>1, Zenon DEF Runs
<1>5. CASE m # 0
  <2>1. m - 1 \in Nat /\ ~ (m <= m - 1)
    BY <1>3, <1>5
  <2>2. m - 1 \notin Bad
    <3>. HIDE DEF Bad
    <3>. QED
      BY <1>2, <2>1
  <2>3. PICK f : Runs(f, c, s, m - 1)
    BY <2>1, <2>2
  <2>. HIDE DEF Bad
  <2>4. f[0] = {c} /\ \A i \in 1..(m - 1) : f[i] = ExecAll(f[i - 1], s[i])
    BY <2>1, <2>3, RunsUnfolded
  <2>. DEFINE last == ExecAll(f[m - 1], s[m])
              g == [i \in 0..m |-> IF i = m THEN last ELSE f[i]]
  <2>5. ASSUME NEW i \in 0..m
        PROVE  (IF i = m THEN last ELSE f[i]) = IF i = 0 THEN {c} ELSE ExecAll(g[i - 1], s[i])
    <3>1. CASE i = 0
      BY <1>5, <2>4, <3>1
    <3>2. CASE i # 0
      <4>1. i - 1 \in 0..m /\ i - 1 # m /\ (i = m \/ i \in 1..(m - 1))
        BY <1>3, <3>2
      <4>2. g[i - 1] = f[i - 1]
        BY <4>1
      <4>. HIDE DEF g
      <4>. QED
        BY <2>4, <3>2, <4>1, <4>2
    <3>. QED
      BY <3>1, <3>2
  <2>6. g = [i \in 0..m |-> IF i = 0 THEN {c} ELSE ExecAll(g[i - 1], s[i])]
    BY <2>5, Zenon
  <2>. QED
    BY <1>3, <2>6, Zenon DEF Runs
<1>. QED
  BY <1>4, <1>5

LEMMA RunsAgree ==
    ASSUME NEW n \in Nat, NEW c, NEW f, NEW s, Runs(f, c, s, n),
           NEW m \in Nat, n <= m, NEW g, NEW t, Runs(g, c, t, m),
           \A i \in 1..n : t[i] = s[i]
    PROVE  f[n] = g[n]
<1>. DEFINE Bad == {k \in 0..n : f[k] # g[k]}
<1>1. SUFFICES ASSUME Bad # {} PROVE FALSE
  OBVIOUS
<1>2. PICK k \in Bad : \A j \in Bad : k <= j
  <2>1. Bad \in SUBSET Nat
    OBVIOUS
  <2>. QED
    BY <1>1, <2>1, LeastElement, Zenon
<1>3. k \in 0..n /\ f[k] # g[k]
  OBVIOUS
<1>4. /\ f[0] = {c} /\ \A i \in 1..n : f[i] = ExecAll(f[i - 1], s[i])
      /\ g[0] = {c} /\ \A i \in 1..m : g[i] = ExecAll(g[i - 1], t[i])
  BY RunsUnfolded
<1>5. k # 0
  BY <1>3, <1>4
<1>6. k - 1 \in 0..n /\ ~ (k <= k - 1) /\ k \in 1..n /\ k \in 1..m
  BY <1>3, <1>5
<1>7. k - 1 \notin Bad
  <2>. HIDE DEF Bad
  <2>. QED
    BY <1>2, <1>6
<1>8. f[k - 1] = g[k - 1]
  BY <1>6, <1>7
<1>. HIDE DEF Bad
<1>. QED
  BY <1>3, <1>4, <1>6, <1>8

LEMMA RunIsLast ==
    ASSUME NEW c, NEW s, Len(s) \in Nat
    PROVE  \E f : Runs(f, c, s, Len(s)) /\ Run(c, s) = f[Len(s)]
<1>. DEFINE run == CHOOSE f : Runs(f, c, s, Len(s))
<1>1. Runs(run, c, s, Len(s))
  BY RunsExist, Zenon
<1>2. Run(c, s) = run[Len(s)]
  BY Zenon DEF Run, Runs, ExecAll
<1>. QED
  BY <1>1, <1>2, Zenon

LEMMA RunNothing ==
    ASSUME NEW c
    PROVE  Run(c, <<>>) = {c}
<1>1. Len(<<>>) = 0 /\ Len(<<>>) \in Nat
  OBVIOUS
<1>2. PICK f : Runs(f, c, <<>>, 0) /\ Run(c, <<>>) = f[0]
  BY <1>1, RunIsLast
<1>. QED
  BY <1>2, RunsUnfolded

LEMMA RunSnoc ==
    ASSUME NEW T, NEW s \in Seq(T), NEW m \in T, NEW c
    PROVE  Run(c, Append(s, m)) = ExecAll(Run(c, s), m)
<1>. DEFINE t == Append(s, m)
            n == Len(s)
<1>1. /\ n \in Nat /\ n + 1 \in Nat /\ n <= n + 1 /\ Len(t) = n + 1 /\ t[n + 1] = m
      /\ \A i \in 1..n : t[i] = s[i]
  OBVIOUS
<1>. HIDE DEF t
<1>2. PICK f : Runs(f, c, s, n) /\ Run(c, s) = f[n]
  BY <1>1, RunIsLast
<1>3. PICK g : Runs(g, c, t, n + 1) /\ Run(c, t) = g[n + 1]
  BY <1>1, RunIsLast
<1>. HIDE DEF n
<1>4. f[n] = g[n]
  BY <1>1, <1>2, <1>3, RunsAgree
<1>5. g[n + 1] = ExecAll(g[n], m)
  <2>1. n + 1 \in 1..(n + 1) /\ (n + 1) - 1 = n
    BY <1>1
  <2>2. \A i \in 1..(n + 1) : g[i] = ExecAll(g[i - 1], t[i])
    BY <1>1, <1>3, RunsUnfolded
  <2>. QED
    BY <1>1, <2>1, <2>2
<1>. QED
  BY <1>2, <1>3, <1>4, <1>5 DEF t

\* A response of one message.
LEMMA RunOne ==
    ASSUME NEW c, NEW m
    PROVE  Run(c, <<m>>) = Exec(c, m)
<1>. DEFINE T == {m}
            s == <<>>
<1>1. s \in Seq(T) /\ m \in T /\ Append(s, m) = <<m>> /\ Run(c, s) = {c}
  BY RunNothing
<1>. HIDE DEF T, s
<1>2. Run(c, Append(s, m)) = ExecAll(Run(c, s), m)
  BY <1>1, RunSnoc
<1>3. Run(c, <<m>>) = ExecAll({c}, m)
  BY <1>1, <1>2, Zenon
<1>. QED
  BY <1>3 DEF ExecAll

-----------------------------------------------------------------------------
(***************************************************************************)
(* The messages of a reward withdrawal, for any number of validators.      *)
(***************************************************************************)

RewardMessage ==
    [type : {"Send"}, to : Address, amount : Nat]
        \cup [type : {"WithdrawReward"}, validator : Validators]

FirstRewards(w) == IF w > 0 THEN <<SendMsg(staking_reward_address, w)>> ELSE <<>>
NextRewards(s, v) ==
    IF v \in AllDelegatedValidators
    THEN s \o WithdrawDelegationRewards(v, DelegationRewards(v)) ELSE s

MsgsUpto(f, w, n) ==
    f = [v \in 0..n |->
           IF v = 0 THEN IF w > 0 THEN <<SendMsg(staking_reward_address, w)>> ELSE <<>>
           ELSE IF v \in AllDelegatedValidators
                THEN f[v - 1] \o WithdrawDelegationRewards(v, DelegationRewards(v))
                ELSE f[v - 1]]

LEMMA MsgsUptoForm ==
    ASSUME NEW f, NEW w, NEW n
    PROVE  MsgsUpto(f, w, n) <=>
              f = [v \in 0..n |-> IF v = 0 THEN FirstRewards(w) ELSE NextRewards(f[v - 1], v)]
BY Zenon DEF MsgsUpto, FirstRewards, NextRewards

LEMMA MsgsUptoUnfolded ==
    ASSUME NEW f, NEW w, NEW n \in Nat, MsgsUpto(f, w, n)
    PROVE  /\ f[0] = FirstRewards(w)
           /\ \A v \in 1..n : f[v] = NextRewards(f[v - 1], v)
<1>. DEFINE step(v) == IF v = 0 THEN FirstRewards(w) ELSE NextRewards(f[v - 1], v)
<1>1. f = [v \in 0..n |-> step(v)]
  BY MsgsUptoForm, Zenon
<1>2. step(0) = FirstRewards(w)
      /\ \A v \in 1..n : v \in 0..n /\ step(v) = NextRewards(f[v - 1], v)
  OBVIOUS
<1>3. 0 \in 0..n
  OBVIOUS
<1>. HIDE DEF step
<1>4. \A v \in 0..n : f[v] = step(v)
  BY <1>1
<1>. QED
  BY <1>2, <1>3, <1>4

LEMMA MsgsExist ==
    ASSUME NEW w, NEW n \in Nat
    PROVE  \E f : MsgsUpto(f, w, n)
<1>. DEFINE Bad == {m \in Nat : ~ \E f : MsgsUpto(f, w, m)}
<1>1. SUFFICES ASSUME Bad # {} PROVE FALSE
  OBVIOUS
<1>2. PICK m \in Bad : \A k \in Bad : m <= k
  <2>1. Bad \in SUBSET Nat
    OBVIOUS
  <2>. QED
    BY <1>1, <2>1, LeastElement, Zenon
<1>3. m \in Nat /\ ~ \E f : MsgsUpto(f, w, m)
  OBVIOUS
<1>4. CASE m = 0
  <2>. DEFINE f == [v \in 0..0 |-> FirstRewards(w)]
  <2>1. f = [v \in 0..0 |-> IF v = 0 THEN FirstRewards(w) ELSE NextRewards(f[v - 1], v)]
    OBVIOUS
  <2>. HIDE DEF f
  <2>. QED
    BY <1>3, <1>4, <2>1, MsgsUptoForm
<1>5. CASE m # 0
  <2>1. m - 1 \in Nat /\ ~ (m <= m - 1)
    BY <1>3, <1>5
  <2>2. m - 1 \notin Bad
    <3>. HIDE DEF Bad
    <3>. QED
      BY <1>2, <2>1
  <2>3. PICK f : MsgsUpto(f, w, m - 1)
    BY <2>1, <2>2
  <2>. HIDE DEF Bad
  <2>4. f[0] = FirstRewards(w) /\ \A v \in 1..(m - 1) : f[v] = NextRewards(f[v - 1], v)
    BY <2>1, <2>3, MsgsUptoUnfolded
  <2>. DEFINE last == NextRewards(f[m - 1], m)
              g == [v \in 0..m |-> IF v = m THEN last ELSE f[v]]
  <2>5. ASSUME NEW v \in 0..m
        PROVE  (IF v = m THEN last ELSE f[v])
                   = IF v = 0 THEN FirstRewards(w) ELSE NextRewards(g[v - 1], v)
    <3>1. CASE v = 0
      BY <1>5, <2>4, <3>1
    <3>2. CASE v # 0
      <4>1. v - 1 \in 0..m /\ v - 1 # m /\ (v = m \/ v \in 1..(m - 1))
        BY <1>3, <3>2
      <4>2. g[v - 1] = f[v - 1]
        BY <4>1
      <4>. HIDE DEF g
      <4>. QED
        BY <2>4, <3>2, <4>1, <4>2
    <3>. QED
      BY <3>1, <3>2
  <2>6. g = [v \in 0..m |-> IF v = 0 THEN FirstRewards(w) ELSE NextRewards(g[v - 1], v)]
    BY <2>5, Zenon
  <2>. HIDE DEF g
  <2>. QED
    BY <1>3, <2>6, MsgsUptoForm
<1>. QED
  BY <1>4, <1>5

LEMMA RewardMsgsIsLast ==
    ASSUME NEW w
    PROVE  \E f : MsgsUpto(f, w, NumValidators) /\ RewardMsgs(w) = f[NumValidators]
<1>. DEFINE msgs == CHOOSE f : MsgsUpto(f, w, NumValidators)
<1>1. MsgsUpto(msgs, w, NumValidators)
  BY MsgsExist, TreasuryAssumption, Zenon
<1>2. RewardMsgs(w) = msgs[NumValidators]
  BY Zenon DEF RewardMsgs, MsgsUpto
<1>. QED
  BY <1>1, <1>2, Zenon

\* After the messages of the first v validators: their rewards are paid out, each to the
\* reward address as soon as it is in, and those of the others are still accrued.
PaidUpto(d, w, v) ==
    /\ PaymentEffect(chain, d, w + Pending(chain) - Pending(d), staking_reward_address)
    /\ d.delegated = chain.delegated /\ d.unbonding = chain.unbonding
    /\ \A u \in Validators :
          d.accrued[u] = IF u <= v /\ chain.delegated[u] > 0 THEN 0 ELSE chain.accrued[u]

LEMMA FirstRewardsPaid ==
    ASSUME chain \in ChainState, staking_reward_address \in Address, NEW w \in Nat,
           NEW d \in Run(chain, FirstRewards(w))
    PROVE  PaidUpto(d, w, 0)
<1>1. \A u \in Validators : ~ (u <= 0)
  BY TreasuryAssumption DEF Validators
<1>2. Pending(chain) \in Nat
  BY ChainAmounts
<1>3. CASE w > 0
  <2>1. d \in Exec(chain, SendMsg(staking_reward_address, w))
    BY <1>3, RunOne DEF FirstRewards
  <2>2. PaymentEffect(chain, d, w, staking_reward_address) /\ SameStake(chain, d)
    BY <2>1, SendEffect
  <2>3. Pending(d) = Pending(chain)
    BY <2>2 DEF SameStake, Pending
  <2>4. w + Pending(chain) - Pending(d) = w
    BY <1>2, <2>3
  <2>. QED
    BY <1>1, <2>2, <2>4 DEF PaidUpto, SameStake
<1>4. CASE ~ (w > 0)
  <2>1. d = chain /\ w = 0
    BY <1>4, RunNothing DEF FirstRewards
  <2>2. StakingEffect(chain, chain)
    BY <1>2, ChainAmounts DEF StakingEffect
  <2>3. PaymentEffect(chain, d, 0, staking_reward_address)
    BY <2>1, <2>2, StakingPaysNothing
  <2>4. w + Pending(chain) - Pending(d) = 0
    BY <1>2, <2>1
  <2>. QED
    BY <1>1, <2>1, <2>3, <2>4 DEF PaidUpto
<1>. QED
  BY <1>3, <1>4

\* The two messages for one validator.
LEMMA NextRewardsPaid ==
    ASSUME chain \in ChainState, staking_reward_address \in Address, NEW w \in Nat,
           NEW v \in Validators, v \in AllDelegatedValidators, NEW d, PaidUpto(d, w, v - 1),
           NEW e \in Exec(d, WithdrawRewardMsg(v)),
           NEW g \in Exec(e, SendMsg(staking_reward_address, DelegationRewards(v)))
    PROVE  PaidUpto(g, w, v)
<1>. DEFINE r == staking_reward_address
            n == chain.accrued[v]
            paid == w + Pending(chain) - Pending(d)
<1>1. /\ v \in Nat /\ chain.delegated[v] > 0 /\ n \in Nat /\ Pending(chain) \in Nat
      /\ \A u \in Validators : u \in Nat
  BY ChainAmounts, TreasuryAssumption DEF AllDelegatedValidators, Validators
<1>2. /\ PaymentEffect(chain, d, paid, r)
      /\ d.delegated = chain.delegated /\ d.unbonding = chain.unbonding
      /\ \A u \in Validators :
            d.accrued[u] = IF u <= v - 1 /\ chain.delegated[u] > 0 THEN 0 ELSE chain.accrued[u]
  BY DEF PaidUpto
<1>3. d.accrued[v] = n
  BY <1>1, <1>2
<1>4. d \in ChainState /\ Pending(d) \in Nat /\ Pending(d) <= Pending(chain)
  BY <1>2, ChainAmounts DEF PaymentEffect
<1>5. paid \in Nat
  BY <1>1, <1>4
<1>6. /\ StakingEffect(d, e) /\ e.delegated = d.delegated /\ e.unbonding = d.unbonding
      /\ e.accrued[v] = 0
      /\ \A u \in Validators \ {v} : e.accrued[u] = d.accrued[u]
      /\ Pending(e) = Pending(d) - n
  BY <1>3, <1>4, WithdrawRewardEffect, PayRewardsEffect
<1>7. e \in ChainState /\ PaymentEffect(d, e, 0, r)
  BY <1>4, <1>6, StakingPaysNothing DEF StakingEffect
<1>8. PaymentEffect(e, g, n, r) /\ SameStake(e, g)
  BY <1>1, <1>7, SendEffect DEF DelegationRewards
<1>9. Pending(g) = Pending(e)
  BY <1>8 DEF SameStake, Pending
<1>. DEFINE all == w + Pending(chain) - Pending(g)
<1>10. all = (paid + 0) + n
  BY <1>1, <1>4, <1>6, <1>9
<1>. HIDE DEF r, n, paid, all
<1>11. PaymentEffect(chain, e, paid + 0, r) /\ paid + 0 \in Nat
  BY <1>2, <1>4, <1>5, <1>7, PaymentEffectTransitive
<1>12. PaymentEffect(chain, g, (paid + 0) + n, r)
  BY <1>1, <1>7, <1>8, <1>11, PaymentEffectTransitive
<1>13. PaymentEffect(chain, g, all, r)
  BY <1>10, <1>12
<1>14. g.delegated = chain.delegated /\ g.unbonding = chain.unbonding
  BY <1>2, <1>6, <1>8 DEF SameStake
<1>15. ASSUME NEW u \in Validators
       PROVE  g.accrued[u] = IF u <= v /\ chain.delegated[u] > 0 THEN 0 ELSE chain.accrued[u]
  <2>1. g.accrued[u] = e.accrued[u]
    BY <1>8 DEF SameStake
  <2>2. CASE u = v
    BY <1>1, <1>6, <2>1, <2>2
  <2>3. CASE u # v
    <3>1. e.accrued[u] = d.accrued[u] /\ (u <= v - 1 <=> u <= v)
      BY <1>1, <1>6, <2>3
    <3>. QED
      BY <1>2, <2>1, <3>1
  <2>. QED
    BY <2>2, <2>3
<1>. QED
  BY <1>13, <1>14, <1>15 DEF PaidUpto, r, all

LEMMA TwoMoreMessages ==
    ASSUME NEW T, NEW s \in Seq(T), NEW a \in T, NEW b \in T, NEW c, NEW d \in Run(c, s \o <<a, b>>)
    PROVE  /\ s \o <<a, b>> \in Seq(T)
           /\ \E e \in Run(c, s) : \E g \in Exec(e, a) : d \in Exec(g, b)
<1>1. s \o <<a, b>> = Append(Append(s, a), b) /\ Append(s, a) \in Seq(T)
      /\ s \o <<a, b>> \in Seq(T)
  OBVIOUS
<1>2. Run(c, Append(Append(s, a), b)) = ExecAll(ExecAll(Run(c, s), a), b)
  <2>. DEFINE r == Append(s, a)
  <2>1. r \in Seq(T) /\ Run(c, r) = ExecAll(Run(c, s), a)
    BY <1>1, RunSnoc
  <2>. HIDE DEF r
  <2>2. Run(c, Append(r, b)) = ExecAll(Run(c, r), b)
    BY <2>1, RunSnoc
  <2>. QED
    BY <2>1, <2>2 DEF r
<1>3. d \in ExecAll(ExecAll(Run(c, s), a), b)
  BY <1>1, <1>2
<1>4. PICK g \in ExecAll(Run(c, s), a) : d \in Exec(g, b)
  BY <1>3 DEF ExecAll
<1>5. PICK e \in Run(c, s) : g \in Exec(e, a)
  BY <1>4 DEF ExecAll
<1>. QED
  BY <1>1, <1>4, <1>5

LEMMA RewardsPaid ==
    ASSUME chain \in ChainState, staking_reward_address \in Address, NEW w \in Nat,
           NEW d \in Run(chain, RewardMsgs(w))
    PROVE  PaidUpto(d, w, NumValidators)
<1>. DEFINE Paid(s, v) == s \in Seq(RewardMessage) /\ \A e \in Run(chain, s) : PaidUpto(e, w, v)
<1>1. PICK f : MsgsUpto(f, w, NumValidators) /\ RewardMsgs(w) = f[NumValidators]
  BY RewardMsgsIsLast
<1>2. /\ NumValidators \in Nat /\ Validators = 1..NumValidators
      /\ f[0] = FirstRewards(w)
      /\ \A v \in 1..NumValidators : f[v] = NextRewards(f[v - 1], v)
  BY <1>1, MsgsUptoUnfolded, TreasuryAssumption DEF Validators
<1>3. Paid(f[0], 0)
  <2>1. FirstRewards(w) \in Seq(RewardMessage)
    <3>1. SendMsg(staking_reward_address, w) \in RewardMessage
      BY DEF SendMsg, RewardMessage
    <3>. QED
      BY <3>1 DEF FirstRewards
  <2>. QED
    BY <1>2, <2>1, FirstRewardsPaid
<1>4. ASSUME NEW v \in 1..NumValidators, Paid(f[v - 1], v - 1)
      PROVE  Paid(f[v], v)
  <2>. DEFINE s == f[v - 1]
  <2>1. v \in Validators /\ f[v] = NextRewards(s, v)
    BY <1>2
  <2>2. s \in Seq(RewardMessage) /\ \A e \in Run(chain, s) : PaidUpto(e, w, v - 1)
    BY <1>4
  <2>. HIDE DEF s
  <2>3. CASE v \in AllDelegatedValidators
    <3>. DEFINE a == WithdrawRewardMsg(v)
                b == SendMsg(staking_reward_address, DelegationRewards(v))
    <3>1. a \in RewardMessage /\ b \in RewardMessage
      <4>1. chain.accrued[v] \in Nat
        BY <2>1, ChainAmounts
      <4>. QED
        BY <2>1, <4>1 DEF RewardMessage, WithdrawRewardMsg, SendMsg, DelegationRewards
    <3>2. f[v] = s \o <<a, b>>
      BY <2>1, <2>3 DEF NextRewards, WithdrawDelegationRewards
    <3>3. f[v] \in Seq(RewardMessage)
      <4>. HIDE DEF a, b
      <4>. QED
        BY <2>2, <3>1, <3>2
    <3>4. ASSUME NEW e \in Run(chain, f[v]) PROVE PaidUpto(e, w, v)
      <4>1. \E p \in Run(chain, s) : \E g \in Exec(p, a) : e \in Exec(g, b)
        <5>. HIDE DEF a, b
        <5>. QED
          BY <2>2, <3>1, <3>2, <3>4, TwoMoreMessages
      <4>2. PICK p \in Run(chain, s) : \E g \in Exec(p, a) : e \in Exec(g, b)
        BY <4>1
      <4>3. PICK g \in Exec(p, a) : e \in Exec(g, b)
        BY <4>2
      <4>4. PaidUpto(p, w, v - 1)
        BY <2>2
      <4>. QED
        BY <2>1, <2>3, <4>3, <4>4, NextRewardsPaid
    <3>. QED
      BY <3>3, <3>4
  <2>4. CASE v \notin AllDelegatedValidators
    <3>1. f[v] = s
      BY <2>1, <2>4 DEF NextRewards
    <3>2. ~ (chain.delegated[v] > 0)
      BY <2>1, <2>4 DEF AllDelegatedValidators
    <3>3. ASSUME NEW e, PaidUpto(e, w, v - 1) PROVE PaidUpto(e, w, v)
      <4>1. \A u \in Validators : u <= v /\ chain.delegated[u] > 0
                                    <=> u <= v - 1 /\ chain.delegated[u] > 0
        <5>1. \A u \in Validators : u \in Nat
          BY <1>2
        <5>2. \A u \in Validators : u # v => (u <= v <=> u <= v - 1)
          BY <5>1
        <5>3. ~ (v <= v - 1)
          OBVIOUS
        <5>. QED
          BY <3>2, <5>2, <5>3
      <4>. QED
        BY <3>3, <4>1 DEF PaidUpto
    <3>. QED
      BY <2>2, <3>1, <3>3
  <2>. QED
    BY <2>3, <2>4
<1>. DEFINE Bad == {v \in 0..NumValidators : ~ Paid(f[v], v)}
<1>5. ASSUME Bad # {} PROVE FALSE
  <2>1. PICK v \in Bad : \A u \in Bad : v <= u
    <3>1. Bad \in SUBSET Nat
      BY <1>2
    <3>. HIDE DEF Bad
    <3>. QED
      BY <1>5, <3>1, LeastElement, Zenon
  <2>. HIDE DEF Paid
  <2>2. v \in 0..NumValidators /\ ~ Paid(f[v], v)
    OBVIOUS
  <2>3. v # 0
    BY <1>3, <2>2
  <2>4. v \in 1..NumValidators /\ v - 1 \in 0..NumValidators /\ ~ (v <= v - 1)
    BY <1>2, <2>2, <2>3
  <2>5. v - 1 \notin Bad
    <3>. HIDE DEF Bad
    <3>. QED
      BY <2>1, <2>4
  <2>6. Paid(f[v - 1], v - 1)
    BY <2>4, <2>5
  <2>. QED
    BY <1>4, <2>2, <2>4, <2>6
<1>6. Paid(f[NumValidators], NumValidators)
  <2>. HIDE DEF Paid
  <2>. QED
    BY <1>2, <1>5
<1>. QED
  BY <1>1, <1>6

\* All of them: what is booked is what is paid, and nothing is left on its way.
LEMMA RewardsEffect ==
    ASSUME chain \in ChainState, AccruedAtDelegations(chain), staking_reward_address \in Address,
           NEW w \in Nat, NEW d \in Run(chain, RewardMsgs(w))
    PROVE  /\ PaymentEffect(chain, d, RewardTotal(w), staking_reward_address)
           /\ Pending(d) = 0 /\ RewardTotal(w) = w + Pending(chain) /\ Pending(chain) \in Nat
           /\ d.delegated = chain.delegated /\ d.unbonding = chain.unbonding
<1>1. PaidUpto(d, w, NumValidators)
  BY RewardsPaid
<1>2. /\ chain.delegated \in [Validators -> Nat] /\ chain.accrued \in [Validators -> Nat]
      /\ Pending(chain) \in Nat
  BY ChainAmounts
<1>3. d \in ChainState /\ d.accrued \in [Validators -> Nat] /\ Pending(d) = SumOver(d.accrued)
  BY <1>1, ChainAmounts DEF PaidUpto, PaymentEffect
<1>4. \A u \in Validators : d.accrued[u] = 0
  <2>. SUFFICES ASSUME NEW u \in Validators PROVE d.accrued[u] = 0
    OBVIOUS
  <2>1. u <= NumValidators
    BY TreasuryAssumption DEF Validators
  <2>2. chain.delegated[u] > 0 \/ chain.accrued[u] = 0
    BY <1>2 DEF AccruedAtDelegations
  <2>. QED
    BY <1>1, <2>1, <2>2 DEF PaidUpto
<1>5. Pending(d) = 0
  BY <1>3, <1>4, SumOverNothing
<1>6. RewardTotal(w) = w + Pending(chain)
  <2>. DEFINE g == [v \in Validators |-> IF v \in AllDelegatedValidators THEN DelegationRewards(v) ELSE 0]
  <2>1. \A v \in Validators : g[v] = chain.accrued[v]
    BY <1>2 DEF AccruedAtDelegations, AllDelegatedValidators, DelegationRewards
  <2>2. g = chain.accrued
    BY <1>2, <2>1
  <2>3. RewardTotal(w) = w + SumOver(g)
    BY Zenon DEF RewardTotal
  <2>. QED
    BY <2>2, <2>3, Zenon DEF Pending
<1>. QED
  BY <1>1, <1>2, <1>5, <1>6 DEF PaidUpto
=============================================================================
