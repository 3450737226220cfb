------------------------- MODULE InstantiationProofs -------------------------
(***************************************************************************)
(* Theorems about instantiate (Instantiation), for plans of any length,    *)
(* amounts, times and funds: an accepted plan is one the vesting schedule  *)
(* can start from, and the deposit covers it unless its sum wraps around.  *)
(***************************************************************************)
EXTENDS Instantiation, SumProofs

(***************************************************************************)
(* Arithmetic.                                                             *)
(***************************************************************************)

LEMMA Division ==
    ASSUME NEW n \in Nat, NEW d \in Nat \ {0}
    PROVE  /\ n \div d \in Nat /\ n % d \in Nat
           /\ n = d * (n \div d) + (n % d) /\ n % d < d
OBVIOUS

LEMMA Remainder ==
    ASSUME NEW n \in Nat, NEW d \in Nat \ {0}
    PROVE  /\ n % d \in Nat /\ n % d <= n
           /\ n < d => n % d = n
OBVIOUS

\* Whole seconds apart by no more than some, moments are apart by less than one more.
LEMMA SecondsApart ==
    ASSUME NEW t \in Nat, NEW b \in Nat, NEW h \in Nat, NEW d \in Nat \ {0},
           t \div d <= (b \div d) + h
    PROVE  t - b < (h + 1) * d
<1>. DEFINE q == t \div d
            p == b \div d
<1>1. /\ q \in Nat /\ p \in Nat /\ q <= p + h
      /\ t < d * q + d /\ d * p <= b
  <2>1. t \div d \in Nat /\ t % d \in Nat /\ t = d * (t \div d) + (t % d) /\ t % d < d
    BY Division
  <2>2. b \div d \in Nat /\ b % d \in Nat /\ b = d * (b \div d) + (b % d)
    BY Division
  <2>. QED
    BY <2>1, <2>2
<1>. HIDE DEF q, p
<1>2. d * q <= d * (p + h)
  BY <1>1
<1>3. d * (p + h) = d * p + d * h /\ (h + 1) * d = d * h + d
  BY <1>1
<1>4. d * q \in Int /\ d * p \in Int /\ d * h \in Int
  BY <1>1
<1>. QED
  BY <1>1, <1>2, <1>3, <1>4
-----------------------------------------------------------------------------
(***************************************************************************)
(* What instantiate stores.                                                *)
(***************************************************************************)

Accepts(msg, funds) ==
    /\ RolesFilled(msg)
    /\ msg.admin_voting_threshold_percentage <= 100
    /\ Validate(msg, funds)

Stored(msg, funds) ==
    [admins             |-> msg.admins,
     ops                |-> msg.ops,
     vesting_timestamps |-> msg.vesting_timestamps,
     vesting_amounts    |-> msg.vesting_amounts,
     total_amount       |-> WrappingSum(msg.vesting_amounts),
     threshold          |-> msg.admin_voting_threshold_percentage,
     bank               |-> funds[msg.denom]]

\* Inductive: what is stored is what instantiate makes of a message it accepts in this
\* block.
AsAccepted ==
    /\ block_time \in BlockTimes
    /\ Instantiated =>
          \E msg \in InstantiateMsg, funds \in Funds :
              Accepts(msg, funds) /\ contract = Stored(msg, funds)

LEMMA AcceptedNext == AsAccepted /\ [InstantiationNext]_vars => AsAccepted'
<1>. SUFFICES ASSUME AsAccepted, [InstantiationNext]_vars
              PROVE  AsAccepted'
  OBVIOUS
<1>1. ASSUME block_time' = block_time
      PROVE  \A msg, funds : Accepts(msg, funds) => Accepts(msg, funds)'
  BY <1>1 DEF Accepts, Validate, ValidateTimestamps, Horizon
<1>2. \A msg, funds : Stored(msg, funds)' = Stored(msg, funds)
  OBVIOUS
<1>3. ASSUME NEW msg \in InstantiateMsg, NEW funds \in Funds, Instantiate(msg, funds)
      PROVE  AsAccepted'
  <2>1. Accepts(msg, funds) /\ block_time' = block_time /\ contract' = Stored(msg, funds)
    BY <1>3 DEF Instantiate, Accepts, Stored
  <2>. QED
    BY <1>1, <2>1 DEF AsAccepted, Stored
<1>4. CASE UNCHANGED vars
  <2>1. block_time' = block_time /\ contract' = contract
    BY <1>4 DEF vars
  <2>. QED
    BY <1>1, <1>2, <2>1 DEF AsAccepted, Instantiated
<1>. QED
  BY <1>3, <1>4 DEF InstantiationNext

LEMMA ContractAsAccepted == InstantiationSpec => []AsAccepted
<1>1. InstantiationInit => AsAccepted
  BY DEF InstantiationInit, AsAccepted, Instantiated
<1>. QED
  BY <1>1, AcceptedNext, PTL DEF InstantiationSpec

(***************************************************************************)
(* What Tranche::validate lets pass.                                       *)
(***************************************************************************)

LEMMA ListsAreSequences ==
    ASSUME NEW S \in SUBSET Nat, NEW list \in Lists(S)
    PROVE  list \in Seq(Nat) /\ \A i \in DOMAIN list : list[i] \in S
<1>1. PICK n \in 0..MaxLength : list \in [1..n -> S]
  BY DEF Lists
<1>2. n \in Nat /\ list \in [1..n -> Nat]
  <2>1. MaxLength \in Nat
    BY InstantiationAssumption
  <2>2. n \in Nat
    BY <2>1
  <2>3. \A i \in 1..n : list[i] \in Nat
    BY <1>1
  <2>. QED
    BY <1>1, <2>2, <2>3
<1>. QED
  BY <1>1, <1>2

LEMMA MsgTypes ==
    ASSUME NEW msg \in InstantiateMsg, NEW funds \in Funds
    PROVE  /\ msg.admins \in SUBSET Addresses /\ msg.ops \in SUBSET Addresses
           /\ msg.admin_voting_threshold_percentage \in Nat
           /\ msg.vesting_timestamps \in Seq(Nat) /\ msg.vesting_amounts \in Seq(Nat)
           /\ msg.vesting_amounts \in Lists(PlanAmounts)
           /\ funds[msg.denom] \in FundAmounts
<1>1. /\ msg.vesting_timestamps \in Lists(Timestamps) /\ msg.vesting_amounts \in Lists(PlanAmounts)
      /\ msg.admins \in SUBSET Addresses /\ msg.ops \in SUBSET Addresses
      /\ msg.admin_voting_threshold_percentage \in Percentages /\ msg.denom \in Denoms
  BY DEF InstantiateMsg
<1>2. Timestamps \in SUBSET Nat /\ PlanAmounts \in SUBSET Nat /\ Percentages \in SUBSET Nat
  BY InstantiationAssumption
<1>3. funds[msg.denom] \in FundAmounts
  BY <1>1 DEF Funds
<1>. QED
  BY <1>1, <1>2, <1>3, ListsAreSequences

\* The loop compares neighbours; the times increase all along.
LEMMA TimesIncrease ==
    ASSUME NEW times \in Seq(Nat), ValidateTimestamps(times),
           NEW i \in DOMAIN times, NEW j \in DOMAIN times, i < j
    PROVE  times[i] < times[j]
<1>. DEFINE Bad == {n \in DOMAIN times : i < n /\ ~ (times[i] < times[n])}
<1>1. Bad \in SUBSET Nat
  OBVIOUS
<1>2. SUFFICES ASSUME Bad # {} PROVE FALSE
  OBVIOUS
<1>3. PICK n \in Bad : \A m \in Bad : n <= m
  BY <1>1, <1>2, LeastElement, Zenon
<1>4. n \in DOMAIN times /\ i < n /\ ~ (times[i] < times[n])
  OBVIOUS
<1>5. /\ n - 1 \in DOMAIN times /\ n # 1 /\ ~ (n <= n - 1) /\ (i = n - 1 \/ i < n - 1)
      /\ times[i] \in Nat /\ times[n - 1] \in Nat /\ times[n] \in Nat
  BY <1>4
<1>6. times[n - 1] < times[n]
  BY <1>4, <1>5 DEF ValidateTimestamps
<1>7. n - 1 \notin Bad
  <2>. HIDE DEF Bad
  <2>. QED
    BY <1>3, <1>5
<1>8. i < n - 1 => times[i] < times[n - 1]
  BY <1>5, <1>7
<1>. QED
  BY <1>4, <1>5, <1>6, <1>8
-----------------------------------------------------------------------------
(***************************************************************************)
(* What holds of every contract.                                           *)
(***************************************************************************)

\* A contract has an administrator and an operator, and a threshold that is a percentage.
THEOREM InstantiationIsTyped == InstantiationSpec => []InstantiationTypeOK
<1>1. ASSUME AsAccepted PROVE InstantiationTypeOK
  <2>1. CASE ~Instantiated
    BY <1>1, <2>1 DEF AsAccepted, InstantiationTypeOK
  <2>2. CASE Instantiated
    <3>1. PICK msg \in InstantiateMsg, funds \in Funds :
             Accepts(msg, funds) /\ contract = Stored(msg, funds)
      BY <1>1, <2>2 DEF AsAccepted
    <3>2. Total(msg.vesting_amounts) \in Nat
      BY MsgTypes, SumIsNat
    <3>3. WrappingSum(msg.vesting_amounts) \in Nat
      BY <3>2, Remainder, InstantiationAssumption DEF WrappingSum
    <3>. DEFINE threshold == msg.admin_voting_threshold_percentage
    <3>4. msg.admins # {} /\ msg.ops # {} /\ threshold <= 100 /\ threshold \in Nat
      BY <3>1, MsgTypes, Zenon DEF Accepts, RolesFilled
    <3>5. threshold \in 0..100
      BY <3>4
    <3>. QED
      BY <1>1, <3>1, <3>3, <3>4, <3>5, MsgTypes DEF AsAccepted, InstantiationTypeOK, Stored
  <2>. QED
    BY <2>1, <2>2
<1>. QED
  BY <1>1, ContractAsAccepted, PTL

\* Every accepted plan is a schedule: its two lists have one length, no entry is of
\* nothing, its times increase, and none is before the block.
THEOREM AcceptedIsSchedule == InstantiationSpec => []PlanIsSchedule
<1>1. ASSUME AsAccepted, Instantiated PROVE PlanIsSchedule
  <2>1. PICK msg \in InstantiateMsg, funds \in Funds :
           Accepts(msg, funds) /\ contract = Stored(msg, funds)
    BY <1>1 DEF AsAccepted
  <2>. DEFINE times == msg.vesting_timestamps
              amounts == msg.vesting_amounts
  <2>2. /\ contract.vesting_timestamps = times /\ contract.vesting_amounts = amounts
        /\ times \in Seq(Nat) /\ amounts \in Seq(Nat)
    BY <2>1, MsgTypes DEF Stored
  <2>3. /\ Len(amounts) = Len(times) /\ amounts # <<>>
        /\ \A i \in DOMAIN amounts : amounts[i] # 0
        /\ ValidateTimestamps(times)
    BY <2>1 DEF Accepts, Validate
  <2>. HIDE DEF times, amounts
  <2>4. times # <<>> /\ DOMAIN times = DOMAIN amounts
    BY <2>2, <2>3
  <2>5. \A i \in DOMAIN amounts : amounts[i] > 0 /\ times[i] >= block_time
    BY <2>2, <2>3, <2>4 DEF ValidateTimestamps
  <2>6. \A i, j \in DOMAIN times : i < j => times[i] < times[j]
    BY <2>2, <2>3, TimesIncrease
  <2>. QED
    BY <2>2, <2>3, <2>4, <2>5, <2>6 DEF PlanIsSchedule
<1>2. AsAccepted => PlanIsSchedule
  BY <1>1 DEF PlanIsSchedule
<1>. QED
  BY <1>2, ContractAsAccepted, PTL

\* Every coin of an accepted plan vests within a hundred years and a second.
THEOREM AcceptedWithinHundredYears == InstantiationSpec => []PlanWithinHundredYears
<1>1. ASSUME AsAccepted, Instantiated,
             NEW i \in DOMAIN contract.vesting_timestamps
      PROVE  contract.vesting_timestamps[i] - block_time < (HundredYears + 1) * NanosPerSecond
  <2>1. PICK msg \in InstantiateMsg, funds \in Funds :
           Accepts(msg, funds) /\ contract = Stored(msg, funds)
    BY <1>1 DEF AsAccepted
  <2>2. /\ contract.vesting_timestamps = msg.vesting_timestamps
        /\ msg.vesting_timestamps \in Seq(Nat)
    BY <2>1, MsgTypes DEF Stored
  <2>. DEFINE t == contract.vesting_timestamps[i]
  <2>3. t \in Nat /\ block_time \in Nat /\ HundredYears \in Nat /\ NanosPerSecond \in Nat \ {0}
    BY <1>1, <2>2, InstantiationAssumption DEF AsAccepted
  <2>4. t \div NanosPerSecond <= (block_time \div NanosPerSecond) + HundredYears
    BY <2>1, <2>2 DEF Accepts, Validate, ValidateTimestamps, Seconds, Horizon
  <2>. HIDE DEF t
  <2>5. t - block_time < (HundredYears + 1) * NanosPerSecond
    BY <2>3, <2>4, SecondsApart
  <2>. QED
    BY <2>5 DEF t
<1>2. AsAccepted => PlanWithinHundredYears
  BY <1>1 DEF PlanWithinHundredYears
<1>. QED
  BY <1>2, ContractAsAccepted, PTL

\* Nothing a deployer may ask for adds up to 2^128.
SumsFit == \A amounts \in Lists(PlanAmounts) : Total(amounts) < Modulus

\* It is enough that as many of the largest amount as a plan may have entries do not.
LEMMA AmountsFit ==
    ASSUME NEW most \in Nat, \A a \in PlanAmounts : a <= most, MaxLength * most < Modulus
    PROVE  SumsFit
<1>. SUFFICES ASSUME NEW amounts \in Lists(PlanAmounts)
              PROVE  Total(amounts) < Modulus
  BY DEF SumsFit
<1>. DEFINE S == SumOf(amounts)
            L == Len(amounts)
            Bad == {n \in 0..L : ~ (S[n] <= n * most)}
<1>1. amounts \in Seq(Nat) /\ \A i \in DOMAIN amounts : amounts[i] \in PlanAmounts
  BY InstantiationAssumption, ListsAreSequences
<1>2. PartialSums(S, amounts, L) /\ L \in Nat /\ DOMAIN amounts = 1..L
  BY <1>1, SumOfIsPartialSums
<1>3. L <= MaxLength /\ MaxLength \in Nat /\ Modulus \in Nat
  <2>1. PICK n \in 0..MaxLength : amounts \in [1..n -> PlanAmounts]
    BY DEF Lists
  <2>2. MaxLength \in Nat /\ Modulus \in Nat
    BY InstantiationAssumption
  <2>3. n \in Nat /\ L = n
    BY <2>1, <2>2
  <2>. QED
    BY <2>1, <2>2, <2>3
<1>4. Bad = {}
  <2>. SUFFICES ASSUME Bad # {} PROVE FALSE
    OBVIOUS
  <2>1. PICK n \in Bad : \A m \in Bad : n <= m
    <3>1. Bad \in SUBSET Nat
      OBVIOUS
    <3>. QED
      BY <3>1, LeastElement, Zenon
  <2>2. n \in 0..L /\ n \in Nat /\ ~ (S[n] <= n * most)
    OBVIOUS
  <2>3. n # 0
    <3>1. S[0] = 0
      BY <1>2 DEF PartialSums
    <3>. QED
      BY <2>2, <3>1
  <2>4. n - 1 \in 0..L /\ ~ (n <= n - 1) /\ n \in 1..L
    BY <2>2, <2>3
  <2>5. S[n - 1] <= (n - 1) * most
    <3>1. n - 1 \notin Bad
      <4>. HIDE DEF Bad
      <4>. QED
        BY <2>1, <2>4
    <3>. QED
      BY <2>4, <3>1
  <2>6. S[n] = S[n - 1] + amounts[n] /\ S[n - 1] \in Nat /\ amounts[n] \in Nat
    BY <1>2, <2>4 DEF PartialSums
  <2>7. amounts[n] <= most
    BY <1>1, <1>2, <2>4
  <2>8. (n - 1) * most + most = n * most
    BY <2>2
  <2>9. (n - 1) * most \in Int /\ n * most \in Int
    BY <2>2
  <2>. HIDE DEF Bad, S
  <2>. QED
    BY <2>2, <2>5, <2>6, <2>7, <2>8, <2>9
<1>5. S[L] <= L * most /\ S[L] \in Nat
  <2>1. L \in 0..L /\ L \notin Bad
    BY <1>2, <1>4
  <2>. QED
    BY <1>2, <2>1 DEF PartialSums
<1>6. L * most <= MaxLength * most
  BY <1>2, <1>3
<1>7. L * most \in Int /\ MaxLength * most \in Int
  BY <1>2, <1>3
<1>8. Total(amounts) = S[L]
  BY Zenon DEF Total
<1>. HIDE DEF S, L
<1>. QED
  BY <1>3, <1>5, <1>6, <1>7, <1>8

\* Unless the sum of its amounts wraps around, a plan is accepted only with the coins to
\* pay all of it, in its own denom, and TOTAL_AMOUNT is its sum.
THEOREM AcceptedIsFunded ==
    ASSUME SumsFit
    PROVE  InstantiationSpec => []PlanIsFunded
<1>1. ASSUME AsAccepted, Instantiated PROVE PlanIsFunded
  <2>1. PICK msg \in InstantiateMsg, funds \in Funds :
           Accepts(msg, funds) /\ contract = Stored(msg, funds)
    BY <1>1 DEF AsAccepted
  <2>2. Total(msg.vesting_amounts) \in Nat /\ Total(msg.vesting_amounts) < Modulus
    BY MsgTypes, SumIsNat DEF SumsFit
  <2>3. WrappingSum(msg.vesting_amounts) = Total(msg.vesting_amounts)
    BY <2>2, Remainder, InstantiationAssumption DEF WrappingSum
  <2>4. WrappingSum(msg.vesting_amounts) <= funds[msg.denom]
    BY <2>1 DEF Accepts, Validate, Deposited
  <2>. QED
    BY <2>1, <2>3, <2>4 DEF PlanIsFunded, Stored
<1>2. AsAccepted => PlanIsFunded
  BY <1>1 DEF PlanIsFunded
<1>. QED
  BY <1>2, ContractAsAccepted, PTL
=============================================================================
