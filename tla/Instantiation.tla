---------------------------- MODULE Instantiation ----------------------------
(***************************************************************************)
(* How a contract comes to be: instantiate (contract.rs) and the           *)
(* validation of its vesting plan (data_structure.rs).  The other modules  *)
(* start from a contract this one accepts; the properties here are what    *)
(* they take for granted about it.                                         *)
(***************************************************************************)
EXTENDS Sums, FiniteSetsExt

CONSTANTS
    Addresses,          \* bound: the addresses a message names
    Denoms,
    Timestamps,         \* bound: the nanosecond timestamps a plan names
    PlanAmounts,        \* bound: the amounts a plan names
    FundAmounts,        \* bound: the coins sent along, per denom
    MaxLength,          \* bound: the entries of a plan
    Percentages,        \* bound: the voting thresholds asked for
    BlockTimes,         \* bound: the block's nanosecond timestamps
    NanosPerSecond,
    HundredYears,       \* in seconds
    Modulus             \* 2^128: the release build's sums wrap around

ASSUME InstantiationAssumption ==
    /\ Timestamps \cup PlanAmounts \cup FundAmounts \cup Percentages \cup BlockTimes \subseteq Nat
    /\ {MaxLength, HundredYears} \subseteq Nat
    /\ {NanosPerSecond, Modulus} \subseteq Nat \ {0}

VARIABLES
    block_time,         \* env.block.time of the one block modelled
    contract            \* what has been stored, NotInstantiated before

vars == <<block_time, contract>>

NotInstantiated == [admins |-> {}]

Lists(S) == UNION {[1..n -> S] : n \in 0..MaxLength}

\* The messages and funds (coins per denom) a deployer may send.  The voting period and
\* the payout addresses are stored as they come, and left out.
InstantiateMsg ==
    [admins : SUBSET Addresses, ops : SUBSET Addresses, denom : Denoms,
     vesting_timestamps : Lists(Timestamps), vesting_amounts : Lists(PlanAmounts),
     admin_voting_threshold_percentage : Percentages]
Funds == [Denoms -> FundAmounts]

\* A u128 sum as the code computes it: each addition wraps.
WrappingSum(amounts) == Total(amounts) % Modulus

Seconds(nanos) == nanos \div NanosPerSecond

\* The latest second a plan may name.
FaultHorizon == block_time + HundredYears     \* nanoseconds taken for seconds
Horizon == Seconds(block_time) + HundredYears

FaultValidateTimestamps(timestamps) ==
    \A i \in DOMAIN timestamps :
        /\ timestamps[i] > 0
        /\ timestamps[i] >= block_time
        /\ Seconds(timestamps[i]) <= Horizon

ValidateTimestamps(timestamps) ==
    \A i \in DOMAIN timestamps :
        /\ timestamps[i] > (IF i = 1 THEN 0 ELSE timestamps[i - 1])
        /\ timestamps[i] >= block_time
        /\ Seconds(timestamps[i]) <= Horizon

\* The deposit of any denom taken for the plan's.
FaultDeposited(funds, denom) == MapThenSumSet(LAMBDA d : funds[d], Denoms)
Deposited(funds, denom) == funds[denom]

Validate(msg, funds) ==
    /\ Len(msg.vesting_amounts) = Len(msg.vesting_timestamps)
    /\ msg.vesting_amounts # <<>>
    /\ \A i \in DOMAIN msg.vesting_amounts : msg.vesting_amounts[i] # 0
    /\ WrappingSum(msg.vesting_amounts) <= Deposited(funds, msg.denom)
    /\ ValidateTimestamps(msg.vesting_timestamps)

FaultRolesFilled(msg) == msg.admins # {}
RolesFilled(msg) == msg.admins # {} /\ msg.ops # {}

\* instantiate; the funds are on the contract's account once it succeeds.
Instantiate(msg, funds) ==
    /\ RolesFilled(msg)
    /\ msg.admin_voting_threshold_percentage <= 100
    /\ Validate(msg, funds)
    /\ contract' = [admins             |-> msg.admins,
                    ops                |-> msg.ops,
                    vesting_timestamps |-> msg.vesting_timestamps,
                    vesting_amounts    |-> msg.vesting_amounts,
                    total_amount       |-> WrappingSum(msg.vesting_amounts),
                    threshold          |-> msg.admin_voting_threshold_percentage,
                    bank               |-> funds[msg.denom]]
    /\ UNCHANGED block_time

InstantiationInit ==
    /\ block_time \in BlockTimes
    /\ contract = NotInstantiated

InstantiationNext ==
    /\ contract = NotInstantiated
    /\ \E msg \in InstantiateMsg, funds \in Funds : Instantiate(msg, funds)

InstantiationSpec == InstantiationInit /\ [][InstantiationNext]_vars
-----------------------------------------------------------------------------
Instantiated == contract # NotInstantiated

\* The roles are filled and the numbers in their ranges.
InstantiationTypeOK ==
    /\ block_time \in BlockTimes
    /\ Instantiated =>
          /\ contract.admins \in (SUBSET Addresses) \ {{}}
          /\ contract.ops \in (SUBSET Addresses) \ {{}}
          /\ contract.threshold \in 0..100
          /\ contract.bank \in FundAmounts
          /\ contract.total_amount \in Nat

\* What Vesting assumes of a schedule holds of every accepted plan: two lists of one
\* length, no entry of nothing, every time later than the one before, none before the
\* block (Tranche::validate checks lengths, amounts and times in different loops).
PlanIsSchedule ==
    Instantiated =>
        LET timestamps == contract.vesting_timestamps
            amounts == contract.vesting_amounts
        IN  /\ Len(timestamps) = Len(amounts) /\ timestamps # <<>>
            /\ \A i \in DOMAIN amounts : amounts[i] > 0 /\ timestamps[i] >= block_time
            /\ \A i, j \in DOMAIN timestamps : i < j => timestamps[i] < timestamps[j]

\* test_validate_insufficient_deposit: a plan is accepted only with the coins to pay it,
\* all of its entries, in its own denom; TOTAL_AMOUNT is their sum.
PlanIsFunded ==
    Instantiated =>
        /\ Total(contract.vesting_amounts) <= contract.bank
        /\ contract.total_amount = Total(contract.vesting_amounts)

\* "Timestamp is too far in the future": every coin vests within a hundred years, give
\* or take the fraction of a second the comparison of whole seconds leaves.
PlanWithinHundredYears ==
    Instantiated =>
        \A i \in DOMAIN contract.vesting_timestamps :
            contract.vesting_timestamps[i] - block_time < (HundredYears + 1) * NanosPerSecond

\* CHANGELOG 0.1.5: "earliest must be later than current block time".
EarliestIsLater == Instantiated => contract.vesting_timestamps[1] > block_time
=============================================================================
