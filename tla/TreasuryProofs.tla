-------------------------- MODULE TreasuryProofs --------------------------
(***************************************************************************)
(* Theorems about the treasury: for any number of validators, addresses,   *)
(* operators and coins, and any schedule, every payment is booked, rewards *)
(* are never paid out of principal, and the treasury is a Custody.         *)
(*                                                                         *)
(* Every handler, and every event on the chain, is one of six kinds of     *)
(* step (FundsStep); what is proved is proved of these.  Who sends a       *)
(* message plays no part, so that the whole contract, where proposals      *)
(* decide, takes the same steps.                                           *)
(***************************************************************************)
EXTENDS ChainProofs

(***************************************************************************)
(* The invariant, in parts.                                                *)
(***************************************************************************)

FundsTyped ==
    /\ unlock_distribution_address \in Address /\ staking_reward_address \in Address
    /\ withdrawn_staking_rewards \in Nat
    /\ chain \in ChainState /\ EntriesOK(chain)
    /\ history \in [earned : 0..MaxReward, slashed : 0..MaxSlash, deposited : 0..MaxDeposit]

\* Rewards still accrued have been earned, and accrue at delegations only: the loop over
\* the delegated validators misses none.
RewardsAccounted ==
    AccruedAtDelegations(chain) /\ Pending(chain) <= history.earned

PaymentsBooked ==
    PaidTo(chain) + chain.returned
        = withdrawn_unlocked + withdrawn_locked + withdrawn_staking_rewards

\* Where every coin is that the plan, the delegations and others have ever brought in.
Ledger ==
    Assets(chain) + Pending(chain) + PaidTo(chain) + history.slashed
        = total_amount + history.earned + history.deposited

\* Inductive.  Type correctness needs RewardsAccounted; that no more goes out as rewards
\* than came in needs PaymentsBooked, Ledger and Solvent together; and Owed is a number
\* of coins because of Conservation, which BooksOK has.
FundsInv ==
    /\ BooksOK
    /\ FundsTyped
    /\ chain.returned <= MaxReturned
    /\ RewardsAccounted
    /\ PaymentsBooked
    /\ Ledger
    /\ Solvent

(***************************************************************************)
(* The kinds of step.                                                      *)
(***************************************************************************)

StakingStep ==
    /\ StakingEffect(chain, chain')
    /\ UNCHANGED <<books, addresses, withdrawn_staking_rewards, history>>

\* n coins of the schedule, booked as unlocked or as locked, are paid to an address.
PrincipalStep(n, to) ==
    /\ PaymentEffect(chain, chain', n, to)
    /\ Pending(chain') = Pending(chain)
    /\ n <= chain.bank[Self]
    /\ total_amount' = total_amount
    /\ \/ withdrawn_unlocked' = withdrawn_unlocked + n /\ withdrawn_locked' = withdrawn_locked
       \/ withdrawn_locked' = withdrawn_locked + n /\ withdrawn_unlocked' = withdrawn_unlocked
    /\ UNCHANGED <<addresses, withdrawn_staking_rewards, history>>

RewardStep ==
    LET n == CalculateWithdrawnRewards + Pending(chain)
    IN  /\ PaymentEffect(chain, chain', n, staking_reward_address)
        /\ Pending(chain') = 0
        /\ chain'.delegated = chain.delegated /\ chain'.unbonding = chain.unbonding
        /\ withdrawn_staking_rewards' = withdrawn_staking_rewards + n
        /\ UNCHANGED <<books, addresses, history>>

AddressStep ==
    /\ unlock_distribution_address' \in Address /\ staking_reward_address' \in Address
    /\ UNCHANGED <<books, withdrawn_staking_rewards, chain, history>>

\* e coins are earned, l lost by a slash, g given by others.
ChainStep(e, l, g) ==
    /\ chain' \in ChainState /\ EntriesOK(chain') /\ AccruedAtDelegations(chain')
    /\ chain'.returned = chain.returned
    /\ \A a \in Others : chain'.bank[a] = chain.bank[a]
    /\ Pending(chain') = Pending(chain) + e
    /\ Assets(chain') = Assets(chain) + g - l
    /\ history' = [earned |-> history.earned + e, slashed |-> history.slashed + l,
                   deposited |-> history.deposited + g]
    /\ history'.earned <= MaxReward /\ history'.slashed <= MaxSlash
    /\ history'.deposited <= MaxDeposit
    /\ UNCHANGED <<books, addresses, withdrawn_staking_rewards>>

QuietStep == UNCHANGED <<books, addresses, withdrawn_staking_rewards, chain, history>>

FundsStep ==
    \/ StakingStep
    \/ \E n \in Nat, to \in Address : PrincipalStep(n, to)
    \/ RewardStep
    \/ AddressStep
    \/ \E u \in {<<0, 0, 0>>, <<1, 0, 0>>, <<0, 1, 0>>, <<0, 0, 1>>} : ChainStep(u[1], u[2], u[3])
    \/ QuietStep

(***************************************************************************)
(* What calculate_withdrawn_rewards finds.                                 *)
(***************************************************************************)

MaxZero(n) == IF n > 0 THEN n ELSE 0

LEMMA FundsAmounts ==
    ASSUME BooksOK, chain \in ChainState
    PROVE  /\ total_amount \in Nat /\ withdrawn_unlocked \in Nat /\ withdrawn_locked \in Nat
           /\ Owed \in Nat /\ Owed = total_amount - withdrawn_unlocked - withdrawn_locked
           /\ Assets(chain) \in Nat /\ Pending(chain) \in Nat /\ PaidTo(chain) \in Nat
           /\ chain.bank[Self] \in Nat /\ chain.returned \in Nat
           /\ Staked(chain) \in Nat /\ UnbondingBalance \in Nat
           /\ Assets(chain) = chain.bank[Self] + Staked(chain) + UnbondingBalance
<1>1. /\ total_amount \in Nat /\ withdrawn_unlocked \in Nat /\ withdrawn_locked \in Nat
      /\ vesting_amounts \in Seq(Nat)
      /\ total_amount = withdrawn_unlocked + withdrawn_locked + Total(vesting_amounts)
  BY DEF BooksOK, VestingTypeOK, Conservation
<1>2. Total(vesting_amounts) \in Nat
  BY <1>1, SumIsNat
<1>3. Owed \in Nat
  BY <1>1, <1>2 DEF Owed
<1>4. PaidTo(chain) \in Nat
  <2>1. PaymentEffect(chain, chain, 0, Self)
    <3>1. StakingEffect(chain, chain)
      BY ChainAmounts DEF StakingEffect
    <3>. QED
      BY <3>1, StakingPaysNothing
  <2>. QED
    BY <2>1, PaymentIsReceived, PermissionAssumption
<1>. QED
  BY <1>1, <1>3, <1>4, ChainAmounts DEF Owed, UnbondingBalance

\* What is in the bank beyond the principal that should be there: all of what the
\* contract has beyond what it owes or, when that is staked or unbonding, all of the bank.
LEMMA WithdrawnRewards ==
    ASSUME BooksOK, chain \in ChainState
    PROVE  /\ CalculateWithdrawnRewards \in Nat
           /\ CalculateWithdrawnRewards <= MaxZero(Assets(chain) - Owed)
           /\ CalculateWithdrawnRewards <= chain.bank[Self]
           /\ Assets(chain) >= Owed =>
                 \/ CalculateWithdrawnRewards = Assets(chain) - Owed
                 \/ CalculateWithdrawnRewards = chain.bank[Self]
<1>. DEFINE bank == chain.bank[Self]
            staked == Staked(chain)
            unbonding == UnbondingBalance
            assets == Assets(chain)
            owed == Owed
            w == CalculateWithdrawnRewards
            elsewhere == withdrawn_locked + withdrawn_unlocked + staked + unbonding
            kept == IF elsewhere < total_amount THEN total_amount - elsewhere ELSE 0
<1>1. /\ total_amount \in Nat /\ withdrawn_unlocked \in Nat /\ withdrawn_locked \in Nat
      /\ bank \in Nat /\ staked \in Nat /\ unbonding \in Nat
      /\ assets = bank + staked + unbonding
      /\ owed = total_amount - withdrawn_unlocked - withdrawn_locked /\ owed \in Nat
  BY FundsAmounts
<1>2. w = IF kept < bank THEN bank - kept ELSE 0
  BY Zenon DEF CalculateWithdrawnRewards
<1>. SUFFICES /\ w \in Nat /\ w <= MaxZero(assets - owed) /\ w <= bank
              /\ assets >= owed => w = assets - owed \/ w = bank
  OBVIOUS
<1>. HIDE DEF bank, staked, unbonding, assets, owed, w
<1>3. CASE elsewhere < total_amount
  BY <1>1, <1>2, <1>3 DEF MaxZero
<1>4. CASE ~ (elsewhere < total_amount)
  BY <1>1, <1>2, <1>4 DEF MaxZero
<1>. QED
  BY <1>3, <1>4

(***************************************************************************)
(* Every kind of step keeps the invariant.                                 *)
(***************************************************************************)

\* The amounts before a step are numbers, and so are those after it.
LEMMA AmountsBefore ==
    ASSUME FundsInv
    PROVE  /\ total_amount \in Nat /\ withdrawn_unlocked \in Nat /\ withdrawn_locked \in Nat
           /\ withdrawn_staking_rewards \in Nat /\ chain \in ChainState
           /\ Owed \in Nat /\ Owed = total_amount - withdrawn_unlocked - withdrawn_locked
           /\ Assets(chain) \in Nat /\ Pending(chain) \in Nat /\ PaidTo(chain) \in Nat
           /\ chain.bank[Self] \in Nat /\ chain.bank[Self] <= Assets(chain)
           /\ chain.returned \in Nat
           /\ history.earned \in Nat /\ history.slashed \in Nat /\ history.deposited \in Nat
<1>1. BooksOK /\ chain \in ChainState /\ withdrawn_staking_rewards \in Nat
      /\ history.earned \in Nat /\ history.slashed \in Nat /\ history.deposited \in Nat
  BY TreasuryAssumption DEF FundsInv, FundsTyped
<1>. QED
  BY <1>1, FundsAmounts

LEMMA AmountsAfter ==
    ASSUME BooksOK', NEW c, c = chain', c \in ChainState
    PROVE  /\ Assets(c) \in Nat /\ Pending(c) \in Nat /\ c.bank[Self] \in Nat
           /\ Owed' \in Nat /\ Owed' = total_amount' - withdrawn_unlocked' - withdrawn_locked'
<1>1. /\ total_amount' \in Nat /\ withdrawn_unlocked' \in Nat /\ withdrawn_locked' \in Nat
      /\ vesting_amounts' \in Seq(Nat)
      /\ total_amount' = withdrawn_unlocked' + withdrawn_locked' + Total(vesting_amounts')
  BY DEF BooksOK, VestingTypeOK, Conservation
<1>2. Total(vesting_amounts') \in Nat
  BY <1>1, SumIsNat
<1>3. Owed' = total_amount' - withdrawn_unlocked' - withdrawn_locked'
  BY DEF Owed
<1>4. Owed' \in Nat
  <2>. DEFINE total == total_amount'
              unlocked == withdrawn_unlocked'
              locked == withdrawn_locked'
              left == Total(vesting_amounts')
              owed == Owed'
  <2>1. /\ total \in Nat /\ unlocked \in Nat /\ locked \in Nat /\ left \in Nat
        /\ total = unlocked + locked + left /\ owed = total - unlocked - locked
    BY <1>1, <1>2, <1>3
  <2>. SUFFICES owed \in Nat
    OBVIOUS
  <2>. HIDE DEF total, unlocked, locked, left, owed
  <2>. QED
    BY <2>1
<1>5. Assets(c) \in Nat /\ Pending(c) \in Nat /\ c.bank[Self] \in Nat
  BY ChainAmounts
<1>. QED
  BY <1>3, <1>4, <1>5

\* A payment of n coins, to whomever, leaves everything typed; only the accounts change.
LEMMA PaymentKeepsTypes ==
    ASSUME FundsInv, NEW n, NEW to, PaymentEffect(chain, chain', n, to),
           UNCHANGED <<addresses, history>>, withdrawn_staking_rewards' \in Nat
    PROVE  /\ FundsTyped' /\ chain'.returned <= MaxReturned /\ RewardsAccounted'
<1>1. /\ chain' \in ChainState /\ EntriesOK(chain') /\ chain'.returned <= MaxReturned
      /\ AccruedAtDelegations(chain') /\ Pending(chain') <= Pending(chain)
  BY DEF PaymentEffect, FundsInv, FundsTyped, RewardsAccounted
<1>2. FundsTyped'
  BY <1>1 DEF FundsInv, FundsTyped, addresses
<1>3. Pending(chain') <= history.earned
  <2>1. /\ Pending(chain') \in Nat /\ Pending(chain) \in Nat /\ history.earned \in Nat
        /\ Pending(chain) <= history.earned
    BY <1>1, AmountsBefore, ChainAmounts DEF FundsInv, RewardsAccounted
  <2>. QED
    BY <1>1, <2>1
<1>. QED
  BY <1>1, <1>2, <1>3 DEF RewardsAccounted

LEMMA StakingStepKeeps ==
    ASSUME FundsInv, StakingStep, BooksOK'
    PROVE  FundsInv'
<1>. DEFINE c == chain'
            pending == Pending(chain')
            assets == Assets(chain')
<1>1. PaymentEffect(chain, c, 0, Self) /\ c \in ChainState
  BY AmountsBefore, StakingPaysNothing DEF StakingStep, StakingEffect
<1>2. FundsTyped' /\ c.returned <= MaxReturned /\ RewardsAccounted'
  BY <1>1, PaymentKeepsTypes, AmountsBefore DEF StakingStep
<1>3. PaidTo(c) = PaidTo(chain) /\ c.returned = chain.returned
  <2>1. Share(Self # Self, 0) = 0
    BY DEF Share
  <2>2. PaidTo(c) = PaidTo(chain) + Share(Self # Self, 0) /\ PaidTo(chain) \in Nat
    BY <1>1, PaymentIsReceived, PermissionAssumption, AmountsBefore
  <2>. QED
    BY <2>1, <2>2 DEF StakingStep, StakingEffect
<1>4. PaymentsBooked'
  BY <1>3 DEF PaymentsBooked, FundsInv, StakingStep, books
<1>5. assets \in Nat /\ pending \in Nat /\ pending <= Pending(chain)
      /\ assets + pending = Assets(chain) + Pending(chain)
  BY <1>1, ChainAmounts DEF StakingStep, StakingEffect
<1>. HIDE DEF pending, assets
<1>6. Ledger'
  <2>1. assets + pending + PaidTo(chain) + history.slashed
            = total_amount + history.earned + history.deposited
    BY <1>5, AmountsBefore DEF FundsInv, Ledger
  <2>. QED
    BY <1>3, <2>1 DEF Ledger, StakingStep, books, assets, pending
<1>7. Solvent'
  <2>1. assets + history.slashed >= Owed
    BY <1>5, AmountsBefore DEF FundsInv, Solvent
  <2>2. Owed' = Owed
    BY DEF Owed, StakingStep, books
  <2>. QED
    BY <2>1, <2>2 DEF Solvent, StakingStep, assets
<1>. QED
  BY <1>2, <1>4, <1>6, <1>7 DEF FundsInv

LEMMA PrincipalStepKeeps ==
    ASSUME FundsInv, NEW n \in Nat, NEW to \in Address, PrincipalStep(n, to), BooksOK'
    PROVE  FundsInv'
<1>. DEFINE c == chain'
            share == Share(to # Self, n)
<1>1. PaymentEffect(chain, c, n, to) /\ c \in ChainState /\ Pending(c) = Pending(chain)
      /\ total_amount' = total_amount /\ history' = history
      /\ withdrawn_staking_rewards' = withdrawn_staking_rewards
      /\ withdrawn_unlocked' + withdrawn_locked' = withdrawn_unlocked + withdrawn_locked + n
  BY AmountsBefore DEF PrincipalStep, PaymentEffect
<1>2. FundsTyped' /\ c.returned <= MaxReturned /\ RewardsAccounted'
  BY <1>1, PaymentKeepsTypes, AmountsBefore DEF PrincipalStep
<1>3. /\ PaidTo(c) = PaidTo(chain) + share
      /\ PaidTo(c) + c.returned = PaidTo(chain) + chain.returned + n
  BY <1>1, PaymentIsReceived, AmountsBefore
<1>4. share \in Nat /\ share <= n
  BY DEF Share
<1>5. Assets(c) + Pending(c) + share = Assets(chain) + Pending(chain)
  BY <1>1 DEF PaymentEffect
<1>6. Assets(c) \in Nat /\ Owed' = total_amount' - withdrawn_unlocked' - withdrawn_locked'
  BY <1>1, AmountsAfter
<1>. HIDE DEF share
<1>7. PaymentsBooked'
  <2>1. PaidTo(c) + c.returned
            = withdrawn_unlocked' + withdrawn_locked' + withdrawn_staking_rewards'
    BY <1>1, <1>3, AmountsBefore DEF FundsInv, PaymentsBooked
  <2>. QED
    BY <2>1 DEF PaymentsBooked
<1>8. Ledger'
  <2>1. Assets(c) + Pending(c) + PaidTo(c) + history'.slashed
            = total_amount' + history'.earned + history'.deposited
    BY <1>1, <1>3, <1>4, <1>5, <1>6, AmountsBefore DEF FundsInv, Ledger
  <2>. QED
    BY <2>1 DEF Ledger
<1>9. Solvent'
  <2>1. withdrawn_unlocked' \in Nat /\ withdrawn_locked' \in Nat
    BY DEF BooksOK, VestingTypeOK
  <2>2. Assets(c) + history'.slashed >= Owed'
    BY <1>1, <1>4, <1>5, <1>6, <2>1, AmountsBefore DEF FundsInv, Solvent
  <2>. QED
    BY <2>2 DEF Solvent
<1>. QED
  BY <1>2, <1>7, <1>8, <1>9 DEF FundsInv

LEMMA RewardStepKeeps ==
    ASSUME FundsInv, RewardStep, BooksOK'
    PROVE  FundsInv'
<1>. DEFINE c == chain'
            w == CalculateWithdrawnRewards
            n == w + Pending(chain)
            to == staking_reward_address
            share == Share(to # Self, n)
<1>1. PaymentEffect(chain, c, n, to) /\ c \in ChainState /\ Pending(c) = 0
      /\ UNCHANGED books /\ history' = history /\ addresses' = addresses
      /\ withdrawn_staking_rewards' = withdrawn_staking_rewards + n
  BY DEF RewardStep, PaymentEffect
<1>2. w \in Nat /\ w <= MaxZero(Assets(chain) - Owed) /\ to \in Address
  BY WithdrawnRewards DEF FundsInv, FundsTyped
<1>3. n \in Nat
  BY <1>2, AmountsBefore
<1>4. FundsTyped' /\ c.returned <= MaxReturned /\ RewardsAccounted'
  <2>1. withdrawn_staking_rewards' \in Nat
    BY <1>1, <1>3, AmountsBefore
  <2>. QED
    BY <1>1, <2>1, PaymentKeepsTypes
<1>5. /\ PaidTo(c) = PaidTo(chain) + share
      /\ PaidTo(c) + c.returned = PaidTo(chain) + chain.returned + n
  BY <1>1, <1>2, <1>3, PaymentIsReceived, AmountsBefore
<1>6. share \in Nat /\ share <= n
  BY <1>3 DEF Share
<1>7. Assets(c) + Pending(c) + share = Assets(chain) + Pending(chain)
  BY <1>1 DEF PaymentEffect
<1>8. Assets(c) \in Nat
  BY <1>1, AmountsAfter
<1>9. n = w + Pending(chain)
  OBVIOUS
<1>. HIDE DEF share, n, w
<1>10. PaymentsBooked'
  <2>1. PaidTo(c) + c.returned
            = withdrawn_unlocked + withdrawn_locked + withdrawn_staking_rewards'
    BY <1>1, <1>3, <1>5, AmountsBefore DEF FundsInv, PaymentsBooked
  <2>. QED
    BY <1>1, <2>1 DEF PaymentsBooked, books
<1>11. Ledger'
  <2>1. Assets(c) + Pending(c) + PaidTo(c) + history'.slashed
            = total_amount + history'.earned + history'.deposited
    BY <1>1, <1>5, <1>6, <1>7, <1>8, AmountsBefore DEF FundsInv, Ledger
  <2>. QED
    BY <1>1, <2>1 DEF Ledger, books
<1>12. Solvent'
  <2>1. Assets(c) + history'.slashed >= Owed
    BY <1>1, <1>2, <1>6, <1>7, <1>8, <1>9, AmountsBefore DEF FundsInv, Solvent, MaxZero
  <2>2. Owed' = Owed
    BY <1>1 DEF Owed, books
  <2>. QED
    BY <2>1, <2>2 DEF Solvent
<1>. QED
  BY <1>4, <1>10, <1>11, <1>12 DEF FundsInv

\* Events on the chain pay nobody.
LEMMA SameOthersPaid ==
    ASSUME chain \in ChainState, chain' \in ChainState,
           \A a \in Others : chain'.bank[a] = chain.bank[a]
    PROVE  PaidTo(chain') = PaidTo(chain)
<1>1. AgreesOn(chain'.bank, chain.bank, Others)
  BY PermissionAssumption, FS_Subset DEF AgreesOn, Others
<1>2. PaidTo(chain') = SetSum(chain'.bank, Others) /\ PaidTo(chain) = SetSum(chain.bank, Others)
  BY Zenon DEF PaidTo, Others
<1>. QED
  BY <1>1, <1>2, SetSumAgree

LEMMA ChainStepKeeps ==
    ASSUME FundsInv, NEW e \in 0..1, NEW l \in 0..1, NEW g \in 0..1, ChainStep(e, l, g), BooksOK'
    PROVE  FundsInv'
<1>. DEFINE c == chain'
<1>1. /\ c \in ChainState /\ EntriesOK(c) /\ AccruedAtDelegations(c)
      /\ c.returned = chain.returned
      /\ Pending(c) = Pending(chain) + e /\ Assets(c) = Assets(chain) + g - l
      /\ UNCHANGED books /\ addresses' = addresses
      /\ withdrawn_staking_rewards' = withdrawn_staking_rewards
  BY DEF ChainStep
<1>2. /\ history'.earned = history.earned + e /\ history'.slashed = history.slashed + l
      /\ history'.deposited = history.deposited + g
      /\ history' \in [earned : 0..MaxReward, slashed : 0..MaxSlash, deposited : 0..MaxDeposit]
  <2>1. /\ history' = [earned |-> history.earned + e, slashed |-> history.slashed + l,
                        deposited |-> history.deposited + g]
        /\ history'.earned <= MaxReward /\ history'.slashed <= MaxSlash
        /\ history'.deposited <= MaxDeposit
    BY DEF ChainStep
  <2>2. /\ history'.earned = history.earned + e /\ history'.slashed = history.slashed + l
        /\ history'.deposited = history.deposited + g
    BY <2>1
  <2>3. /\ history.earned + e \in 0..MaxReward /\ history.slashed + l \in 0..MaxSlash
        /\ history.deposited + g \in 0..MaxDeposit
    BY <2>1, <2>2, AmountsBefore, TreasuryAssumption
  <2>. QED
    BY <2>1, <2>2, <2>3
<1>3. PaidTo(c) = PaidTo(chain)
  BY <1>1, AmountsBefore, SameOthersPaid DEF ChainStep
<1>4. Owed' = Owed
  BY <1>1 DEF Owed, books
<1>5. FundsTyped'
  BY <1>1, <1>2 DEF FundsInv, FundsTyped, addresses
<1>6. RewardsAccounted'
  <2>1. Pending(c) <= history'.earned
    BY <1>1, <1>2, AmountsBefore DEF FundsInv, RewardsAccounted
  <2>. QED
    BY <1>1, <2>1 DEF RewardsAccounted
<1>7. PaymentsBooked'
  BY <1>1, <1>3 DEF PaymentsBooked, FundsInv, books
<1>8. Ledger'
  <2>1. Assets(c) + Pending(c) + PaidTo(c) + history'.slashed
            = total_amount + history'.earned + history'.deposited
    BY <1>1, <1>2, <1>3, AmountsBefore DEF FundsInv, Ledger
  <2>. QED
    BY <1>1, <2>1 DEF Ledger, books
<1>9. Solvent'
  <2>1. Assets(c) + history'.slashed >= Owed
    BY <1>1, <1>2, AmountsBefore DEF FundsInv, Solvent
  <2>. QED
    BY <1>4, <2>1 DEF Solvent
<1>10. c.returned <= MaxReturned
  BY <1>1 DEF FundsInv
<1>. QED
  BY <1>5, <1>6, <1>7, <1>8, <1>9, <1>10 DEF FundsInv

LEMMA OthersKeep ==
    ASSUME FundsInv, AddressStep \/ QuietStep, BooksOK'
    PROVE  FundsInv'
<1>1. /\ UNCHANGED books /\ chain' = chain /\ history' = history
      /\ withdrawn_staking_rewards' = withdrawn_staking_rewards
      /\ unlock_distribution_address' \in Address /\ staking_reward_address' \in Address
  BY DEF AddressStep, QuietStep, addresses, FundsInv, FundsTyped
<1>2. FundsTyped' /\ RewardsAccounted'
  BY <1>1 DEF FundsInv, FundsTyped, RewardsAccounted
<1>3. PaymentsBooked' /\ Ledger' /\ Solvent'
  BY <1>1 DEF FundsInv, PaymentsBooked, Ledger, Solvent, Owed, books
<1>. QED
  BY <1>1, <1>2, <1>3 DEF FundsInv

LEMMA FundsStepKeeps ==
    ASSUME FundsInv, FundsStep, BooksOK'
    PROVE  FundsInv'
<1>1. ASSUME NEW u \in {<<0, 0, 0>>, <<1, 0, 0>>, <<0, 1, 0>>, <<0, 0, 1>>},
             ChainStep(u[1], u[2], u[3])
      PROVE  FundsInv'
  <2>1. u[1] \in 0..1 /\ u[2] \in 0..1 /\ u[3] \in 0..1
    OBVIOUS
  <2>. QED
    BY <1>1, <2>1, ChainStepKeeps
<1>. QED
  BY <1>1, StakingStepKeeps, PrincipalStepKeeps, RewardStepKeeps, OthersKeep DEF FundsStep

(***************************************************************************)
(* Every handler, and every event on the chain, takes such a step.         *)
(***************************************************************************)

\* What the handlers of staking leave alone.
StakingFrame == UNCHANGED <<roles, vestingVars, addresses, withdrawn_staking_rewards, history>>

LEMMA StakingFrameUnfolded ==
    ASSUME StakingFrame
    PROVE  UNCHANGED <<books, addresses, withdrawn_staking_rewards, history>>
BY Zenon DEF StakingFrame, vestingVars

LEMMA StakingHandlers ==
    ASSUME FundsInv, NEW sender, NEW v \in Validators, NEW dst \in Validators, NEW amount \in Nat,
           \/ ExecuteDelegate(sender, v, amount)
           \/ ExecuteUndelegate(sender, v, amount)
           \/ ExecuteRedelegate(sender, v, dst, amount)
    PROVE  StakingStep
<1>1. chain \in ChainState
  BY DEF FundsInv, FundsTyped
<1>2. CASE ExecuteDelegate(sender, v, amount)
  <2>1. chain' \in Exec(chain, DelegateMsg(v, amount)) /\ StakingFrame
    BY <1>2, RunOne DEF ExecuteDelegate, Dispatch, StakingFrame
  <2>. QED
    BY <1>1, <2>1, DelegateEffect, StakingFrameUnfolded DEF StakingStep
<1>3. CASE ExecuteUndelegate(sender, v, amount)
  <2>1. chain' \in Exec(chain, UndelegateMsg(v, amount)) /\ StakingFrame
    BY <1>3, RunOne DEF ExecuteUndelegate, Dispatch, StakingFrame
  <2>. QED
    BY <1>1, <2>1, UndelegateEffect, StakingFrameUnfolded DEF StakingStep
<1>4. CASE ExecuteRedelegate(sender, v, dst, amount)
  <2>1. chain' \in Exec(chain, RedelegateMsg(v, dst, amount)) /\ StakingFrame
    BY <1>4, RunOne DEF ExecuteRedelegate, Dispatch, StakingFrame
  <2>. QED
    BY <1>1, <2>1, RedelegateEffect, StakingFrameUnfolded DEF StakingStep
<1>. QED
  BY <1>2, <1>3, <1>4

LEMMA SendIsPrincipal ==
    ASSUME FundsInv, NEW to \in Address, NEW n \in Nat, Dispatch(<<SendMsg(to, n)>>)
    PROVE  /\ PaymentEffect(chain, chain', n, to) /\ Pending(chain') = Pending(chain)
           /\ n <= chain.bank[Self]
<1>1. chain \in ChainState /\ chain' \in Exec(chain, SendMsg(to, n))
  BY RunOne DEF FundsInv, FundsTyped, Dispatch
<1>2. PaymentEffect(chain, chain', n, to) /\ SameStake(chain, chain') /\ n <= chain.bank[Self]
  BY <1>1, SendEffect
<1>3. Pending(chain') = Pending(chain)
  BY <1>2 DEF SameStake, Pending
<1>. QED
  BY <1>2, <1>3

LEMMA WithdrawUnlockedHandler ==
    ASSUME FundsInv, NEW sender, NEW amount \in Nat,
           ExecuteInitiateWithdrawUnlocked(sender, amount)
    PROVE  PrincipalStep(amount, unlock_distribution_address)
<1>. DEFINE to == unlock_distribution_address
<1>1. chain \in ChainState /\ to \in Address
  BY DEF FundsInv, FundsTyped
<1>2. /\ total_amount' = total_amount /\ withdrawn_unlocked' = withdrawn_unlocked + amount
      /\ withdrawn_locked' = withdrawn_locked
      /\ UNCHANGED <<addresses, withdrawn_staking_rewards, history>>
      /\ Dispatch(DistributeVested(amount))
  BY DEF ExecuteInitiateWithdrawUnlocked, WithdrawUnlocked
<1>3. /\ PaymentEffect(chain, chain', amount, to) /\ Pending(chain') = Pending(chain)
      /\ amount <= chain.bank[Self]
  <2>1. CASE amount = 0
    <3>1. chain' = chain
      BY <1>2, <2>1, RunNothing DEF Dispatch, DistributeVested
    <3>2. StakingEffect(chain, chain)
      BY <1>1, ChainAmounts DEF StakingEffect
    <3>3. PaymentEffect(chain, chain, 0, to)
      BY <1>1, <3>2, StakingPaysNothing
    <3>. QED
      BY <2>1, <3>1, <3>3, AmountsBefore
  <2>2. CASE amount # 0
    <3>1. Dispatch(<<SendMsg(to, amount)>>)
      BY <1>2, <2>2 DEF DistributeVested
    <3>. QED
      BY <1>1, <3>1, SendIsPrincipal
  <2>. QED
    BY <2>1, <2>2
<1>. QED
  BY <1>2, <1>3 DEF PrincipalStep

LEMMA WithdrawLockedHandler ==
    ASSUME FundsInv, NEW dst \in Address, ExecuteInternalWithdrawLocked(Self, dst)
    PROVE  PrincipalStep(Total(vesting_amounts), dst) /\ Total(vesting_amounts) \in Nat
<1>1. Total(vesting_amounts) \in Nat
  <2>1. vesting_amounts \in Seq(Nat)
    BY DEF FundsInv, BooksOK, VestingTypeOK
  <2>. QED
    BY <2>1, SumIsNat
<1>2. /\ total_amount' = total_amount
      /\ withdrawn_locked' = withdrawn_locked + Total(vesting_amounts)
      /\ withdrawn_unlocked' = withdrawn_unlocked
      /\ UNCHANGED <<addresses, withdrawn_staking_rewards, history>>
      /\ Dispatch(<<SendMsg(dst, Total(vesting_amounts))>>)
  BY DEF ExecuteInternalWithdrawLocked, WithdrawLocked
<1>. QED
  BY <1>1, <1>2, SendIsPrincipal DEF PrincipalStep

LEMMA WithdrawRewardHandler ==
    ASSUME FundsInv, NEW sender, ExecuteInitiateWithdrawReward(sender)
    PROVE  RewardStep
<1>. DEFINE w == CalculateWithdrawnRewards
<1>1. /\ chain \in ChainState /\ AccruedAtDelegations(chain) /\ staking_reward_address \in Address
      /\ w \in Nat
  BY WithdrawnRewards DEF FundsInv, FundsTyped, RewardsAccounted
<1>2. /\ chain' \in Run(chain, RewardMsgs(w))
      /\ withdrawn_staking_rewards' = withdrawn_staking_rewards + RewardTotal(w)
      /\ UNCHANGED <<books, addresses, history>>
  BY Zenon DEF ExecuteInitiateWithdrawReward, Dispatch, vestingVars
<1>. HIDE DEF w
<1>3. /\ PaymentEffect(chain, chain', RewardTotal(w), staking_reward_address)
      /\ Pending(chain') = 0 /\ RewardTotal(w) = w + Pending(chain)
      /\ chain'.delegated = chain.delegated /\ chain'.unbonding = chain.unbonding
  BY <1>1, <1>2, RewardsEffect
<1>. QED
  BY <1>2, <1>3 DEF RewardStep, w

LEMMA AddressHandlers ==
    ASSUME FundsInv, NEW addr \in Address,
           \/ ExecuteInternalUpdateUnlockedDistributionAddress(Self, addr)
           \/ ExecuteInternalUpdateStakingRewardDistributionAddress(Self, addr)
    PROVE  AddressStep
BY DEF FundsInv, FundsTyped, AddressStep, vestingVars,
       ExecuteInternalUpdateUnlockedDistributionAddress,
       ExecuteInternalUpdateStakingRewardDistributionAddress

(***************************************************************************)
(* Events on the chain.                                                    *)
(***************************************************************************)

LEMMA HistoryUpdates ==
    ASSUME FundsInv
    PROVE  /\ history = [earned |-> history.earned, slashed |-> history.slashed,
                         deposited |-> history.deposited]
           /\ [history EXCEPT !.earned = @ + 1] =
                 [earned |-> history.earned + 1, slashed |-> history.slashed,
                  deposited |-> history.deposited]
           /\ [history EXCEPT !.slashed = @ + 1] =
                 [earned |-> history.earned, slashed |-> history.slashed + 1,
                  deposited |-> history.deposited]
           /\ [history EXCEPT !.deposited = @ + 1] =
                 [earned |-> history.earned, slashed |-> history.slashed,
                  deposited |-> history.deposited + 1]
           /\ history.earned + 0 = history.earned /\ history.slashed + 0 = history.slashed
           /\ history.deposited + 0 = history.deposited
           /\ history.earned <= MaxReward /\ history.slashed <= MaxSlash
           /\ history.deposited <= MaxDeposit
<1>1. history \in [earned : 0..MaxReward, slashed : 0..MaxSlash, deposited : 0..MaxDeposit]
  BY DEF FundsInv, FundsTyped
<1>. QED
  BY <1>1, TreasuryAssumption

\* What an event leaves alone.
EventFrame == UNCHANGED <<books, addresses, withdrawn_staking_rewards>>

LEMMA EarnRewardEvent ==
    ASSUME FundsInv, EventFrame, NEW v \in Validators, EarnReward(v)
    PROVE  ChainStep(1, 0, 0)
<1>. DEFINE c == chain'
<1>1. /\ chain \in ChainState /\ EntriesOK(chain) /\ AccruedAtDelegations(chain)
      /\ chain.accrued \in [Validators -> Nat] /\ chain.delegated \in [Validators -> Nat]
  BY ChainAmounts DEF FundsInv, FundsTyped, RewardsAccounted
<1>2. chain.accrued[v] + 1 \in Nat /\ chain.delegated[v] > 0
  BY <1>1 DEF EarnReward
<1>3. /\ c.bank = chain.bank /\ c.delegated = chain.delegated /\ c.unbonding = chain.unbonding
      /\ c.returned = chain.returned /\ c.accrued = [chain.accrued EXCEPT ![v] = @ + 1]
      /\ c \in ChainState
  BY <1>1, <1>2 DEF EarnReward, ChainState
<1>4. /\ c.accrued[v] = chain.accrued[v] + 1
      /\ \A u \in Validators \ {v} : c.accrued[u] = chain.accrued[u]
  BY <1>1, <1>3
<1>5. Pending(c) = Pending(chain) + 1
  <2>1. c.accrued \in [Validators -> Nat] /\ chain.accrued[v] \in Nat
    BY <1>1, <1>3, ChainAmounts
  <2>2. SumOver(c.accrued) = SumOver(chain.accrued) - chain.accrued[v] + c.accrued[v]
    BY <1>1, <1>4, <2>1, SumOverUpdate
  <2>. QED
    BY <1>4, <2>1, <2>2, AmountsBefore DEF Pending
<1>6. Assets(c) = Assets(chain) + 0 - 0
  <2>1. Assets(c) = Assets(chain)
    BY <1>3 DEF Assets, Staked
  <2>. QED
    BY <2>1, AmountsBefore
<1>7. AccruedAtDelegations(c) /\ EntriesOK(c)
  BY <1>1, <1>2, <1>3, <1>4 DEF AccruedAtDelegations, EntriesOK
<1>8. /\ history' = [earned |-> history.earned + 1, slashed |-> history.slashed + 0,
                     deposited |-> history.deposited + 0]
      /\ history'.earned <= MaxReward /\ history'.slashed <= MaxSlash
      /\ history'.deposited <= MaxDeposit
  <2>1. history' = [history EXCEPT !.earned = @ + 1] /\ history.earned < MaxReward
    BY DEF EarnReward
  <2>. QED
    BY <2>1, HistoryUpdates, AmountsBefore, TreasuryAssumption
<1>. QED
  BY <1>3, <1>5, <1>6, <1>7, <1>8 DEF ChainStep, EventFrame

LEMMA SlashEvent ==
    ASSUME FundsInv, EventFrame, NEW v \in Validators, Slash(v)
    PROVE  ChainStep(0, 1, 0)
<1>. DEFINE c == chain'
<1>1. /\ chain \in ChainState /\ EntriesOK(chain) /\ AccruedAtDelegations(chain)
      /\ chain.accrued \in [Validators -> Nat] /\ chain.delegated \in [Validators -> Nat]
  BY ChainAmounts DEF FundsInv, FundsTyped, RewardsAccounted
<1>2. chain.delegated[v] - 1 \in Nat /\ chain.delegated[v] > 1
  BY <1>1 DEF Slash
<1>3. /\ c.bank = chain.bank /\ c.accrued = chain.accrued /\ c.unbonding = chain.unbonding
      /\ c.returned = chain.returned /\ c.delegated = [chain.delegated EXCEPT ![v] = @ - 1]
      /\ c \in ChainState
  BY <1>1, <1>2 DEF Slash, ChainState
<1>4. /\ c.delegated[v] = chain.delegated[v] - 1
      /\ \A u \in Validators \ {v} : c.delegated[u] = chain.delegated[u]
  BY <1>1, <1>3
<1>5. Staked(c) = Staked(chain) - 1
  <2>1. c.delegated \in [Validators -> Nat] /\ chain.delegated[v] \in Nat
        /\ SumOver(chain.delegated) \in Nat
    BY <1>1, <1>3, ChainAmounts, SumOverIsSetSum
  <2>2. SumOver(c.delegated) = SumOver(chain.delegated) - chain.delegated[v] + c.delegated[v]
    BY <1>1, <1>4, <2>1, SumOverUpdate
  <2>. QED
    BY <1>4, <2>1, <2>2 DEF Staked
<1>6. Assets(c) = Assets(chain) + 0 - 1
  <2>1. /\ Assets(c) = c.bank[Self] + Staked(c) + Balances(c.unbonding)
        /\ Assets(chain) = chain.bank[Self] + Staked(chain) + Balances(chain.unbonding)
        /\ chain.bank[Self] \in Nat /\ Staked(chain) \in Nat /\ Balances(chain.unbonding) \in Nat
    BY <1>1, ChainAmounts DEF Assets
  <2>. QED
    BY <1>3, <1>5, <2>1
<1>7. Pending(c) = Pending(chain) + 0
  BY <1>3, AmountsBefore DEF Pending
<1>8. AccruedAtDelegations(c) /\ EntriesOK(c)
  BY <1>1, <1>2, <1>3, <1>4 DEF AccruedAtDelegations, EntriesOK
<1>9. /\ history' = [earned |-> history.earned + 0, slashed |-> history.slashed + 1,
                     deposited |-> history.deposited + 0]
      /\ history'.earned <= MaxReward /\ history'.slashed <= MaxSlash
      /\ history'.deposited <= MaxDeposit
  <2>1. history' = [history EXCEPT !.slashed = @ + 1] /\ history.slashed < MaxSlash
    BY DEF Slash
  <2>. QED
    BY <2>1, HistoryUpdates, AmountsBefore, TreasuryAssumption
<1>. QED
  BY <1>3, <1>6, <1>7, <1>8, <1>9 DEF ChainStep, EventFrame

LEMMA SlashUnbondingEvent ==
    ASSUME FundsInv, EventFrame, NEW i \in DOMAIN chain.unbonding, SlashUnbonding(i)
    PROVE  ChainStep(0, 1, 0)
<1>. DEFINE c == chain'
            entries == chain.unbonding
            n == entries[i].balance - 1
            less == [entries EXCEPT ![i].balance = n]
<1>1. /\ chain \in ChainState /\ EntriesOK(chain) /\ AccruedAtDelegations(chain)
      /\ entries \in Seq(UnbondingEntry)
  BY ChainAmounts DEF FundsInv, FundsTyped, RewardsAccounted
<1>2. /\ DOMAIN entries = 1..Len(entries) /\ Balances(entries) \in Nat
      /\ \A j \in DOMAIN entries : entries[j] \in UnbondingEntry /\ entries[j].balance \in Nat
  BY <1>1, AmountsOfEntries
<1>3. n \in Nat /\ entries[i].balance \in Nat
  BY <1>2 DEF SlashUnbonding
<1>4. less \in Seq(UnbondingEntry) /\ Balances(less) = Balances(entries) - entries[i].balance + n
  BY <1>1, <1>3, BalancesUpdate
<1>5. Balances(less) = Balances(entries) - 1
  BY <1>2, <1>3, <1>4
<1>6. \A j \in DOMAIN less : less[j].balance <= less[j].initial_balance
  <2>. SUFFICES ASSUME NEW j \in DOMAIN less
                PROVE  less[j].balance <= less[j].initial_balance
    OBVIOUS
  <2>1. /\ j \in DOMAIN entries /\ entries[j].balance <= entries[j].initial_balance
        /\ entries[j] \in UnbondingEntry /\ entries[j].balance \in Nat
        /\ entries[j].initial_balance \in Nat
    BY <1>1, <1>2 DEF EntriesOK, UnbondingEntry
  <2>2. CASE j # i
    BY <2>1, <2>2
  <2>3. CASE j = i
    <3>1. less[j] = [entries[i] EXCEPT !.balance = n]
      BY <2>1, <2>3
    <3>2. less[j].balance = n /\ less[j].initial_balance = entries[i].initial_balance
      BY <2>1, <2>3, <3>1 DEF UnbondingEntry
    <3>. QED
      BY <1>3, <2>1, <2>3, <3>2
  <2>. QED
    BY <2>2, <2>3
<1>7. c = [chain EXCEPT !.unbonding = less]
  BY <1>1 DEF SlashUnbonding, ChainState
<1>. HIDE DEF less, c
<1>8. /\ c.bank = chain.bank /\ c.accrued = chain.accrued /\ c.delegated = chain.delegated
      /\ c.returned = chain.returned /\ c.unbonding = less
      /\ c \in ChainState
  BY <1>1, <1>4, <1>7 DEF ChainState
<1>9. Assets(c) = Assets(chain) + 0 - 1
  <2>1. /\ Assets(c) = c.bank[Self] + Staked(c) + Balances(c.unbonding)
        /\ Assets(chain) = chain.bank[Self] + Staked(chain) + Balances(chain.unbonding)
        /\ chain.bank[Self] \in Nat /\ Staked(chain) \in Nat /\ Balances(chain.unbonding) \in Nat
    BY <1>1, ChainAmounts DEF Assets
  <2>2. Staked(c) = Staked(chain)
    BY <1>8 DEF Staked
  <2>. QED
    BY <1>5, <1>8, <2>1, <2>2
<1>10. Pending(c) = Pending(chain) + 0
  BY <1>8, AmountsBefore DEF Pending
<1>11. AccruedAtDelegations(c) /\ EntriesOK(c)
  BY <1>1, <1>6, <1>8 DEF AccruedAtDelegations, EntriesOK
<1>12. /\ history' = [earned |-> history.earned + 0, slashed |-> history.slashed + 1,
                      deposited |-> history.deposited + 0]
      /\ history'.earned <= MaxReward /\ history'.slashed <= MaxSlash
      /\ history'.deposited <= MaxDeposit
  <2>1. history' = [history EXCEPT !.slashed = @ + 1] /\ history.slashed < MaxSlash
    BY DEF SlashUnbonding
  <2>. QED
    BY <2>1, HistoryUpdates, AmountsBefore, TreasuryAssumption
<1>. QED
  BY <1>8, <1>9, <1>10, <1>11, <1>12 DEF ChainStep, EventFrame, c

\* An entry is taken from the list: those left are entries of it.
LEMMA RemovedEntriesOK ==
    ASSUME chain \in ChainState, EntriesOK(chain), NEW i \in DOMAIN chain.unbonding,
           NEW j \in DOMAIN RemoveAt(chain.unbonding, i)
    PROVE  LET less == RemoveAt(chain.unbonding, i)
           IN  less[j].balance <= less[j].initial_balance
<1>. DEFINE entries == chain.unbonding
            less == RemoveAt(entries, i)
            L == Len(entries)
<1>1. entries \in Seq(UnbondingEntry)
  BY ChainAmounts
<1>2. L \in Nat /\ DOMAIN entries = 1..L
  BY <1>1
<1>3. i \in 1..L
  BY <1>2
<1>4. /\ less \in Seq(UnbondingEntry) /\ Len(less) = L - 1
      /\ \A k \in 1..(L - 1) : less[k] = IF k < i THEN entries[k] ELSE entries[k + 1]
  BY <1>1, <1>3, RemoveAtProperties
<1>5. j \in DOMAIN less /\ \A k \in DOMAIN entries : entries[k].balance <= entries[k].initial_balance
  BY DEF EntriesOK
<1>. HIDE DEF less, entries, L
<1>6. j \in 1..(L - 1)
  BY <1>2, <1>4, <1>5
<1>7. j \in DOMAIN entries /\ j + 1 \in DOMAIN entries
  BY <1>2, <1>6
<1>8. less[j].balance <= less[j].initial_balance
  BY <1>4, <1>5, <1>6, <1>7
<1>. QED
  BY <1>8 DEF less, entries

LEMMA CompleteUnbondingEvent ==
    ASSUME FundsInv, EventFrame, NEW i \in DOMAIN chain.unbonding, CompleteUnbonding(i)
    PROVE  ChainStep(0, 0, 0)
<1>. DEFINE c == chain'
            entries == chain.unbonding
            n == entries[i].balance
            less == RemoveAt(entries, i)
<1>1. /\ chain \in ChainState /\ EntriesOK(chain) /\ AccruedAtDelegations(chain)
      /\ entries \in Seq(UnbondingEntry) /\ chain.bank \in [Address -> Nat] /\ Self \in Address
      /\ chain.bank[Self] \in Nat
  BY ChainAmounts DEF FundsInv, FundsTyped, RewardsAccounted
<1>2. /\ less \in Seq(UnbondingEntry) /\ Balances(less) = Balances(entries) - n /\ n \in Nat
  BY <1>1, BalancesRemove
<1>3. \A j \in DOMAIN less : less[j].balance <= less[j].initial_balance
  BY <1>1, RemovedEntriesOK
<1>4. c = [chain EXCEPT !.bank[Self] = @ + n, !.unbonding = less] /\ history' = history
  BY DEF CompleteUnbonding
<1>. HIDE DEF less, c, n
<1>5. chain.bank[Self] + n \in Nat
  BY <1>1, <1>2
<1>6. /\ c.bank = [chain.bank EXCEPT ![Self] = @ + n] /\ c.accrued = chain.accrued
      /\ c.delegated = chain.delegated /\ c.returned = chain.returned /\ c.unbonding = less
      /\ c \in ChainState
  BY <1>1, <1>2, <1>4, <1>5 DEF ChainState
<1>7. c.bank[Self] = chain.bank[Self] + n /\ \A a \in Others : c.bank[a] = chain.bank[a]
  BY <1>1, <1>6 DEF Others
<1>8. Assets(c) = Assets(chain) + 0 - 0
  <2>1. /\ Assets(c) = c.bank[Self] + Staked(c) + Balances(c.unbonding)
        /\ Assets(chain) = chain.bank[Self] + Staked(chain) + Balances(chain.unbonding)
        /\ chain.bank[Self] \in Nat /\ Staked(chain) \in Nat /\ Balances(chain.unbonding) \in Nat
    BY <1>1, ChainAmounts DEF Assets
  <2>2. Staked(c) = Staked(chain)
    BY <1>6 DEF Staked
  <2>. QED
    BY <1>2, <1>6, <1>7, <2>1, <2>2
<1>9. Pending(c) = Pending(chain) + 0
  BY <1>6, AmountsBefore DEF Pending
<1>10. AccruedAtDelegations(c) /\ EntriesOK(c)
  BY <1>1, <1>3, <1>6 DEF AccruedAtDelegations, EntriesOK
<1>11. /\ history' = [earned |-> history.earned + 0, slashed |-> history.slashed + 0,
                      deposited |-> history.deposited + 0]
      /\ history'.earned <= MaxReward /\ history'.slashed <= MaxSlash
      /\ history'.deposited <= MaxDeposit
  BY <1>4, HistoryUpdates
<1>. QED
  BY <1>6, <1>7, <1>8, <1>9, <1>10, <1>11 DEF ChainStep, EventFrame, c

LEMMA DepositEvent ==
    ASSUME FundsInv, EventFrame, Deposit
    PROVE  ChainStep(0, 0, 1)
<1>. DEFINE c == chain'
<1>1. /\ chain \in ChainState /\ EntriesOK(chain) /\ AccruedAtDelegations(chain)
      /\ chain.bank \in [Address -> Nat] /\ Self \in Address /\ chain.bank[Self] + 1 \in Nat
  BY ChainAmounts DEF FundsInv, FundsTyped, RewardsAccounted
<1>2. /\ c.bank = [chain.bank EXCEPT ![Self] = @ + 1] /\ c.accrued = chain.accrued
      /\ c.delegated = chain.delegated /\ c.returned = chain.returned
      /\ c.unbonding = chain.unbonding /\ c \in ChainState
  <2>1. c = [chain EXCEPT !.bank[Self] = @ + 1]
    BY DEF Deposit
  <2>2. [chain.bank EXCEPT ![Self] = @ + 1] \in [Address -> Nat]
    BY <1>1
  <2>. HIDE DEF c
  <2>. QED
    BY <1>1, <2>1, <2>2 DEF ChainState
<1>3. c.bank[Self] = chain.bank[Self] + 1 /\ \A a \in Others : c.bank[a] = chain.bank[a]
  BY <1>1, <1>2 DEF Others
<1>4. Assets(c) = Assets(chain) + 1 - 0
  <2>1. /\ Assets(c) = c.bank[Self] + Staked(c) + Balances(c.unbonding)
        /\ Assets(chain) = chain.bank[Self] + Staked(chain) + Balances(chain.unbonding)
        /\ chain.bank[Self] \in Nat /\ Staked(chain) \in Nat /\ Balances(chain.unbonding) \in Nat
    BY <1>1, ChainAmounts DEF Assets
  <2>2. Staked(c) = Staked(chain)
    BY <1>2 DEF Staked
  <2>. QED
    BY <1>2, <1>3, <2>1, <2>2
<1>5. Pending(c) = Pending(chain) + 0
  BY <1>2, AmountsBefore DEF Pending
<1>6. AccruedAtDelegations(c) /\ EntriesOK(c)
  BY <1>1, <1>2 DEF AccruedAtDelegations, EntriesOK
<1>7. /\ history' = [earned |-> history.earned + 0, slashed |-> history.slashed + 0,
                     deposited |-> history.deposited + 1]
      /\ history'.earned <= MaxReward /\ history'.slashed <= MaxSlash
      /\ history'.deposited <= MaxDeposit
  <2>1. history' = [history EXCEPT !.deposited = @ + 1] /\ history.deposited < MaxDeposit
    BY DEF Deposit
  <2>. QED
    BY <2>1, HistoryUpdates, AmountsBefore, TreasuryAssumption
<1>. QED
  BY <1>2, <1>3, <1>4, <1>5, <1>6, <1>7 DEF ChainStep, EventFrame

(***************************************************************************)
(* The disjuncts of the next-state relations.                              *)
(***************************************************************************)

EventStep ==
    \E u \in {<<0, 0, 0>>, <<1, 0, 0>>, <<0, 1, 0>>, <<0, 0, 1>>} : ChainStep(u[1], u[2], u[3])

LEMMA ChainStepIsEventStep ==
    ChainStep(1, 0, 0) \/ ChainStep(0, 1, 0) \/ ChainStep(0, 0, 1) \/ ChainStep(0, 0, 0)
        => EventStep
<1>1. \A e, l, g : <<e, l, g>>[1] = e /\ <<e, l, g>>[2] = l /\ <<e, l, g>>[3] = g
  OBVIOUS
<1>2. \A e, l, g : ChainStep(e, l, g) /\ <<e, l, g>> \in {<<0, 0, 0>>, <<1, 0, 0>>, <<0, 1, 0>>, <<0, 0, 1>>}
          => \E u \in {<<0, 0, 0>>, <<1, 0, 0>>, <<0, 1, 0>>, <<0, 0, 1>>} : ChainStep(u[1], u[2], u[3])
  BY <1>1
<1>. QED
  BY <1>2 DEF EventStep

LEMMA EnvironmentIsEventStep == FundsInv /\ Environment => EventStep
<1>. SUFFICES ASSUME FundsInv, Environment PROVE EventStep
  OBVIOUS
<1>1. EventFrame
  BY DEF Environment, contractVars, EventFrame
<1>. QED
  BY <1>1, EarnRewardEvent, SlashEvent, SlashUnbondingEvent, CompleteUnbondingEvent,
     DepositEvent, ChainStepIsEventStep DEF Environment

LEMMA EnvironmentIsFundsStep == FundsInv /\ Environment => FundsStep
BY EnvironmentIsEventStep DEF FundsStep, EventStep

LEMMA OpActionIsFundsStep == FundsInv /\ OpAction => FundsStep
<1>. SUFFICES ASSUME FundsInv, NEW sender \in Sender,
                     \/ \E v \in Validators, amount \in Amounts :
                           \/ ExecuteDelegate(sender, v, amount)
                           \/ ExecuteUndelegate(sender, v, amount)
                           \/ \E dst \in Validators : ExecuteRedelegate(sender, v, dst, amount)
                     \/ \E amount \in Requests : ExecuteInitiateWithdrawUnlocked(sender, amount)
                     \/ ExecuteInitiateWithdrawReward(sender)
              PROVE  FundsStep
  BY DEF OpAction
<1>1. Amounts \subseteq Nat /\ Requests \subseteq Nat
  BY TreasuryAssumption, VestingAssumption
<1>2. ASSUME NEW v \in Validators, NEW amount \in Amounts,
             \/ ExecuteDelegate(sender, v, amount)
             \/ ExecuteUndelegate(sender, v, amount)
             \/ \E dst \in Validators : ExecuteRedelegate(sender, v, dst, amount)
      PROVE  FundsStep
  <2>1. StakingStep
    BY <1>1, <1>2, StakingHandlers
  <2>. QED
    BY <2>1 DEF FundsStep
<1>3. ASSUME NEW amount \in Requests, ExecuteInitiateWithdrawUnlocked(sender, amount)
      PROVE  FundsStep
  <2>1. unlock_distribution_address \in Address
    BY DEF FundsInv, FundsTyped
  <2>2. amount \in Nat /\ PrincipalStep(amount, unlock_distribution_address)
    BY <1>1, <1>3, WithdrawUnlockedHandler
  <2>. QED
    BY <2>1, <2>2 DEF FundsStep
<1>4. ASSUME ExecuteInitiateWithdrawReward(sender)
      PROVE  FundsStep
  BY <1>4, WithdrawRewardHandler DEF FundsStep
<1>. QED
  BY <1>2, <1>3, <1>4

LEMMA InternalIsFundsStep ==
    ASSUME FundsInv, NEW addr \in Address,
           \/ ExecuteInternalUpdateUnlockedDistributionAddress(Self, addr)
           \/ ExecuteInternalUpdateStakingRewardDistributionAddress(Self, addr)
           \/ ExecuteInternalWithdrawLocked(Self, addr)
    PROVE  FundsStep
<1>1. CASE ExecuteInternalWithdrawLocked(Self, addr)
  <2>1. PrincipalStep(Total(vesting_amounts), addr) /\ Total(vesting_amounts) \in Nat
    BY <1>1, WithdrawLockedHandler
  <2>. QED
    BY <2>1 DEF FundsStep
<1>2. CASE \/ ExecuteInternalUpdateUnlockedDistributionAddress(Self, addr)
           \/ ExecuteInternalUpdateStakingRewardDistributionAddress(Self, addr)
  BY <1>2, AddressHandlers DEF FundsStep
<1>. QED
  BY <1>1, <1>2

LEMMA TimeIsFundsStep == TimePasses => FundsStep
BY DEF TimePasses, contractVars, FundsStep, QuietStep

(***************************************************************************)
(* The steps of the treasury on its own.                                   *)
(***************************************************************************)

LEMMA TreasuryVestingStep == [TreasuryNext]_treasuryVars => [VestingNext]_vestingVars
<1>. SUFFICES ASSUME [TreasuryNext]_treasuryVars PROVE [VestingNext]_vestingVars
  OBVIOUS
<1>1. CASE OpAction
  BY <1>1 DEF OpAction, ExecuteDelegate, ExecuteUndelegate, ExecuteRedelegate,
              ExecuteInitiateWithdrawUnlocked, ExecuteInitiateWithdrawReward, VestingNext
<1>2. CASE SelfCall
  BY <1>2 DEF SelfCall, ExecuteInternalUpdateUnlockedDistributionAddress,
              ExecuteInternalUpdateStakingRewardDistributionAddress,
              ExecuteInternalWithdrawLocked, VestingNext
<1>3. CASE Environment
  BY <1>3 DEF Environment, contractVars, vestingVars
<1>4. CASE TimePasses
  BY <1>4 DEF TimePasses, contractVars, VestingNext
<1>5. CASE UNCHANGED treasuryVars
  BY <1>5 DEF treasuryVars
<1>. QED
  BY <1>1, <1>2, <1>3, <1>4, <1>5 DEF TreasuryNext

LEMMA TreasuryFundsStep == FundsInv /\ [TreasuryNext]_treasuryVars => FundsStep
<1>. SUFFICES ASSUME FundsInv, [TreasuryNext]_treasuryVars PROVE FundsStep
  OBVIOUS
<1>1. CASE SelfCall
  BY <1>1, InternalIsFundsStep, TreasuryAssumption DEF SelfCall
<1>2. CASE UNCHANGED treasuryVars
  <2>1. QuietStep
    BY <1>2, Zenon DEF treasuryVars, vestingVars, addresses, QuietStep
  <2>. QED
    BY <2>1 DEF FundsStep
<1>. QED
  BY <1>1, <1>2, OpActionIsFundsStep, EnvironmentIsFundsStep, TimeIsFundsStep DEF TreasuryNext

LEMMA FundsStepInv ==
    FundsInv /\ FundsStep /\ [VestingNext]_vestingVars => FundsInv'
BY BooksStep, FundsStepKeeps DEF FundsInv

LEMMA FundsInitially == FundsInit => FundsInv
<1>. SUFFICES ASSUME FundsInit PROVE FundsInv
  OBVIOUS
<1>1. PICK excess \in 0..MaxDeposit :
          /\ history = [earned |-> 0, slashed |-> 0, deposited |-> excess]
          /\ chain = [bank      |-> [a \in Address |->
                                       IF a = Self THEN total_amount + excess ELSE 0],
                     delegated |-> [v \in Validators |-> 0],
                     accrued   |-> [v \in Validators |-> 0],
                     unbonding |-> <<>>,
                     returned  |-> 0]
  BY DEF FundsInit
<1>2. /\ BooksOK /\ withdrawn_unlocked = 0 /\ withdrawn_locked = 0
      /\ withdrawn_staking_rewards = 0 /\ excess \in Nat /\ total_amount \in Nat
      /\ unlock_distribution_address \in Address /\ staking_reward_address \in Address
      /\ MaxReward \in Nat /\ MaxSlash \in Nat /\ MaxDeposit \in Nat /\ MaxReturned \in Nat
  BY BooksInit, TreasuryAssumption DEF FundsInit, VestingInit, BooksOK, VestingTypeOK
<1>3. /\ history.earned = 0 /\ history.slashed = 0 /\ history.deposited = excess
      /\ history \in [earned : 0..MaxReward, slashed : 0..MaxSlash, deposited : 0..MaxDeposit]
  BY <1>1, <1>2
<1>4. /\ chain.bank = [a \in Address |-> IF a = Self THEN total_amount + excess ELSE 0]
      /\ chain.delegated = [v \in Validators |-> 0] /\ chain.accrued = [v \in Validators |-> 0]
      /\ chain.unbonding = <<>> /\ chain.returned = 0 /\ chain \in ChainState
  BY <1>1, <1>2 DEF ChainState
<1>5. chain.bank[Self] = total_amount + excess /\ \A a \in Others : chain.bank[a] = 0
  BY <1>4, PermissionAssumption DEF Others
<1>6. /\ chain.delegated \in [Validators -> Nat] /\ \A v \in Validators : chain.delegated[v] = 0
      /\ chain.accrued \in [Validators -> Nat] /\ \A v \in Validators : chain.accrued[v] = 0
  BY <1>4
<1>7. Pending(chain) = 0 /\ Staked(chain) = 0
  BY <1>6, SumOverNothing DEF Pending, Staked
<1>8. Balances(chain.unbonding) = 0
  <2>. DEFINE none == AmountsOf(<<>>)
  <2>1. /\ <<>> \in Seq(UnbondingEntry) /\ Len(<<>>) = 0
    OBVIOUS
  <2>2. none \in Seq(Nat) /\ Len(none) = 0 /\ Balances(<<>>) = Total(none)
    BY <2>1, AmountsOfEntries
  <2>. HIDE DEF none
  <2>3. none = <<>>
    BY <2>2
  <2>. QED
    BY <1>4, <2>2, <2>3, SumIsNat
<1>9. Assets(chain) = total_amount + excess
  <2>1. Assets(chain) = chain.bank[Self] + Staked(chain) + Balances(chain.unbonding)
    BY DEF Assets
  <2>. QED
    BY <1>2, <1>5, <1>7, <1>8, <2>1
<1>10. PaidTo(chain) = 0
  <2>1. IsFiniteSet(Others)
    BY PermissionAssumption, FS_Subset DEF Others
  <2>2. /\ SetSum(chain.bank, Others) = 0 * Cardinality(Others) /\ Cardinality(Others) \in Nat
    BY <1>5, <2>1, SetSumConstant, FS_CardinalityType
  <2>. QED
    BY <2>2 DEF PaidTo, Others
<1>11. FundsTyped /\ chain.returned <= MaxReturned
  BY <1>2, <1>3, <1>4 DEF FundsTyped, EntriesOK
<1>12. RewardsAccounted
  BY <1>3, <1>6, <1>7 DEF RewardsAccounted, AccruedAtDelegations
<1>13. PaymentsBooked /\ Ledger
  BY <1>2, <1>3, <1>4, <1>7, <1>9, <1>10 DEF PaymentsBooked, Ledger
<1>14. Solvent
  BY <1>2, <1>3, <1>9 DEF Solvent, Owed
<1>. QED
  BY <1>2, <1>11, <1>12, <1>13, <1>14 DEF FundsInv

LEMMA TreasuryFunds == TreasurySpec => []FundsInv
<1>1. TreasuryInit => FundsInv
  BY FundsInitially DEF TreasuryInit
<1>2. FundsInv /\ [TreasuryNext]_treasuryVars => FundsInv'
  BY TreasuryVestingStep, TreasuryFundsStep, FundsStepInv
<1>. QED
  BY <1>1, <1>2, PTL DEF TreasurySpec

-----------------------------------------------------------------------------
(***************************************************************************)
(* What follows from the invariant.                                        *)
(***************************************************************************)

LEMMA BookedIsPaid == FundsInv => PaymentsMatchCounters
BY PaidOutIsPaidTo DEF FundsInv, PaymentsBooked, PaymentsMatchCounters

LEMMA NoOverWithdrawal == FundsInv => OverWithdrawImpossible
<1>. SUFFICES ASSUME FundsInv PROVE OverWithdrawImpossible
  OBVIOUS
<1>1. /\ PaidTo(chain) + chain.returned
            = withdrawn_unlocked + withdrawn_locked + withdrawn_staking_rewards
      /\ Assets(chain) + Pending(chain) + PaidTo(chain) + history.slashed
            = total_amount + history.earned + history.deposited
      /\ Assets(chain) + history.slashed >= Owed
  BY DEF FundsInv, PaymentsBooked, Ledger, Solvent
<1>. QED
  BY <1>1, AmountsBefore DEF OverWithdrawImpossible

\* The recipients are those that are ever named.
LEMMA FundsAreTyped ==
    FundsInv /\ unlock_distribution_address \in Recipients /\ staking_reward_address \in Recipients
        => TreasuryTypeOK
<1>. SUFFICES ASSUME FundsInv, unlock_distribution_address \in Recipients,
                     staking_reward_address \in Recipients
              PROVE  TreasuryTypeOK
  OBVIOUS
<1>1. /\ VestingTypeOK /\ withdrawn_staking_rewards \in Nat
      /\ history \in [earned : 0..MaxReward, slashed : 0..MaxSlash, deposited : 0..MaxDeposit]
  BY DEF FundsInv, FundsTyped, BooksOK
<1>2. /\ chain.bank \in [Address -> Nat] /\ chain.delegated \in [Validators -> Nat]
      /\ chain.accrued \in [Validators -> Nat] /\ chain.unbonding \in Seq(UnbondingEntry)
      /\ chain.returned \in Nat /\ chain.returned <= MaxReturned
  BY AmountsBefore, ChainAmounts DEF FundsInv
<1>3. chain.accrued \in [Validators -> 0..MaxReward]
  <2>1. \A v \in Validators : chain.accrued[v] <= SumOver(chain.accrued)
    BY <1>2, SumOverIsSetSum
  <2>2. Pending(chain) <= history.earned /\ history.earned \in 0..MaxReward
        /\ Pending(chain) \in Nat
    BY <1>1, AmountsBefore DEF FundsInv, RewardsAccounted
  <2>3. \A v \in Validators : chain.accrued[v] \in 0..MaxReward
    BY <1>2, <2>1, <2>2, TreasuryAssumption DEF Pending
  <2>. QED
    BY <1>2, <2>3
<1>4. ASSUME NEW i \in DOMAIN chain.unbonding
      PROVE  /\ chain.unbonding[i].validator \in Validators
             /\ chain.unbonding[i].balance \in 0..chain.unbonding[i].initial_balance
  <2>1. chain.unbonding[i] \in UnbondingEntry
    BY <1>2
  <2>2. chain.unbonding[i].balance <= chain.unbonding[i].initial_balance
    BY DEF FundsInv, FundsTyped, EntriesOK
  <2>. QED
    BY <2>1, <2>2 DEF UnbondingEntry
<1>5. chain.returned \in 0..MaxReturned
  BY <1>2, TreasuryAssumption
<1>. QED
  BY <1>1, <1>2, <1>3, <1>4, <1>5 DEF TreasuryTypeOK

AddressesNamed ==
    unlock_distribution_address \in Recipients /\ staking_reward_address \in Recipients

LEMMA TreasuryAddresses == TreasurySpec => []AddressesNamed
<1>1. TreasuryInit => AddressesNamed
  BY DEF TreasuryInit, FundsInit, AddressesNamed
<1>2. AddressesNamed /\ [TreasuryNext]_treasuryVars => AddressesNamed'
  <2>. SUFFICES ASSUME AddressesNamed, [TreasuryNext]_treasuryVars PROVE AddressesNamed'
    OBVIOUS
  <2>1. UNCHANGED addresses => AddressesNamed'
    BY DEF addresses, AddressesNamed
  <2>2. CASE OpAction
    BY <2>1, <2>2 DEF OpAction, ExecuteDelegate, ExecuteUndelegate, ExecuteRedelegate,
                      ExecuteInitiateWithdrawUnlocked, ExecuteInitiateWithdrawReward
  <2>3. CASE SelfCall
    BY <2>1, <2>3 DEF SelfCall, AddressesNamed, ExecuteInternalUpdateUnlockedDistributionAddress,
                      ExecuteInternalUpdateStakingRewardDistributionAddress,
                      ExecuteInternalWithdrawLocked
  <2>4. CASE Environment
    BY <2>1, <2>4 DEF Environment, contractVars
  <2>5. CASE TimePasses
    BY <2>1, <2>5 DEF TimePasses, contractVars
  <2>6. CASE UNCHANGED treasuryVars
    BY <2>6 DEF treasuryVars, AddressesNamed
  <2>. QED
    BY <2>2, <2>3, <2>4, <2>5, <2>6 DEF TreasuryNext
<1>. QED
  BY <1>1, <1>2, PTL DEF TreasurySpec

\* Every variable of the treasury keeps its type: no counter goes below zero, no rewards
\* accrue beyond those earned, no unbonding entry is worth more than was undelegated.
THEOREM TreasuryIsTyped == TreasurySpec => []TreasuryTypeOK
<1>1. FundsInv /\ AddressesNamed => TreasuryTypeOK
  BY FundsAreTyped DEF AddressesNamed
<1>. QED
  BY <1>1, TreasuryFunds, TreasuryAddresses, PTL

\* Every handler books what it pays and pays what it books: the WITHDRAWN counters add up
\* to what has left the contract or was sent to itself.
THEOREM PaymentsAreBooked == TreasurySpec => []PaymentsMatchCounters
BY BookedIsPaid, TreasuryFunds, PTL

\* calculate_withdrawn_rewards cannot be made to find more than the delegations have
\* earned and others deposited, whatever was staked, slashed and withdrawn before.
THEOREM NeverOverWithdrawn == TreasurySpec => []OverWithdrawImpossible
BY NoOverWithdrawal, TreasuryFunds, PTL

\* What was not lost by a slash is there for the principal still owed.
THEOREM StaysSolvent == TreasurySpec => []Solvent
<1>1. FundsInv => Solvent
  BY DEF FundsInv
<1>. QED
  BY <1>1, TreasuryFunds, PTL

-----------------------------------------------------------------------------
(***************************************************************************)
(* A reward withdrawal takes the rewards and nothing but the rewards.      *)
(***************************************************************************)

LEMMA MinMaxOfTwo ==
    ASSUME NEW a \in Int, NEW b \in Int
    PROVE  /\ Min({a, b}) = IF a <= b THEN a ELSE b
           /\ Max({a, b}) = IF a >= b THEN a ELSE b
<1>1. \E x \in {a, b} : \A y \in {a, b} : x <= y
  OBVIOUS
<1>2. \E x \in {a, b} : \A y \in {a, b} : x >= y
  OBVIOUS
<1>3. Min({a, b}) \in {a, b} /\ \A y \in {a, b} : Min({a, b}) <= y
  <2>. DEFINE least == CHOOSE x \in {a, b} : \A y \in {a, b} : x <= y
  <2>1. least \in {a, b} /\ \A y \in {a, b} : least <= y
    BY <1>1, Zenon
  <2>. QED
    BY <2>1, Zenon DEF Min
<1>4. Max({a, b}) \in {a, b} /\ \A y \in {a, b} : Max({a, b}) >= y
  <2>. DEFINE greatest == CHOOSE x \in {a, b} : \A y \in {a, b} : x >= y
  <2>1. greatest \in {a, b} /\ \A y \in {a, b} : greatest >= y
    BY <1>2, Zenon
  <2>. QED
    BY <2>1, Zenon DEF Max
<1>. DEFINE m == Min({a, b})
            n == Max({a, b})
<1>5. m \in {a, b} /\ m <= a /\ m <= b /\ n \in {a, b} /\ n >= a /\ n >= b
  BY <1>3, <1>4
<1>. HIDE DEF m, n
<1>6. m = (IF a <= b THEN a ELSE b) /\ n = IF a >= b THEN a ELSE b
  BY <1>5
<1>. QED
  BY <1>6 DEF m, n

LEMMA RewardStepIsExact ==
    ASSUME FundsInv, RewardStep, BooksOK'
    PROVE  RewardWithdrawalStep
<1>. DEFINE c == chain'
            w == CalculateWithdrawnRewards
            n == w + Pending(chain)
            to == staking_reward_address
            share == Share(to # Self, n)
            back == Share(to = Self, n)
            rest == Staked(chain) + UnbondingBalance
            assets == Assets(chain)
            assetsAfter == Assets(c)
            bankAfter == c.bank[Self]
            owed == Owed
<1>1. /\ PaymentEffect(chain, c, n, to) /\ c \in ChainState /\ Pending(c) = 0
      /\ c.delegated = chain.delegated /\ c.unbonding = chain.unbonding
      /\ withdrawn_staking_rewards' = withdrawn_staking_rewards + n
  BY DEF RewardStep, PaymentEffect
<1>2. /\ w \in Nat /\ w <= MaxZero(assets - owed)
      /\ assets >= owed => w = assets - owed \/ w = chain.bank[Self]
  BY WithdrawnRewards DEF FundsInv, FundsTyped
<1>3. /\ assetsAfter + share = assets + Pending(chain)
      /\ c.returned = chain.returned + back
  BY <1>1, ChainAmounts DEF PaymentEffect
<1>4. /\ assetsAfter \in Nat /\ bankAfter \in Nat /\ assetsAfter = bankAfter + rest
  <2>1. /\ assetsAfter = bankAfter + Staked(c) + Balances(c.unbonding)
        /\ assetsAfter \in Nat /\ bankAfter \in Nat
        /\ Staked(c) = Staked(chain) /\ Balances(c.unbonding) = UnbondingBalance
    BY <1>1, ChainAmounts DEF Staked, UnbondingBalance
  <2>2. Staked(chain) \in Nat /\ UnbondingBalance \in Nat
    BY FundsAmounts DEF FundsInv, FundsTyped
  <2>. QED
    BY <2>1, <2>2
<1>5. assets = chain.bank[Self] + rest /\ rest \in Nat
  <2>1. /\ assets = chain.bank[Self] + Staked(chain) + UnbondingBalance
        /\ Staked(chain) \in Nat /\ UnbondingBalance \in Nat /\ chain.bank[Self] \in Nat
    BY FundsAmounts DEF FundsInv, FundsTyped
  <2>. QED
    BY <2>1
<1>6. assets \in Nat /\ owed \in Nat /\ Pending(chain) \in Nat /\ chain.bank[Self] \in Nat
      /\ history.slashed \in Nat /\ assets + history.slashed >= owed /\ chain.returned \in Nat
  BY AmountsBefore DEF FundsInv, Solvent
<1>7. n = w + Pending(chain) /\ share \in Nat /\ share <= n /\ (to # Self => share = n)
      /\ (to = Self => back = n)
  BY <1>2, <1>6 DEF Share
<1>. DEFINE least == Min({assets, owed})
            most == Max({0, owed - (assetsAfter - bankAfter)})
<1>8. /\ least = IF assets <= owed THEN assets ELSE owed
      /\ most = IF 0 >= owed - (assetsAfter - bankAfter) THEN 0
                ELSE owed - (assetsAfter - bankAfter)
  <2>. DEFINE gap == owed - (assetsAfter - bankAfter)
  <2>1. gap \in Int /\ 0 \in Int /\ assets \in Int /\ owed \in Int
    BY <1>4, <1>6
  <2>. HIDE DEF gap
  <2>2. Max({0, gap}) = IF 0 >= gap THEN 0 ELSE gap
    BY <2>1, MinMaxOfTwo, Zenon
  <2>. HIDE DEF assets, owed
  <2>3. Min({assets, owed}) = IF assets <= owed THEN assets ELSE owed
    BY <2>1, MinMaxOfTwo, Zenon
  <2>. QED
    BY <2>2, <2>3, Zenon DEF gap
<1>9. /\ RewardWithdrawalStep <=>
             (withdrawn_staking_rewards' # withdrawn_staking_rewards =>
                /\ assetsAfter >= least
                /\ history.slashed = 0 /\ c.returned = chain.returned => bankAfter <= most)
  BY Zenon DEF RewardWithdrawalStep
<1>. HIDE DEF w, n, to, share, back, rest, assets, assetsAfter, bankAfter, owed, least, most
<1>10. assetsAfter >= least
  BY <1>2, <1>3, <1>4, <1>6, <1>7, <1>8 DEF MaxZero
<1>11. ASSUME history.slashed = 0, c.returned = chain.returned,
              withdrawn_staking_rewards' # withdrawn_staking_rewards
       PROVE  bankAfter <= most
  <2>1. n > 0
    BY <1>1, <1>2, <1>6, <1>7, <1>11, AmountsBefore
  <2>2. to # Self
    BY <1>3, <1>6, <1>7, <1>11, <2>1
  <2>3. share = n /\ assets >= owed
    BY <1>6, <1>7, <1>11, <2>2
  <2>4. assetsAfter = assets - w /\ (w = assets - owed \/ w = chain.bank[Self])
    BY <1>2, <1>3, <1>4, <1>6, <1>7, <2>3
  <2>. QED
    BY <1>2, <1>4, <1>5, <1>6, <1>8, <2>4
<1>. QED
  BY <1>9, <1>10, <1>11

LEMMA FundsStepIsExact ==
    ASSUME FundsInv, FundsStep, BooksOK'
    PROVE  RewardWithdrawalStep
<1>1. withdrawn_staking_rewards' = withdrawn_staking_rewards => RewardWithdrawalStep
  BY DEF RewardWithdrawalStep
<1>. QED
  BY <1>1, RewardStepIsExact
     DEF FundsStep, StakingStep, PrincipalStep, AddressStep, ChainStep, QuietStep

LEMMA FundsStepBooks ==
    FundsInv /\ [VestingNext]_vestingVars => BooksOK'
BY BooksStep DEF FundsInv

\* execute_initiate_withdraw_reward never reaches into the principal, wherever staking has
\* put it and whatever part of it was slashed; and, short of a slash, it leaves in the
\* bank no more than the principal that should be there.
THEOREM RewardsOnly == TreasurySpec => RewardWithdrawalExact
<1>1. FundsInv /\ [TreasuryNext]_treasuryVars => [RewardWithdrawalStep]_treasuryVars
  BY TreasuryVestingStep, TreasuryFundsStep, FundsStepBooks, FundsStepIsExact
<1>2. TreasurySpec => [][RewardWithdrawalStep]_treasuryVars
  BY <1>1, TreasuryFunds, PTL DEF TreasurySpec
<1>. QED
  BY <1>2 DEF RewardWithdrawalExact

-----------------------------------------------------------------------------
(***************************************************************************)
(* The treasury is a Custody.                                              *)
(***************************************************************************)

SurplusNow == Assets(chain) - Owed

LEMMA PurseAmounts ==
    ASSUME FundsInv, BooksOK', chain' \in ChainState
    PROVE  /\ Owed \in Nat /\ SurplusNow \in Int /\ Pending(chain) \in Nat /\ PaidTo(chain) \in Nat
           /\ withdrawn_unlocked + withdrawn_locked \in Nat /\ withdrawn_staking_rewards \in Nat
           /\ SurplusNow = Assets(chain) - Owed /\ SurplusNow' = Assets(chain') - Owed'
           /\ Assets(chain) \in Nat /\ Assets(chain') \in Nat /\ Pending(chain') \in Nat
           /\ Owed' \in Nat
           /\ Owed = total_amount - withdrawn_unlocked - withdrawn_locked
           /\ Owed' = total_amount' - withdrawn_unlocked' - withdrawn_locked'
           /\ total_amount \in Nat /\ withdrawn_unlocked \in Nat /\ withdrawn_locked \in Nat
<1>1. /\ Assets(chain') \in Nat /\ Pending(chain') \in Nat /\ Owed' \in Nat
      /\ Owed' = total_amount' - withdrawn_unlocked' - withdrawn_locked'
  BY AmountsAfter
<1>2. SurplusNow = Assets(chain) - Owed /\ SurplusNow' = Assets(chain') - Owed'
  BY DEF SurplusNow
<1>. QED
  BY <1>1, <1>2, AmountsBefore

\* The variables of Custody.
LEMMA PurseVariables ==
    /\ PaidOut = PaidTo(chain) /\ PaidOut' = PaidTo(chain')
    /\ SumOver(chain.accrued) = Pending(chain) /\ SumOver(chain'.accrued) = Pending(chain')
<1>1. PaidOut' = PaidTo(chain')
  <2>1. (PaidOut = PaidTo(chain))'
    BY PaidOutIsPaidTo, PTL
  <2>. QED
    BY <2>1, Zenon
<1>2. SumOver(chain.accrued) = Pending(chain) /\ SumOver(chain'.accrued) = Pending(chain')
  BY Zenon DEF Pending
<1>. QED
  BY <1>1, <1>2, PaidOutIsPaidTo, Zenon

LEMMA PaidToOthersOnly ==
    ASSUME NEW c \in ChainState, NEW d, StakingEffect(c, d)
    PROVE  PaidTo(d) = PaidTo(c)
<1>1. PaymentEffect(c, d, 0, Self)
  BY StakingPaysNothing
<1>2. PaidTo(d) = PaidTo(c) + Share(Self # Self, 0) /\ PaidTo(c) \in Nat
  BY <1>1, PaymentIsReceived, PermissionAssumption
<1>. QED
  BY <1>2 DEF Share

PayPrincipalView(n) ==
    /\ n <= Owed + SurplusNow
    /\ Owed' = Owed - n
    /\ withdrawn_unlocked' + withdrawn_locked' = withdrawn_unlocked + withdrawn_locked + n
    /\ \/ PaidTo(chain') = PaidTo(chain) + n /\ SurplusNow' = SurplusNow
       \/ SurplusNow' = SurplusNow + n /\ PaidTo(chain') = PaidTo(chain)
    /\ Pending(chain') = Pending(chain)
    /\ withdrawn_staking_rewards' = withdrawn_staking_rewards

LEMMA PayPrincipalViewed ==
    ASSUME NEW n, PayPrincipalView(n)
    PROVE  Purse!PayPrincipal(n)
BY PurseVariables DEF PayPrincipalView, Purse!PayPrincipal, SurplusNow

LEMMA StutterViewed ==
    ASSUME Owed' = Owed, SurplusNow' = SurplusNow, Pending(chain') = Pending(chain),
           withdrawn_unlocked' + withdrawn_locked' = withdrawn_unlocked + withdrawn_locked,
           withdrawn_staking_rewards' = withdrawn_staking_rewards,
           PaidTo(chain') = PaidTo(chain)
    PROVE  UNCHANGED Purse!vars
BY PurseVariables DEF Purse!vars, SurplusNow

LEMMA ArriveViewed ==
    ASSUME NEW n, Owed' = Owed, SurplusNow' = SurplusNow + n, Pending(chain') = Pending(chain) - n,
           withdrawn_unlocked' + withdrawn_locked' = withdrawn_unlocked + withdrawn_locked,
           withdrawn_staking_rewards' = withdrawn_staking_rewards,
           PaidTo(chain') = PaidTo(chain)
    PROVE  Purse!Arrive(n)
BY PurseVariables DEF Purse!Arrive, SurplusNow

LEMMA FortuneViewed ==
    ASSUME Owed' = Owed,
           \/ Pending(chain') = Pending(chain) + 1 /\ SurplusNow' = SurplusNow
           \/ SurplusNow' \in {SurplusNow - 1, SurplusNow + 1} /\ Pending(chain') = Pending(chain),
           withdrawn_unlocked' + withdrawn_locked' = withdrawn_unlocked + withdrawn_locked,
           withdrawn_staking_rewards' = withdrawn_staking_rewards,
           PaidTo(chain') = PaidTo(chain)
    PROVE  Purse!Fortune
BY PurseVariables DEF Purse!Fortune, SurplusNow

PayRewardsView(n) ==
    /\ Pending(chain) <= n /\ n <= Pending(chain) + Max({0, SurplusNow})
    /\ Pending(chain') = 0
    /\ withdrawn_staking_rewards' = withdrawn_staking_rewards + n
    /\ \/ PaidTo(chain') = PaidTo(chain) + n
             /\ SurplusNow' = SurplusNow + Pending(chain) - n
       \/ SurplusNow' = SurplusNow + Pending(chain) /\ PaidTo(chain') = PaidTo(chain)
    /\ Owed' = Owed
    /\ withdrawn_unlocked' + withdrawn_locked' = withdrawn_unlocked + withdrawn_locked

LEMMA PayRewardsViewed ==
    ASSUME NEW n, PayRewardsView(n)
    PROVE  Purse!PayRewards(n)
<1>1. Purse!Max({0, SurplusNow}) = Max({0, SurplusNow})
  BY Zenon DEF Purse!Max, Max
<1>. QED
  BY <1>1, PurseVariables DEF PayRewardsView, Purse!PayRewards, SurplusNow

PurseStep == [Purse!Next]_Purse!vars

LEMMA StakingStepIsPurseStep ==
    ASSUME FundsInv, StakingStep, BooksOK'
    PROVE  PurseStep
<1>. DEFINE c == chain'
            n == Pending(chain) - Pending(c)
<1>1. c \in ChainState /\ Pending(c) <= Pending(chain)
      /\ Assets(c) + Pending(c) = Assets(chain) + Pending(chain)
      /\ withdrawn_staking_rewards' = withdrawn_staking_rewards
      /\ withdrawn_unlocked' = withdrawn_unlocked /\ withdrawn_locked' = withdrawn_locked
      /\ Owed' = Owed
  BY DEF StakingStep, StakingEffect, books, Owed
<1>2. /\ Pending(c) \in Nat /\ Assets(c) \in Nat /\ Pending(chain) \in Nat
      /\ Assets(chain) \in Nat /\ Owed \in Nat
      /\ SurplusNow = Assets(chain) - Owed /\ SurplusNow' = Assets(c) - Owed'
  BY <1>1, PurseAmounts
<1>3. PaidTo(c) = PaidTo(chain)
  BY <1>1, PaidToOthersOnly, AmountsBefore DEF StakingStep, StakingEffect
<1>4. /\ n \in Nat /\ n <= Pending(chain) /\ Pending(c) = Pending(chain) - n
      /\ SurplusNow' = SurplusNow + n
  <2>. DEFINE assets == Assets(chain)
              assetsAfter == Assets(c)
              pending == Pending(chain)
              pendingAfter == Pending(c)
              owed == Owed
              surplusAfter == SurplusNow'
  <2>1. /\ pendingAfter \in Nat /\ assetsAfter \in Nat /\ pending \in Nat /\ assets \in Nat
        /\ owed \in Nat /\ surplusAfter = assetsAfter - owed /\ SurplusNow = assets - owed
        /\ pendingAfter <= pending /\ assetsAfter + pendingAfter = assets + pending
    BY <1>1, <1>2
  <2>. SUFFICES /\ pending - pendingAfter \in Nat /\ pending - pendingAfter <= pending
                /\ pendingAfter = pending - (pending - pendingAfter)
                /\ surplusAfter = SurplusNow + (pending - pendingAfter)
    OBVIOUS
  <2>. HIDE DEF assets, assetsAfter, pending, pendingAfter, owed, surplusAfter
  <2>. QED
    BY <2>1
<1>. HIDE DEF n
<1>5. CASE n = 0
  <2>1. SurplusNow' = SurplusNow /\ Pending(c) = Pending(chain)
    BY <1>2, <1>4, <1>5
  <2>2. UNCHANGED Purse!vars
    BY <1>1, <1>3, <2>1, StutterViewed
  <2>. QED
    BY <2>2 DEF PurseStep
<1>6. CASE n # 0
  <2>1. Purse!Arrive(n)
    BY <1>1, <1>3, <1>4, ArriveViewed
  <2>2. n \in 1..Pending(chain)
    BY <1>2, <1>4, <1>6
  <2>3. n \in 1..SumOver(chain.accrued)
    BY <2>2 DEF Pending
  <2>. QED
    BY <2>1, <2>3 DEF PurseStep, Purse!Next
<1>. QED
  BY <1>5, <1>6

LEMMA PrincipalStepIsPurseStep ==
    ASSUME FundsInv, NEW n \in Nat, NEW to \in Address, PrincipalStep(n, to), BooksOK'
    PROVE  PurseStep
<1>. DEFINE c == chain'
            share == Share(to # Self, n)
<1>1. PaymentEffect(chain, c, n, to) /\ c \in ChainState /\ Pending(c) = Pending(chain)
      /\ n <= chain.bank[Self] /\ total_amount' = total_amount
      /\ withdrawn_staking_rewards' = withdrawn_staking_rewards
      /\ \/ withdrawn_unlocked' = withdrawn_unlocked + n /\ withdrawn_locked' = withdrawn_locked
         \/ withdrawn_locked' = withdrawn_locked + n /\ withdrawn_unlocked' = withdrawn_unlocked
  BY DEF PrincipalStep, PaymentEffect
<1>2. /\ Assets(c) \in Nat /\ Pending(chain) \in Nat
      /\ Assets(chain) \in Nat /\ Owed \in Nat /\ Owed' \in Nat
      /\ SurplusNow = Assets(chain) - Owed /\ SurplusNow' = Assets(c) - Owed'
      /\ Owed = total_amount - withdrawn_unlocked - withdrawn_locked
      /\ Owed' = total_amount' - withdrawn_unlocked' - withdrawn_locked'
      /\ total_amount \in Nat /\ withdrawn_unlocked \in Nat /\ withdrawn_locked \in Nat
  BY <1>1, PurseAmounts
<1>3. withdrawn_unlocked' + withdrawn_locked' = withdrawn_unlocked + withdrawn_locked + n
  BY <1>1, <1>2
<1>4. Owed' = Owed - n
  <2>1. CASE withdrawn_unlocked' = withdrawn_unlocked + n /\ withdrawn_locked' = withdrawn_locked
    BY <1>1, <1>2, <2>1
  <2>2. CASE withdrawn_locked' = withdrawn_locked + n /\ withdrawn_unlocked' = withdrawn_unlocked
    BY <1>1, <1>2, <2>2
  <2>. QED
    BY <1>1, <2>1, <2>2
<1>5. PaidTo(c) = PaidTo(chain) + share /\ PaidTo(chain) \in Nat
  BY <1>1, PaymentIsReceived, AmountsBefore
<1>6. n <= Assets(chain)
  BY <1>1, AmountsBefore
<1>7. Assets(c) + Pending(c) + share = Assets(chain) + Pending(chain)
  BY <1>1 DEF PaymentEffect
<1>8. share = n \/ share = 0
  BY DEF Share
<1>. HIDE DEF share
<1>9. /\ n <= Owed /\ n <= Owed + SurplusNow
      /\ \/ PaidTo(c) = PaidTo(chain) + n /\ SurplusNow' = SurplusNow
         \/ SurplusNow' = SurplusNow + n /\ PaidTo(c) = PaidTo(chain)
  <2>. DEFINE assets == Assets(chain)
              assetsAfter == Assets(c)
              pending == Pending(chain)
              owed == Owed
              surplusAfter == SurplusNow'
              owedAfter == Owed'
              paid == PaidTo(chain)
              paidAfter == PaidTo(c)
  <2>1. /\ assetsAfter \in Nat /\ pending \in Nat /\ assets \in Nat
        /\ owed \in Nat /\ owedAfter \in Nat /\ surplusAfter = assetsAfter - owedAfter
        /\ SurplusNow = assets - owed /\ owedAfter = owed - n
        /\ assetsAfter + pending + share = assets + pending /\ n <= assets
        /\ paid \in Nat /\ paidAfter = paid + share
    BY <1>1, <1>2, <1>4, <1>5, <1>6, <1>7
  <2>. SUFFICES /\ n <= owed /\ n <= owed + SurplusNow
                /\ \/ paidAfter = paid + n /\ surplusAfter = SurplusNow
                   \/ surplusAfter = SurplusNow + n /\ paidAfter = paid
    OBVIOUS
  <2>. HIDE DEF assets, assetsAfter, pending, owed, owedAfter, surplusAfter, paid, paidAfter
  <2>2. n <= owed /\ n <= owed + SurplusNow
    BY <2>1
  <2>3. CASE share = n
    BY <2>1, <2>2, <2>3
  <2>4. CASE share = 0
    BY <2>1, <2>2, <2>4
  <2>. QED
    BY <1>8, <2>3, <2>4
<1>10. CASE n = 0
  <2>1. /\ Owed' = Owed
        /\ withdrawn_unlocked' + withdrawn_locked' = withdrawn_unlocked + withdrawn_locked
    BY <1>2, <1>3, <1>4, <1>10
  <2>4. PaidTo(c) = PaidTo(chain)
    BY <1>5, <1>8, <1>10
  <2>2. SurplusNow' = SurplusNow
    BY <1>2, <1>9, <1>10
  <2>3. UNCHANGED Purse!vars
    BY <1>1, <2>1, <2>2, <2>4, StutterViewed
  <2>. QED
    BY <2>3 DEF PurseStep
<1>11. CASE n # 0
  <2>1. PayPrincipalView(n)
    BY <1>1, <1>3, <1>4, <1>9, Zenon DEF PayPrincipalView
  <2>2. n \in 1..Owed
    BY <1>2, <1>9, <1>11
  <2>3. Purse!PayPrincipal(n)
    BY <2>1, PayPrincipalViewed
  <2>. QED
    BY <2>2, <2>3 DEF PurseStep, Purse!Next
<1>. QED
  BY <1>10, <1>11

LEMMA RewardStepIsPurseStep ==
    ASSUME FundsInv, RewardStep, BooksOK'
    PROVE  PurseStep
<1>. DEFINE c == chain'
            w == CalculateWithdrawnRewards
            n == w + Pending(chain)
            to == staking_reward_address
            share == Share(to # Self, n)
            most == Max({0, SurplusNow})
<1>1. PaymentEffect(chain, c, n, to) /\ c \in ChainState /\ Pending(c) = 0
      /\ withdrawn_staking_rewards' = withdrawn_staking_rewards + n
      /\ Owed' = Owed
      /\ withdrawn_unlocked' + withdrawn_locked' = withdrawn_unlocked + withdrawn_locked
  BY DEF RewardStep, PaymentEffect, books, Owed
<1>2. /\ Assets(c) \in Nat /\ Pending(chain) \in Nat
      /\ Assets(chain) \in Nat /\ Owed \in Nat /\ withdrawn_staking_rewards \in Nat
      /\ SurplusNow = Assets(chain) - Owed /\ SurplusNow' = Assets(c) - Owed'
      /\ SurplusNow \in Int
  BY <1>1, PurseAmounts
<1>3. w \in Nat /\ w <= MaxZero(SurplusNow)
  BY <1>2, WithdrawnRewards DEF FundsInv, FundsTyped
<1>4. most = MaxZero(SurplusNow)
  <2>1. 0 \in Int /\ SurplusNow \in Int
    BY <1>2
  <2>2. most = IF 0 >= SurplusNow THEN 0 ELSE SurplusNow
    BY <2>1, MinMaxOfTwo, Zenon
  <2>. HIDE DEF most
  <2>. QED
    BY <1>2, <2>2 DEF MaxZero
<1>5. PaidTo(c) = PaidTo(chain) + share /\ PaidTo(chain) \in Nat
  <2>1. n \in Nat /\ to \in Address
    BY <1>2, <1>3 DEF FundsInv, FundsTyped
  <2>. HIDE DEF n, to
  <2>. QED
    BY <1>1, <2>1, PaymentIsReceived, AmountsBefore
<1>6. Assets(c) + Pending(c) + share = Assets(chain) + Pending(chain)
  BY <1>1 DEF PaymentEffect
<1>7. share = n \/ share = 0
  BY DEF Share
<1>. HIDE DEF w, share, most
<1>8. /\ Pending(chain) <= n /\ n <= Pending(chain) + most /\ n \in Nat
      /\ Pending(chain) + most \in Nat
      /\ \/ PaidTo(c) = PaidTo(chain) + n
               /\ SurplusNow' = SurplusNow + Pending(chain) - n
         \/ SurplusNow' = SurplusNow + Pending(chain) /\ PaidTo(c) = PaidTo(chain)
      /\ n = 0 => /\ SurplusNow' = SurplusNow /\ PaidTo(c) = PaidTo(chain)
                  /\ Pending(c) = Pending(chain)
                  /\ withdrawn_staking_rewards' = withdrawn_staking_rewards
  <2>. DEFINE assets == Assets(chain)
              assetsAfter == Assets(c)
              pending == Pending(chain)
              pendingAfter == Pending(c)
              owed == Owed
              surplus == SurplusNow
              surplusAfter == SurplusNow'
              paid == PaidTo(chain)
              paidAfter == PaidTo(c)
              booked == withdrawn_staking_rewards
              bookedAfter == withdrawn_staking_rewards'
  <2>1. /\ assetsAfter \in Nat /\ pending \in Nat /\ assets \in Nat /\ pendingAfter = 0
        /\ owed \in Nat /\ surplusAfter = assetsAfter - owed
        /\ surplus = assets - owed
        /\ assetsAfter + pendingAfter + share = assets + pending
        /\ paid \in Nat /\ paidAfter = paid + share
        /\ booked \in Nat /\ bookedAfter = booked + (w + pending)
    BY <1>1, <1>2, <1>5, <1>6
  <2>2. most = MaxZero(surplus) /\ w \in Nat /\ w <= MaxZero(surplus)
    BY <1>3, <1>4
  <2>. SUFFICES /\ pending <= (w + pending) /\ (w + pending) <= pending + most
                /\ (w + pending) \in Nat /\ pending + most \in Nat
                /\ \/ paidAfter = paid + (w + pending) /\ surplusAfter = surplus + pending - (w + pending)
                   \/ surplusAfter = surplus + pending /\ paidAfter = paid
                /\ (w + pending) = 0 =>
                       /\ surplusAfter = surplus /\ paidAfter = paid
                       /\ pendingAfter = pending /\ bookedAfter = booked
    OBVIOUS
  <2>3. share = (w + pending) \/ share = 0
    BY <1>7
  <2>. HIDE DEF assets, assetsAfter, pending, pendingAfter, owed, surplus, surplusAfter,
                paid, paidAfter, booked, bookedAfter
  <2>4. /\ pending <= (w + pending) /\ (w + pending) <= pending + most
        /\ (w + pending) \in Nat /\ pending + most \in Nat
    BY <2>1, <2>2 DEF MaxZero
  <2>5. \/ paidAfter = paid + (w + pending) /\ surplusAfter = surplus + pending - (w + pending)
        \/ surplusAfter = surplus + pending /\ paidAfter = paid
    BY <2>1, <2>2, <2>3
  <2>6. (w + pending) = 0 =>
            /\ surplusAfter = surplus /\ paidAfter = paid
            /\ pendingAfter = pending /\ bookedAfter = booked
    BY <2>1, <2>2, <2>3
  <2>. QED
    BY <2>4, <2>5, <2>6, Zenon
<1>9. CASE n = 0
  <2>1. UNCHANGED Purse!vars
    BY <1>1, <1>8, <1>9, StutterViewed
  <2>. QED
    BY <2>1 DEF PurseStep
<1>10. CASE n # 0
  <2>1. PayRewardsView(n)
    BY <1>1, <1>8, Zenon DEF PayRewardsView, most
  <2>2. n \in 1..(Pending(chain) + most)
    BY <1>8, <1>10
  <2>3. Purse!PayRewards(n)
    BY <2>1, PayRewardsViewed
  <2>4. Pending(chain) + most
            = SumOver(chain.accrued) + Purse!Max({0, Assets(chain) - Owed})
    BY Zenon DEF Pending, most, Max, Purse!Max, SurplusNow
  <2>5. n \in 1..(SumOver(chain.accrued) + Purse!Max({0, Assets(chain) - Owed}))
    BY <2>2, <2>4, Zenon
  <2>. HIDE DEF n
  <2>. QED
    BY <2>3, <2>5 DEF PurseStep, Purse!Next
<1>. QED
  BY <1>9, <1>10

LEMMA ChainStepIsPurseStep ==
    ASSUME FundsInv, BooksOK', NEW u \in {<<0, 0, 0>>, <<1, 0, 0>>, <<0, 1, 0>>, <<0, 0, 1>>},
           ChainStep(u[1], u[2], u[3])
    PROVE  PurseStep
<1>. DEFINE c == chain'
            assets == Assets(chain)
            assetsAfter == Assets(c)
            pending == Pending(chain)
            pendingAfter == Pending(c)
            owed == Owed
            surplus == SurplusNow
            surplusAfter == SurplusNow'
<1>1. /\ c \in ChainState /\ pendingAfter = pending + u[1] /\ assetsAfter = assets + u[3] - u[2]
      /\ \A a \in Others : c.bank[a] = chain.bank[a]
      /\ withdrawn_staking_rewards' = withdrawn_staking_rewards
      /\ withdrawn_unlocked' + withdrawn_locked' = withdrawn_unlocked + withdrawn_locked
      /\ Owed' = owed
  BY DEF ChainStep, books, Owed
<1>2. PaidTo(c) = PaidTo(chain)
  <2>1. c.bank \in [Address -> Nat] /\ chain.bank \in [Address -> Nat]
    BY <1>1, ChainAmounts, AmountsBefore
  <2>2. IsFiniteSet(Others) /\ AgreesOn(c.bank, chain.bank, Others)
    BY <1>1, PermissionAssumption, FS_Subset DEF Others, AgreesOn
  <2>. QED
    BY <2>2, SetSumAgree DEF PaidTo, Others
<1>3. /\ pending \in Nat /\ assets \in Nat /\ owed \in Nat
      /\ surplus = assets - owed /\ surplusAfter = assetsAfter - owed
  BY <1>1, PurseAmounts
<1>. SUFFICES ASSUME \/ pendingAfter = pending /\ surplusAfter = surplus
                     \/ pendingAfter = pending + 1 /\ surplusAfter = surplus
                     \/ surplusAfter \in {surplus - 1, surplus + 1} /\ pendingAfter = pending
              PROVE  PurseStep
  <2>. HIDE DEF assets, assetsAfter, pending, pendingAfter, owed, surplus, surplusAfter
  <2>1. CASE u = <<0, 0, 0>>
    BY <1>1, <1>3, <2>1
  <2>2. CASE u = <<1, 0, 0>>
    BY <1>1, <1>3, <2>2
  <2>3. CASE u = <<0, 1, 0>>
    BY <1>1, <1>3, <2>3
  <2>4. CASE u = <<0, 0, 1>>
    BY <1>1, <1>3, <2>4
  <2>. QED
    BY <2>1, <2>2, <2>3, <2>4
<1>4. CASE pendingAfter = pending /\ surplusAfter = surplus
  <2>1. UNCHANGED Purse!vars
    BY <1>1, <1>2, <1>4, StutterViewed
  <2>. QED
    BY <2>1 DEF PurseStep
<1>5. CASE \/ pendingAfter = pending + 1 /\ surplusAfter = surplus
           \/ surplusAfter \in {surplus - 1, surplus + 1} /\ pendingAfter = pending
  <2>1. Purse!Fortune
    BY <1>1, <1>2, <1>5, FortuneViewed
  <2>. QED
    BY <2>1 DEF PurseStep, Purse!Next
<1>. QED
  BY <1>4, <1>5

LEMMA FundsStepIsPurseStep ==
    FundsInv /\ FundsStep /\ BooksOK' => PurseStep
<1>. SUFFICES ASSUME FundsInv, FundsStep, BooksOK' PROVE PurseStep
  OBVIOUS
<1>1. CASE AddressStep \/ QuietStep
  <2>1. /\ chain' = chain /\ withdrawn_staking_rewards' = withdrawn_staking_rewards
        /\ withdrawn_unlocked' + withdrawn_locked' = withdrawn_unlocked + withdrawn_locked
        /\ Owed' = Owed
    BY <1>1 DEF AddressStep, QuietStep, books, Owed
  <2>2. SurplusNow' = SurplusNow
    BY <2>1 DEF SurplusNow
  <2>3. UNCHANGED Purse!vars
    BY <2>1, <2>2, StutterViewed
  <2>. QED
    BY <2>3 DEF PurseStep
<1>. QED
  BY <1>1, StakingStepIsPurseStep, PrincipalStepIsPurseStep, RewardStepIsPurseStep,
     ChainStepIsPurseStep DEF FundsStep

LEMMA PurseInitially == FundsInit => Purse!Init
<1>. SUFFICES ASSUME FundsInit PROVE Purse!Init
  OBVIOUS
<1>1. FundsInv /\ withdrawn_unlocked = 0 /\ withdrawn_locked = 0 /\ withdrawn_staking_rewards = 0
      /\ history.slashed = 0 /\ history.earned = 0 /\ chain.returned = 0
  BY FundsInitially DEF FundsInit, VestingInit
<1>2. /\ Owed \in Nat /\ Assets(chain) \in Nat /\ Pending(chain) \in Nat /\ PaidTo(chain) \in Nat
  BY <1>1, AmountsBefore
<1>3. Pending(chain) = 0
  BY <1>1, <1>2 DEF FundsInv, RewardsAccounted
<1>4. PaidTo(chain) = 0
  BY <1>1, <1>2 DEF FundsInv, PaymentsBooked
<1>5. Assets(chain) - Owed \in Nat
  <2>1. Assets(chain) >= Owed
    BY <1>1, <1>2 DEF FundsInv, Solvent
  <2>. QED
    BY <1>2, <2>1
<1>. QED
  BY <1>1, <1>2, <1>3, <1>4, <1>5, PurseVariables DEF Purse!Init

\* Every step of the treasury is a step of Custody, or none: whatever staking does with
\* the coins, they stay in the purse they belong to, and calculate_withdrawn_rewards finds
\* what is in the second.
THEOREM TreasuryIsCustody == TreasurySpec => ImplementsCustody
<1>1. TreasuryInit => Purse!Init
  BY PurseInitially DEF TreasuryInit
<1>2. FundsInv /\ [TreasuryNext]_treasuryVars => [Purse!Next]_Purse!vars
  BY TreasuryVestingStep, TreasuryFundsStep, FundsStepBooks, FundsStepIsPurseStep DEF PurseStep
<1>. QED
  BY <1>1, <1>2, TreasuryFunds, PTL DEF TreasurySpec, ImplementsCustody, Purse!Spec
=============================================================================
