------------------------------ MODULE Treasury ------------------------------
(***************************************************************************)
(* The treasury of the contract: the operators' handlers (delegate,        *)
(* redelegate, undelegate, withdraw unlocked, withdraw rewards), the       *)
(* handlers only the contract may call on itself, and the chain they act   *)
(* on.  A handler reads the chain, updates the books (Vesting) and returns *)
(* messages; the chain then executes them one by one, and when one of them *)
(* fails the whole transaction is rolled back: it is no step.              *)
(***************************************************************************)
EXTENDS Permission, Vesting, SequencesExt

CONSTANTS
    NumValidators,
    Recipients,     \* bound: the addresses payments are ever directed to
    Amounts,        \* bound: the amounts operators name
    MaxUnbonding,     \* the chain's limit of unbonding entries at one validator
    MaxReward,      \* bound: staking rewards ever earned
    MaxSlash,       \* bound: coins ever slashed
    MaxDeposit,     \* bound: coins ever sent to the contract from outside
    MaxReturned     \* bound: coins the contract ever sends to itself

ASSUME TreasuryAssumption ==
    /\ NumValidators \in Nat \ {0}
    /\ Recipients \subseteq Address
    /\ Amounts \subseteq Nat
    /\ {MaxUnbonding, MaxReward, MaxSlash, MaxDeposit, MaxReturned} \subseteq Nat

Validators == 1..NumValidators

VARIABLES
    unlock_distribution_address,
    staking_reward_address,
    withdrawn_staking_rewards,
    chain,          \* what the chain's bank and staking modules hold for the contract
    history         \* what the environment has done: coins earned, slashed, deposited

treasuryVars ==
    <<admins, ops, vestingVars, unlock_distribution_address, staking_reward_address,
      withdrawn_staking_rewards, chain, history>>
-----------------------------------------------------------------------------
(* The chain (external): bank balances, delegations, rewards accrued at    *)
(* each delegation, unbonding entries.  Exec gives the states a message    *)
(* can lead to, none when the chain refuses it.                            *)

SumOver(f) == Total([v \in 1..NumValidators |-> f[v]])
Balances(entries) == Total([i \in DOMAIN entries |-> entries[i].balance])

Staked(c) == SumOver(c.delegated)
Assets(c) == c.bank[Self] + Staked(c) + Balances(c.unbonding)

\* The bank refuses a transfer of nothing.  A transfer to the contract itself moves
\* nothing; c.returned keeps count of them.
ExecSend(c, to, amount) ==
    IF amount > 0 /\ c.bank[Self] >= amount
    THEN IF to = Self
         THEN {d \in {[c EXCEPT !.returned = @ + amount]} : d.returned <= MaxReturned}
         ELSE {[c EXCEPT !.bank[Self] = @ - amount, !.bank[to] = @ + amount]}
    ELSE {}

\* The distribution module pays out what a delegation has earned, on request and
\* before every change of the delegation.
PayRewards(c, v) ==
    [c EXCEPT !.bank[Self] = @ + c.accrued[v], !.accrued[v] = 0]

ExecWithdrawReward(c, v) == IF c.delegated[v] > 0 THEN {PayRewards(c, v)} ELSE {}

ExecDelegate(c, v, amount) ==
    LET d == PayRewards(c, v)
    IN  IF amount > 0 /\ d.bank[Self] >= amount
        THEN {[d EXCEPT !.bank[Self] = @ - amount, !.delegated[v] = @ + amount]}
        ELSE {}

ExecRedelegate(c, src, dst, amount) ==
    LET d == PayRewards(PayRewards(c, src), dst)
    IN  IF src # dst /\ amount > 0 /\ d.delegated[src] >= amount
        THEN {[d EXCEPT !.delegated[src] = @ - amount, !.delegated[dst] = @ + amount]}
        ELSE {}

ExecUndelegate(c, v, amount) ==
    LET d == PayRewards(c, v)
        entry == [validator |-> v, initial_balance |-> amount, balance |-> amount]
    IN  IF /\ amount > 0 /\ d.delegated[v] >= amount
           /\ Cardinality({i \in DOMAIN d.unbonding : d.unbonding[i].validator = v}) < MaxUnbonding
        THEN {[d EXCEPT !.delegated[v] = @ - amount, !.unbonding = Append(@, entry)]}
        ELSE {}

Exec(c, m) ==
    CASE m.type = "Send"           -> ExecSend(c, m.to, m.amount)
      [] m.type = "WithdrawReward" -> ExecWithdrawReward(c, m.validator)
      [] m.type = "Delegate"       -> ExecDelegate(c, m.validator, m.amount)
      [] m.type = "Redelegate"     -> ExecRedelegate(c, m.validator, m.to, m.amount)
      [] m.type = "Undelegate"     -> ExecUndelegate(c, m.validator, m.amount)

\* The messages of a response, in order.
Run(c, msgs) ==
    LET run[i \in 0..Len(msgs)] ==
          IF i = 0 THEN {c} ELSE UNION {Exec(d, msgs[i]) : d \in run[i - 1]}
    IN  run[Len(msgs)]

Dispatch(msgs) == chain' \in Run(chain, msgs)
-----------------------------------------------------------------------------
(* The messages the handlers return (staking.rs, vesting.rs).              *)

SendMsg(to, amount) == [type |-> "Send", to |-> to, amount |-> amount]
DelegateMsg(v, amount) == [type |-> "Delegate", validator |-> v, amount |-> amount]
RedelegateMsg(src, dst, amount) ==
    [type |-> "Redelegate", validator |-> src, to |-> dst, amount |-> amount]
UndelegateMsg(v, amount) == [type |-> "Undelegate", validator |-> v, amount |-> amount]
WithdrawRewardMsg(v) == [type |-> "WithdrawReward", validator |-> v]

FaultDistributeVested(amount) ==
    IF amount = 0 THEN <<>> ELSE <<SendMsg(staking_reward_address, amount)>>
DistributeVested(amount) ==
    IF amount = 0 THEN <<>> ELSE <<SendMsg(unlock_distribution_address, amount)>>

WithdrawDelegationRewards(v, amount) ==
    <<WithdrawRewardMsg(v), SendMsg(staking_reward_address, amount)>>

\* What the handlers ask the chain.
FaultAllDelegatedValidators == Validators
AllDelegatedValidators == {v \in Validators : chain.delegated[v] > 0}

UnbondingBalance == Balances(chain.unbonding)

DelegationRewards(v) == chain.accrued[v]

\* The same as the comment above calculate_withdrawn_rewards describes it: "we will
\* ignore unbonding amount in the calculationg for now".
RewardsIgnoringUnbonding ==
    LET elsewhere == withdrawn_locked + withdrawn_unlocked + Staked(chain)
        principal_in_bank == IF elsewhere < total_amount THEN total_amount - elsewhere ELSE 0
        bank_balance == chain.bank[Self]
    IN  IF principal_in_bank < bank_balance THEN bank_balance - principal_in_bank ELSE 0

\* What is still scheduled taken for TOTAL_AMOUNT.
FaultCalculateWithdrawnRewards ==
    LET withdrawn_principal == withdrawn_locked + withdrawn_unlocked
        elsewhere == withdrawn_principal + Staked(chain) + UnbondingBalance
        total_locked == Total(vesting_amounts)
        principal_in_bank == IF elsewhere < total_locked THEN total_locked - elsewhere ELSE 0
        bank_balance == chain.bank[Self]
    IN  IF principal_in_bank < bank_balance THEN bank_balance - principal_in_bank ELSE 0

\* The principal in the bank subtracted without the comparison: the difference wraps.
FaultUnsignedPrincipal ==
    LET width == 2 ^ 16
        elsewhere == withdrawn_locked + withdrawn_unlocked + Staked(chain) + UnbondingBalance
        principal_in_bank == (total_amount - elsewhere) % width
        bank_balance == chain.bank[Self]
    IN  IF principal_in_bank < bank_balance THEN bank_balance - principal_in_bank ELSE 0

\* Rewards the chain has already paid into the contract: its bank balance less the
\* principal that should be there.
CalculateWithdrawnRewards ==
    LET withdrawn_principal == withdrawn_locked + withdrawn_unlocked
        elsewhere == withdrawn_principal + Staked(chain) + UnbondingBalance
        principal_in_bank == IF elsewhere < total_amount THEN total_amount - elsewhere ELSE 0
        bank_balance == chain.bank[Self]
    IN  IF principal_in_bank < bank_balance THEN bank_balance - principal_in_bank ELSE 0
-----------------------------------------------------------------------------
(* The operators' handlers. *)

addresses == <<unlock_distribution_address, staking_reward_address>>
roles == <<admins, ops>>

ExecuteDelegate(sender, v, amount) ==
    /\ AuthorizeOp(sender)
    /\ Dispatch(<<DelegateMsg(v, amount)>>)
    /\ UNCHANGED <<roles, vestingVars, addresses, withdrawn_staking_rewards, history>>

ExecuteRedelegate(sender, src, dst, amount) ==
    /\ AuthorizeOp(sender)
    /\ Dispatch(<<RedelegateMsg(src, dst, amount)>>)
    /\ UNCHANGED <<roles, vestingVars, addresses, withdrawn_staking_rewards, history>>

ExecuteUndelegate(sender, v, amount) ==
    /\ AuthorizeOp(sender)
    /\ Dispatch(<<UndelegateMsg(v, amount)>>)
    /\ UNCHANGED <<roles, vestingVars, addresses, withdrawn_staking_rewards, history>>

ExecuteInitiateWithdrawUnlocked(sender, amount) ==
    /\ AuthorizeOp(sender)
    /\ WithdrawUnlocked(amount)
    /\ Dispatch(DistributeVested(amount))
    /\ UNCHANGED <<roles, now, addresses, withdrawn_staking_rewards, history>>

\* The loop over the delegated validators, as far as validator v.
FaultRewardMsgs(already_withdrawn) ==
    LET msgs[v \in 0..NumValidators] ==
          IF v = 0
          THEN IF already_withdrawn > 0
               THEN <<SendMsg(staking_reward_address, already_withdrawn)>> ELSE <<>>
          ELSE IF v \in AllDelegatedValidators
               THEN msgs[v - 1]
                    \o WithdrawDelegationRewards(v, already_withdrawn + DelegationRewards(v))
               ELSE msgs[v - 1]
    IN  msgs[NumValidators]
RewardMsgs(already_withdrawn) ==
    LET msgs[v \in 0..NumValidators] ==
          IF v = 0
          THEN IF already_withdrawn > 0
               THEN <<SendMsg(staking_reward_address, already_withdrawn)>> ELSE <<>>
          ELSE IF v \in AllDelegatedValidators
               THEN msgs[v - 1] \o WithdrawDelegationRewards(v, DelegationRewards(v))
               ELSE msgs[v - 1]
    IN  msgs[NumValidators]

\* What execute_initiate_withdraw_reward books: its running total.
FaultRewardTotal(already_withdrawn) == already_withdrawn
RewardTotal(already_withdrawn) ==
    already_withdrawn + SumOver([v \in Validators |->
        IF v \in AllDelegatedValidators THEN DelegationRewards(v) ELSE 0])

ExecuteInitiateWithdrawReward(sender) ==
    /\ AuthorizeOp(sender)
    /\ Dispatch(RewardMsgs(CalculateWithdrawnRewards))
    /\ withdrawn_staking_rewards' =
           withdrawn_staking_rewards + RewardTotal(CalculateWithdrawnRewards)
    /\ UNCHANGED <<roles, vestingVars, addresses, history>>
-----------------------------------------------------------------------------
(* The handlers the contract calls on itself when a proposal is executed. *)

ExecuteInternalUpdateUnlockedDistributionAddress(sender, addr) ==
    /\ AuthorizeSelfCall(sender)
    /\ unlock_distribution_address' = addr
    /\ UNCHANGED <<vestingVars, staking_reward_address, withdrawn_staking_rewards,
                   chain, history>>

ExecuteInternalUpdateStakingRewardDistributionAddress(sender, addr) ==
    /\ AuthorizeSelfCall(sender)
    /\ staking_reward_address' = addr
    /\ UNCHANGED <<vestingVars, unlock_distribution_address, withdrawn_staking_rewards,
                   chain, history>>

ExecuteInternalWithdrawLocked(sender, dst) ==
    /\ AuthorizeSelfCall(sender)
    /\ WithdrawLocked
    /\ Dispatch(<<SendMsg(dst, Total(vesting_amounts))>>)
    /\ UNCHANGED <<now, addresses, withdrawn_staking_rewards, history>>
-----------------------------------------------------------------------------
(* The chain between transactions (external). *)

contractVars ==
    <<roles, books, addresses, withdrawn_staking_rewards>>

EarnReward(v) ==
    /\ history.earned < MaxReward
    /\ chain.delegated[v] > 0
    /\ chain' = [chain EXCEPT !.accrued[v] = @ + 1]
    /\ history' = [history EXCEPT !.earned = @ + 1]

\* A validator's fault costs its delegations and what is unbonding from it.
Slash(v) ==
    /\ history.slashed < MaxSlash
    /\ chain.delegated[v] > 1
    /\ chain' = [chain EXCEPT !.delegated[v] = @ - 1]
    /\ history' = [history EXCEPT !.slashed = @ + 1]

SlashUnbonding(i) ==
    /\ history.slashed < MaxSlash
    /\ chain.unbonding[i].balance > 0
    /\ chain' = [chain EXCEPT !.unbonding[i].balance = @ - 1]
    /\ history' = [history EXCEPT !.slashed = @ + 1]

CompleteUnbonding(i) ==
    /\ chain' = [chain EXCEPT !.bank[Self] = @ + chain.unbonding[i].balance,
                              !.unbonding = RemoveAt(@, i)]
    /\ UNCHANGED history

Deposit ==
    /\ history.deposited < MaxDeposit
    /\ chain' = [chain EXCEPT !.bank[Self] = @ + 1]
    /\ history' = [history EXCEPT !.deposited = @ + 1]

Environment ==
    /\ \/ \E v \in Validators : EarnReward(v) \/ Slash(v)
       \/ \E i \in DOMAIN chain.unbonding : SlashUnbonding(i) \/ CompleteUnbonding(i)
       \/ Deposit
    /\ UNCHANGED <<contractVars, now>>

TimePasses == Tick /\ UNCHANGED <<contractVars, chain, history>>
-----------------------------------------------------------------------------
\* As instantiate leaves it; what was deposited beyond the plan is a deposit.
FundsInit ==
    /\ VestingInit
    /\ unlock_distribution_address \in Recipients
    /\ staking_reward_address \in Recipients
    /\ withdrawn_staking_rewards = 0
    /\ \E excess \in 0..MaxDeposit :
          /\ history = [earned |-> 0, slashed |-> 0, deposited |-> excess]
          /\ chain = [bank      |-> [a \in Address |->
                                       IF a = Self THEN total_amount + excess ELSE 0],
                     delegated |-> [v \in Validators |-> 0],
                     accrued   |-> [v \in Validators |-> 0],
                     unbonding |-> <<>>,
                     returned  |-> 0]

\* The roles are fixed here: they are Governance's.
TreasuryInit == admins = Sender /\ ops = OpCandidate /\ FundsInit

OpAction ==
    \E sender \in Sender :
        \/ \E v \in Validators, amount \in Amounts :
              \/ ExecuteDelegate(sender, v, amount)
              \/ ExecuteUndelegate(sender, v, amount)
              \/ \E dst \in Validators : ExecuteRedelegate(sender, v, dst, amount)
        \/ \E amount \in Requests : ExecuteInitiateWithdrawUnlocked(sender, amount)
        \/ ExecuteInitiateWithdrawReward(sender)

\* The messages of executed proposals.
SelfCall ==
    /\ \E addr \in Recipients :
          \/ ExecuteInternalUpdateUnlockedDistributionAddress(Self, addr)
          \/ ExecuteInternalUpdateStakingRewardDistributionAddress(Self, addr)
          \/ ExecuteInternalWithdrawLocked(Self, addr)
    /\ UNCHANGED roles

TreasuryNext == OpAction \/ SelfCall \/ Environment \/ TimePasses

TreasurySpec == TreasuryInit /\ [][TreasuryNext]_treasuryVars
-----------------------------------------------------------------------------
TreasuryTypeOK ==
    /\ VestingTypeOK
    /\ unlock_distribution_address \in Recipients
    /\ staking_reward_address \in Recipients
    /\ withdrawn_staking_rewards \in Nat
    /\ chain.bank \in [Address -> Nat]
    /\ chain.delegated \in [Validators -> Nat]
    /\ chain.accrued \in [Validators -> 0..MaxReward]
    /\ \A i \in DOMAIN chain.unbonding :
          LET entry == chain.unbonding[i]
          IN  entry.validator \in Validators /\ entry.balance \in 0..entry.initial_balance
    /\ chain.returned \in 0..MaxReturned
    /\ history \in [earned : 0..MaxReward, slashed : 0..MaxSlash, deposited : 0..MaxDeposit]

PaidOut == MapThenSumSet(LAMBDA a : chain.bank[a], Address \ {Self})

\* The three WITHDRAWN counters add up to what the contract has sent, to others or, when
\* an address is its own, to itself: no handler pays without booking it or books a payment
\* it does not make, in whatever order rewards reach the account (on request, or on their
\* own at a delegation change).
PaymentsMatchCounters ==
    PaidOut + chain.returned
        = withdrawn_unlocked + withdrawn_locked + withdrawn_staking_rewards

\* The principal the contract still has to answer for.
Owed == total_amount - withdrawn_unlocked - withdrawn_locked

RewardWithdrawalStep ==
    withdrawn_staking_rewards' # withdrawn_staking_rewards =>
        /\ Assets(chain)' >= Min({Assets(chain), Owed})
        /\ history.slashed = 0 /\ chain'.returned = chain.returned =>
               chain'.bank[Self] <= Max({0, Owed - (Assets(chain)' - chain'.bank[Self])})

\* A reward withdrawal takes rewards only, and all of them: the principal, wherever it
\* is (bank, staked, unbonding, some of it slashed or already paid out), stays
\* untouched, and unless a slash is being made up for nothing else stays in the bank.
RewardWithdrawalExact == [][RewardWithdrawalStep]_treasuryVars

\* calculate_withdrawn_rewards: "impossible to over-withdraw (which is bad)".  Over the
\* contract's life no more goes out as rewards than the delegations earned and others
\* deposited.  What the contract has sent to itself counts as a deposit: a vested coin
\* withdrawn to its own address is paid out as a reward later.
OverWithdrawImpossible ==
    withdrawn_staking_rewards <= history.earned + history.deposited + chain.returned

\* Short of slashing, staking operations and reward withdrawals never leave the contract
\* with less than the principal it owes.
Solvent == Assets(chain) + history.slashed >= Owed

Purse == INSTANCE Custody WITH
    owed           <- Owed,
    surplus        <- Assets(chain) - Owed,
    pending        <- SumOver(chain.accrued),
    principal_paid <- withdrawn_unlocked + withdrawn_locked,
    rewards_paid   <- withdrawn_staking_rewards,
    received       <- PaidOut

\* Wherever staking has put the coins, and however the sums of calculate_withdrawn_rewards
\* come out, the treasury behaves like two purses: vested coins and the emergency
\* withdrawal come out of the principal owed, rewards out of what is beyond it, each
\* withdrawal is booked and paid in full, and staking costs nothing.
ImplementsCustody == Purse!Spec

\* CHANGELOG 0.1.6: "withdraw already-withdrawn rewards (as a result of re/undelegation)
\* in the withdraw staking reward execute endpoint".  Whenever there are such rewards the
\* endpoint succeeds.
OutstandingRewardsCollectable ==
    CalculateWithdrawnRewards > 0 => Run(chain, RewardMsgs(CalculateWithdrawnRewards)) # {}

\* The comment on calculate_withdrawn_rewards: "we will ignore unbonding amount in the
\* calculationg for now".
UnbondingIgnored == CalculateWithdrawnRewards = RewardsIgnoringUnbonding
=============================================================================
