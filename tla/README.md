# Gringotts in TLA+

Gringotts is a CosmWasm contract that holds tokens under a vesting plan on behalf of
their owner. Operators run it day by day: they stake the tokens, withdraw what has
vested and collect staking rewards. Admins govern it by proposals and votes: they
change the admins and the two payout addresses, vote on the chain's governance, and can
withdraw everything still locked in an emergency.

This directory holds TLA+ modules that model the contract, TLC configurations that check
them on small instances, and proofs of their most important properties that TLAPS checks
for all values of the constants: of the properties below, all but liveness. `PROJECT.json` maps every definition to the lines it
models.

## The system

| Component | State (storage) | Operations | Module |
|---|---|---|---|
| Roles (`permission.rs`, `state.rs`) | `ADMINS`, `OPS` | the three `authorize_*` checks, `execute_update_op` | `Permission` |
| Admin multisig (`contract.rs` 480-723) | `PROPOSALS`, `BALLOTS`, `PROPOSAL_COUNT`, `MAX_VOTING_PERIOD`, `ADMIN_VOTING_THRESHOLD` | five propose handlers, `execute_vote`, `execute_process_proposal`, `execute_internal_update_admin` | `Governance` |
| Vesting schedule (`vesting.rs`) | `VESTING_TIMESTAMPS`, `VESTING_AMOUNTS`, `TOTAL_AMOUNT`, `WITHDRAWN_UNLOCKED`, `WITHDRAWN_LOCKED` | `collect_vested`, `total_vested_amount` | `Vesting` |
| Treasury (`contract.rs` 343-463, 725-764; `staking.rs`) | the payout addresses, `WITHDRAWN_STAKING_REWARDS`, and what the chain holds for the contract | delegate, redelegate, undelegate, withdraw unlocked, withdraw rewards, the internal handlers | `Treasury` |
| Instantiation (`contract.rs` 211-262, `data_structure.rs`) | everything, once | `instantiate`, `Tranche::validate` | `Instantiation` |
| Queries (`contract.rs` 767-866) | none | list, info and config queries; `total_vested` | `Queries` |
| Migration (`contract.rs` 39-209) | contract name and version (cw2), the schedule | `validate_migration`, `migrate` and its two handlers | `Migration` |
| Types, errors, schema (`msg.rs`, `error.rs`) | none | none | not modelled |

How they interact:

* Every call is a transaction. A handler reads storage and queries the chain, writes
  storage, and returns messages. The chain executes the messages, in order, after the
  handler, and if the handler or one message fails, the whole transaction is undone.
  Handlers never interleave with each other, but whole transactions do, in any order, and
  the chain acts between them: it pays rewards, slashes, completes unbondings, delivers
  deposits and advances its clock.
* A proposal carries a message. `execute_process_proposal` marks the proposal executed and
  returns its message, which comes back to the contract as a call from its own address
  (`authorize_self_call`), in the same transaction.
* Staking moves principal between the bank balance, delegations and unbonding entries, and
  each such move also pays out rewards into the bank balance.
  `calculate_withdrawn_rewards` tells these rewards from principal by arithmetic on
  balances it queries.

What is hard about it, and hence what the properties are for (`PROJECT.json` lists each
hazard with its line):

* the electorate of a proposal is frozen as a number while the admins come and go;
* the stored status of a proposal lags behind the clock, and approval, expiry and execution
  may come in any order;
* a vote is recorded twice (tally and ballot), the schedule in two lists, the vested amount
  by two loops, the plan in three counters and a schedule: they must not drift apart;
* rewards reach the account on their own and must never be confused with principal,
  wherever that is and even when some of it was slashed;
* a failing message undoes everything: an emergency withdrawal while tokens are staked,
  a transfer of nothing; what fails must be possible later;
* an upgrade may rewrite the schedule, at any moment of the contract's life, or be skipped;
* clients put answers together that come from different storage and different blocks;
* arithmetic on unsigned integers, at boundaries and beyond the width.

What makes each component correct: only those entitled act; a proposal is decided by exactly
the share of votes demanded, and runs once; every coin of the plan is withdrawn once and
not before its time; payments go where the admins decided and equal the counters;
reward withdrawals never touch principal; and if people cooperate the money comes out.

## Modules

* `Permission`: the two roles. The contract's own address never signs a transaction.
* `Governance` (extends `Permission`): one action per handler (`ExecutePropose`,
  `ExecuteVote`, `ExecuteProcessProposal`, `UpdateOp`) and `NextBlock`. The five propose
  handlers differ in the message they attach, and are one action with five messages. Every
  ballot of this contract is a Yes of weight 1, so `ballots` is the set of keys. The rules
  of a `cw3` proposal (`VotesNeeded`, `CurrentStatus`, ...) are the library's and marked
  external; the library's early rejection needs No votes, which no handler can cast.
* `Multisig`: the abstract specification of `Governance`: members, motions with the set of
  their backers, and a phase. No tallies, deadlines or stored status.
* `Sums`: the sum of a list of amounts, used by all modules that add amounts up.
* `Vesting` (extends `Sums`): `collect_vested` as operators on the two lists: which entries the loop visits
  (`Visited`), where it stops (`Covering`), how many entries are used up (`UsedUp`), what
  comes off the next one (`AmountToSubtract`). Plus the books' part of both withdrawals.
* `UnlockQueue`: the abstract specification of `Vesting`: a queue of single coins with their
  times.
* `Treasury` (extends `Permission`, `Vesting`): every handler of the operators and of the
  contract itself. `chain` is the external part: bank balances, delegations, accrued rewards
  and unbonding entries, and a count of what the contract has sent to itself. `Exec...` are
  the chain's messages and give no successor when the chain refuses; `Run` executes a
  response. `history` counts what the environment did and is read by properties only (and
  by the bounds).
* `Custody`: the abstract specification of `Treasury`: a purse of principal owed, one of what
  is beyond it, rewards on their way, and what was paid from either. No places, no staking.
* `Gringotts` (extends `Governance`, `Treasury`): the contract as a whole.
  `ProcessProposal` conjoins the marking of a proposal with the handler of its message.
* `Queries` (extends `Gringotts`): the seven queries as operators on the state, and what
  their answers, taken together or one after the other, promise a client.
* `WindDown` (extends `Gringotts`): the same contract among people who at some point
  decide to close it. `closing` is theirs, not the contract's; from then on they only
  appoint operators, unstake, collect, withdraw and process, and each does his part.
* `Migration` (extends `Vesting`): upgrades. `cw2` is the stored name and version, `Builds` the
  versions ever built, each with the handler compiled into it; withdrawals come between
  upgrades. The two addresses the handler for 0.1.5 looks for are constants, as are the
  lists it writes; `Deployed` is what the authors of the repair had before them.
* `Instantiation` (extends `Sums`): `instantiate` and the validation of a plan, with nanoseconds, whole
  seconds, and sums modulo the width.
* The theorems: `GovernanceProofs`; `SumProofs`, on sums of lists and of sets; `VestingProofs`;
  `ChainProofs`, on what the messages of a response do to the chain's accounts;
  `TreasuryProofs`; `GringottsProofs`, on the whole contract and its queries;
  `InstantiationProofs`; `MigrationProofs`.
* `MC...`: the instances for TLC.

Conventions. A call that returns an error changes nothing and is no step, so a guard is
the conjunction of the early returns. `Fault...` operators are definitions with a slip, used
to see that a property notices it: each is paired in `PROJECT.json` with the definition it
can stand in for and the property it breaks. They take no part in the specifications.

## What TLC checks

| Run | Properties | Bounds |
|---|---|---|
| `governance_safety` | `GovTypeOK`, `TallyMatchesBallots`, `DecidedByThreshold`, `TallyWithinWeight`, `AdminsChangeOnlyByMotion`, `ListedStatusOnlyAdvances` | 3 people, any of them admins, 2 proposals that add or remove any of them, thresholds 0, 50, 67, periods 0 and 1, 2 blocks |
| `governance_liveness` | `ImplementsMultisig`, `ApprovedEventuallyExecuted`, `ListedDecidedInTheEnd` | 2 people, 2 proposals, thresholds 50 and 67, periods 0 and 1, no symmetry |
| `vesting` | `VestingTypeOK`, `Conservation`, `ListedIsWithdrawable`, `QuoteStaysGood`, `ImplementsUnlockQueue` | every schedule of up to 3 entries of up to 3 coins within 5 instants, every request |
| `treasury` | `TreasuryTypeOK`, `PaymentsMatchCounters`, `OverWithdrawImpossible`, `Solvent`, `RewardWithdrawalExact`, `ImplementsCustody` | 2 validators, 3 coins in 2 entries, 2 unbonding entries per validator, 2 reward coins, 1 slashed, 1 deposited |
| `contract` | `EmergencySettles`, `PaidAsDecided`, `TreasuryObeysAdmins`; `ListedVotesDecide`, `InfoIsConsistent`, `ListingsAreLasting`; `PaymentsMatchCounters`, `OverWithdrawImpossible`, `Solvent` again | 2 people, 2 proposals of four kinds, among them payments to the contract itself (2 coins at most), 1 validator, 2 coins in 2 entries, 1 reward |
| `wind_down` | `EmergencyEventuallyPaid`, `RewardsEventuallyCollected`, `VestedEventuallyPaid` | 1 person in both roles, who may resign from either, 2 proposals, 2 validators, 2 coins in 2 entries, 1 reward coin, 1 slashed |
| `migration` | `MigrationTypeOK`, `RepairedInTime`, `LateRepairAccounted`, `RepairIsFinal` | 3 contracts (one per branch of the handler), 4 versions, plans of 2 entries, every request, 4 instants |
| `instantiation` | `InstantiationTypeOK`, `PlanIsSchedule`, `PlanIsFunded`, `PlanWithinHundredYears` | all plans of up to 2 entries, seconds of two nanoseconds, "a hundred years" of two seconds |

Why the bounds are enough. In `Governance`, what goes wrong needs an electorate that
changes under a running proposal: two proposals, three people and a deadline that passes
between any two steps contain every such order (a proposal that removes a voter, or adds
one, before, between or after the votes on the other). In `Vesting` a request relates to
at most a used-up, a partly used and an untouched entry: three entries. Successive
withdrawals reach every intermediate schedule. In `Treasury` two validators tell payouts
at one from payouts at the other, and two coins of reward are enough to be paid out on two
paths in one transaction. In `contract` the second proposal can repeat the first, and a
coin can go round: withdrawn to the contract, once the admins have made it its own payee,
and again as a reward. In `wind_down` two validators are needed for one delegation without
rewards next to one with, and one person suffices, because cooperation is what the run
assumes; that he can leave both roles makes the interesting failures. In `migration` the
versions lie before the repair, at it, and after it twice, one with a two-digit number.
Deadlock is not checked: the contract is passive, and it may run out of admins, operators,
blocks and coins.

What the properties say, in brief (each has a comment in its module):

* `TallyWithinWeight` is not obvious: later admins may vote on earlier proposals, so more
  people than the frozen electorate may be entitled. It holds because a proposal stops
  accepting votes when it is decided, and a threshold is never above 100 percent.
* `ListedStatusOnlyAdvances` is about what users see, which is computed from the block, not
  stored.
* `Conservation` and `ImplementsUnlockQueue`: the first says no coin is lost or doubled, the
  second that the coins withdrawn are the earliest ones, unlocked, one by one, and that the
  times of the others stay.
* `RewardWithdrawalExact`: withdrawing rewards never leaves less than the principal owed (or
  than there was), and, as long as nothing was slashed, leaves no reward in the bank.
  `OverWithdrawImpossible` is the claim of the comment on
  `calculate_withdrawn_rewards`, over the whole history; `Solvent` the promise to those the
  plan is for. After a slash, rewards that already lie in the bank first make up for what was
  slashed; those still accrued at the delegations are sent out in full (`staking.rs` 44-62).
* `ImplementsCustody` says what all of the reward arithmetic is for: wherever staking has put
  the coins, a withdrawal of vested coins comes from the principal owed and a withdrawal of
  rewards from what is beyond it, and each moves as much as it books.
* `QuoteStaysGood` relates two calls: what `total_vested` answered can still be withdrawn
  later, less what others have withdrawn since.
* `ListedVotesDecide`, `InfoIsConsistent`: a client who adds up the listed votes gets the
  listed status; an executed emergency shows in Info, and the other way round.
* `LateRepairAccounted`: a repair made after withdrawals brings back exactly the coins withdrawn
  before it, to the one contract whose amounts it writes. `RepairedInTime` speaks only of the
  other case.
* `ListedDecidedInTheEnd`: proposals left short of voters, or of anyone to process them, stay
  stored as open; they are nevertheless listed as decided once their deadline has passed.
* `RepairIsFinal`: from version 0.1.5 on no upgrade brings a coin back, whatever builds are
  tried in whatever order. It is also the reason why a contract that skips 0.1.5 is never
  repaired.
* `EmergencySettles` rests on the bank refusing to send nothing: the second approved
  emergency withdrawal has nothing left to send and can never be executed.

What some of them do not say. `ListedIsWithdrawable` compares two loops in one state; that a
quote does not go stale is `QuoteStaysGood`. `PaymentsMatchCounters` says that a handler books
what it sends; that the chain undoes both together when a message fails is built into the
model, because the chain guarantees it, and no property could find it missing. What has to hold
after such a failure is that the call can succeed later (`VestedEventuallyPaid`,
`RewardsEventuallyCollected`, `EmergencyEventuallyPaid`).

### Fairness

Nothing in the contract runs by itself: each step is somebody's transaction. Safety is
checked without fairness. `ApprovedEventuallyExecuted` assumes weak fairness of one thing,
the processing of each proposal by some admin (`GovFairness`): as long as there is an admin
and an approved proposal stays processable, somebody processes it. The code lets any admin
do so at any time, which is what the comment in `execute_process_proposal` claims. Blocks,
votes and other calls have no fairness. The property is limited to changes of the admins,
because other messages may fail in the treasury or on the chain for as long as the
circumstances last (an emergency withdrawal while tokens are staked).

`ListedDecidedInTheEnd` states its fairness itself: it assumes that the chain goes on producing
blocks (`WF_govVars(NextBlock)`), nothing of people, and is about deadlines within the clock's
bound.

What it takes for those is the subject of `WindDown`: if people decide to close the contract
and stop staking, then weak fairness of five things is enough, each a call the contract
offers at any time or something the chain does by itself: an admin appoints an operator when
there is none, operators unstake and collect, approved proposals are processed, and
unbondings mature. `VestedEventuallyPaid` adds the withdrawal of vested coins. The
contract cannot compel anybody, so this is no fairness of the code; the properties say that
no more is needed of people, whatever they did before. Their exceptions are real: no admin
left (nobody can ever act again), or more slashed than rewards made up for.

### Disagreements found

Four runs check what a document, comment or test says and show that the code does
otherwise:

* `rewards_collectable`: if any delegation has earned nothing, the reward withdrawal
  contains a transfer of 0, which the chain's bank refuses, and everything is rolled back
  (`staking.rs` 55-58; the code's two other transfers are guarded).
* `unbonding_comment`: the comment on `calculate_withdrawn_rewards` says the unbonding amount
  is ignored; it is not.
* `earliest_timestamp`: the changelog says the earliest timestamp must be later than the
  block's; an equal one is accepted.
* `deposit_overflow`: in a release build the sum of the amounts wraps, and a plan can be
  accepted without the deposit for it. The run stands for 2^128 with a modulus of 8. In
  the run `instantiation`, where sums do not wrap, the same property holds.

One more limit, stated as a condition of `RepairedInTime` and not counted as a disagreement:
the repair of 0.1.5 writes its lists whatever has been withdrawn. Made after a withdrawal
it would bring the used-up entries back: more coins than are owed (`LateRepairAccounted`) or, for the contract
whose amounts it leaves alone, more times than amounts, on which `total_vested_amount`
fails with an index out of bounds.

## What is proved

Every invariant, action property and refinement of the runs above, for all values of the
constants that satisfy the assumptions below.

| Theorem | Statement |
|---|---|
| **`GovernanceProofs`** | |
| `GovTypeCorrect` | `GovSpec => []GovTypeOK` |
| `TallyCorrect` | `GovSpec => []TallyMatchesBallots` |
| `DecisionCorrect` | `GovSpec => []DecidedByThreshold` |
| `TallyBounded` | `GovSpec => []TallyWithinWeight` |
| `AdminsGuarded` | `GovSpec => AdminsChangeOnlyByMotion` |
| `ListingAdvances` | `GovSpec => ListedStatusOnlyAdvances` |
| `MultisigImplemented` | `GovSpec => ImplementsMultisig` |
| **`VestingProofs`** | |
| `VestingIsTyped` | `VestingSpec => []VestingTypeOK` |
| `CoinsAreConserved` | `VestingSpec => []Conservation` |
| `ListedAmountIsWithdrawable` | `VestingSpec => []ListedIsWithdrawable` |
| `QuotesStayGood` | `VestingSpec => QuoteStaysGood` |
| `UnlockQueueImplemented` | `VestingSpec => ImplementsUnlockQueue` |
| **`TreasuryProofs`** | |
| `TreasuryIsTyped` | `TreasurySpec => []TreasuryTypeOK` |
| `PaymentsAreBooked` | `TreasurySpec => []PaymentsMatchCounters` |
| `NeverOverWithdrawn` | `TreasurySpec => []OverWithdrawImpossible` |
| `StaysSolvent` | `TreasurySpec => []Solvent` |
| `RewardsOnly` | `TreasurySpec => RewardWithdrawalExact` |
| `TreasuryIsCustody` | `TreasurySpec => ImplementsCustody` |
| **`GringottsProofs`** | |
| `GovernanceImplemented` | `Spec => GovSpec`: the governance theorems hold of the whole contract |
| `VestingImplemented` | `Spec => VestingSpec`: so do those on the schedule |
| `TreasuryObeyed` | `Spec => TreasuryObeysAdmins` |
| `EmergencySettled` | `Spec => []EmergencySettles` |
| `ContractPaymentsBooked`, `ContractNeverOverWithdrawn`, `ContractStaysSolvent`, `ContractRewardsOnly`, `ContractIsCustody` | the five properties of the treasury, under `Spec` |
| `EveryCoinAsDecided` | `Spec => PaidAsDecided` |
| `VotesExplainStatus` | `Spec => []ListedVotesDecide` |
| `ListingsLast` | `Spec => ListingsAreLasting` |
| `InfoAgrees` | `Spec => []InfoIsConsistent` |
| **`InstantiationProofs`** | |
| `InstantiationIsTyped` | `InstantiationSpec => []InstantiationTypeOK` |
| `AcceptedIsSchedule` | `InstantiationSpec => []PlanIsSchedule` |
| `AcceptedIsFunded` | `SumsFit` implies `InstantiationSpec => []PlanIsFunded` |
| `AcceptedWithinHundredYears` | `InstantiationSpec => []PlanWithinHundredYears` |
| **`MigrationProofs`** | |
| `MigrationIsTyped` | `MigrationSpec => []MigrationTypeOK` |
| `RepairedSoundly` | `MigrationSpec => []RepairedInTime` |
| `LateRepairCost` | `MigrationSpec => []LateRepairAccounted` |
| `RepairedOnce` | `MigrationSpec => RepairIsFinal` |

### From what assumptions

* `PermissionAssumption`, `GovernanceAssumption`: finitely many addresses, thresholds up to
  100 percent (`instantiate` refuses more), periods and bounds that are numbers.
* `VestingAssumption`: each schedule has two lists of one length, positive amounts and
  increasing times. `AcceptedIsSchedule` proves that this is what `instantiate` accepts.
* `TreasuryAssumption`: at least one validator, amounts and bounds that are numbers. The
  number of validators, of unbonding entries and of coins is arbitrary, and the contract may
  be its own payee.
* `InstantiationAssumption`: numbers. `AcceptedIsFunded` has a hypothesis of its own,
  `SumsFit`: no plan adds up to 2^128. The run `deposit_overflow` shows that it cannot be
  dropped; `AmountsFit` shows that it is met when the largest amount, times the entries of the
  longest plan, is below 2^128.
* `MigrationAssumption`: what the authors of the repair knew. The lists they wrote increase and
  match in length; the plan of the one contract had as many amounts as its new times, that of
  the other amounted to what its new amounts do; a contract no repair is meant for had a sound
  plan. About the two broken plans nothing else is assumed: their lists may be of different
  lengths and out of order.

### Along which arguments

The multisig. The inductive invariant is `VotesInv`, the conjunction of the four state
properties of `Governance`. None but the types is inductive alone. `DecidedByThreshold`
makes an open proposal one that lacks votes; by the arithmetic of the threshold
(`VotesNeededExact`, `ShareWithinWeight`) lacking votes of a share of at most 100 percent
means fewer votes than the electorate's size, so one more vote keeps `TallyWithinWeight`.
`TallyMatchesBallots` turns a statement about a tally into one about voters, which the
action properties and the refinement speak of. It needs that a ballot cast is new and that
proposal ids are never reused, the latter from the types (`DOMAIN proposals =
1..proposal_count`). Every action has its own lemma for types, for votes, for the listing
and for the refinement.

The schedule. Everything is about sums of the lists' beginnings. `SumOf` is a recursive
function, so that it has a value (`SumsExist`) and satisfies its equation (`SumOfDef`) are
lemmas, and facts about all entries are proved by taking the first entry that would violate
them (`LeastElement`), since the induction theorems of the library cannot be used. Sums grow
with the index (`PartialSumsGrow`) and those of a rest are those of the list less what was cut
off (`PartialSumsOfRest`). Because times increase, the visited entries are a beginning of
the list (`VisitedIsInitial`); so the loop that stops at the first covering entry and the
one that adds up what has vested see the same sum (`TotalIsSumOfVisited`), which is
`ListedIsWithdrawable`. What `collect_vested` leaves (`WhatIsLeft`) has the old sums less what
was requested (`CollectShiftsSums`), which gives `Conservation`, and, for the visited part,
`QuoteStaysGood`. The inductive invariant is `BooksOK == VestingTypeOK /\ Conservation`:
without positive amounts and ordered times the sums say nothing.

The queue of coins. Coin number c of a list belongs to the one entry whose sum is the first to
reach c (`EntryOfCoin`, `OneEntry`). A withdrawal of n takes the coins up to n, all of them of
visited entries (`WithdrawnAreUnlocked`); coin c of what is left was coin c + n before, of the
same entry and so with the same time (`OthersAreLeft`). That is the abstract queue's step.

The treasury. First, what the messages do to the accounts (`ChainProofs`). Sums over
validators and accounts are sums over finite sets, of which `SumProofs` shows how they change
when one member does. Each message then has an effect on the totals: staking moves
coins between bank, delegations and unbonding entries and pays accrued rewards into the
bank (`StakingEffect`), a transfer takes them away (`PaymentEffect`). A response is run by a
recursion over its messages, unfolded from the end (`RunsUnfolded`, `RunSnoc`). The reward withdrawal has
two messages per delegation; `RewardsPaid` takes the first validator after which
the accounts would not be as they should.

Then every handler and every event of the chain is shown to be one of six kinds of step
(`FundsStep`), whoever sent the message, and all else is proved of these. The inductive
invariant `FundsInv` has, besides `BooksOK` and types, the `Ledger` (where every coin is that
ever came in), `RewardsAccounted` (rewards accrue at delegations only, so the loop over
delegations misses none), `PaymentsBooked` and `Solvent`. They need each other: a counter
stays a number because rewards found are never negative, that no more is paid as rewards than
came in follows from the ledger and solvency together, and solvency survives a reward
withdrawal because what `calculate_withdrawn_rewards` finds is exactly what the ledger has
beyond the principal, or nothing if a slash took more (`WithdrawnRewards`). For `Custody` each kind of step
is mapped to a step of the purses.

The whole contract. Each step is shown to be a step of `Governance`, or to leave it alone,
and in the same way of `Vesting`, and a `FundsStep`. So `VotesInv`, `BooksOK` and `FundsInv`
carry over, and with them that whatever `ProcessProposal` dispatches was approved.
`EmergencySettles` needs in addition that an executed emergency has emptied the
schedule and that the bank paid it: a transfer happens only of a positive amount, so a second
emergency cannot run. `PaidAsDecided` compares, for every address, what a kind of step pays
with what it books, by whether the address holds the roles of both payees, of one or of none.

The queries. That a listed status follows from the listed votes needs, next to `VotesInv`, that
every proposal has the contract's threshold and that one stored as rejected has expired
(`TermsOK`), and that the weights of the listed votes add up to their number (`WeightIsSum`). Info's unlocked amount is a sum over
entries cut off by the clock, which is the sum of the visited ones (`UnlockedAreVisited`).

Instantiation. The invariant is that what is stored is what `instantiate` makes of some message
it accepts (`AsAccepted`). The code compares neighbouring times only, the theorem any two
(`TimesIncrease`); whole seconds lose up to a second at either end (`SecondsApart`).

Migration. `MigrationInv` says that the books balance but for what a late repair has brought
back (`LateRepairAccounted`); of the time before the repair that, until the first withdrawal,
the lists are as its authors knew them; of the time after it, that
the version shows it was made, from which it follows that it is not made again
(`PastTheRepair`). Because the lists of a broken contract may have different lengths, the lemmas about
`collect_vested` are proved for any two lists (`ListsOK`) where they can be.

### What is only model-checked

Liveness: `ApprovedEventuallyExecuted`, `ListedDecidedInTheEnd`, `EmergencyEventuallyPaid`, `RewardsEventuallyCollected`,
`VestedEventuallyPaid`. TLAPS does not handle liveness under fairness. The properties of the four
runs that find a disagreement are false, and `PlanIsFunded` fails without its hypothesis.

The theorems are about the modules, external parts included: what a message does in the chain's
bank and staking modules is modelled from how the contract uses it, and the simplifications of
the next section apply to the proofs as well.

## What is not modelled, and what is simplified

* Attributes of responses, titles and descriptions of proposals, serialisation, the wording of
  errors. An error is a disabled action.
* Which option a governance vote is for, and the number of the chain's proposal: they are
  passed on unread, and the message stands for all of them.
* The denom: one per contract, never changed. Rewards in other denoms, which
  `get_delegation_rewards` skips, are not rewards here.
* The builds before this one: `Migration` lets them withdraw as this one does, and the
  parse errors of version strings, which a contract's own versions never cause, are left out.
* The chain's arithmetic: rewards are whole coins, there is one denom, delegations are
  amounts and not shares, redelegation has no waiting time. Rewards due when an operator
  acts are paid exactly as queried. The bank refuses a transfer of nothing. A validator's
  slash leaves at least one coin of a delegation.
* Counters and sums of balances do not wrap: they are sums of coins that exist. The one
  subtraction of `calculate_withdrawn_rewards` that could is guarded by a comparison; the
  mutant of `RewardWithdrawalExact` leaves the comparison out and lets the difference wrap.
  Of the deposit there is one amount per denom, as the chain delivers it, so only the sum of
  the plan's amounts can wrap in `Instantiation`.
* A build's handler is chosen by its version. In the code as it stands (0.1.9) the branch for
  0.1.5 is never taken; `Builds` has the build that took it.
* `MAX_VOTING_PERIOD` counts blocks or time; `clock` is either, in its own unit, and in
  `Gringotts` advances with, or faster than, the time of the schedule.

## Plan

Done: all modules of the plan, and the proofs of every safety property, action property and
refinement the runs check.

Left to do:

1. `Instantiation` composed with the rest: that what an accepted message stores is an initial
   state of `Gringotts`. Today the two meet in `PlanIsSchedule`, `PlanIsFunded` and the
   assumption on `Schedules`.
2. The refinements stated of the whole contract (`ImplementsMultisig`, `ImplementsUnlockQueue`
   under `Spec`), which `GovernanceImplemented` and `VestingImplemented` already imply.
3. That `WindDown` is a `Gringotts` (`WindDownSpec => Spec`), so that all of its safety holds
   while people close the contract, too.
