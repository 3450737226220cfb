----------------------------- MODULE Gringotts -----------------------------
(***************************************************************************)
(* The whole contract: the admins' proposals (Governance) over the         *)
(* treasury they govern (Treasury).  They meet where a proposal is         *)
(* executed: execute_process_proposal marks it and returns its messages,   *)
(* the chain runs them in the same transaction as calls of the contract to *)
(* itself, and if one fails the mark is undone with it.                    *)
(***************************************************************************)
EXTENDS Governance, Treasury

funds ==
    <<vestingVars, addresses, withdrawn_staking_rewards, chain, history>>
vars == <<govVars, funds>>

Init == GovInit /\ FundsInit

\* What execute (contract.rs) makes of the message of an executed proposal.
ExecuteInternal(msg) ==
    \/ msg.type \in {"InternalUpdateAdmin", "GovVote"} /\ UNCHANGED funds
    \/ /\ msg.type = "InternalUpdateUnlockedDistributionAddress"
       /\ ExecuteInternalUpdateUnlockedDistributionAddress(Self, msg.addr)
    \/ /\ msg.type = "InternalUpdateStakingRewardDistributionAddress"
       /\ ExecuteInternalUpdateStakingRewardDistributionAddress(Self, msg.addr)
    \/ /\ msg.type = "InternalWithdrawLocked"
       /\ ExecuteInternalWithdrawLocked(Self, msg.addr)

ProcessProposal(sender, id) ==
    /\ ExecuteProcessProposal(sender, id)
    /\ ExecuteInternal(proposals[id].msg)

AdminAction ==
    \E sender \in Sender :
        \/ /\ \/ \E msg \in ProposalMsgs : ExecutePropose(sender, msg)
              \/ \E id \in DOMAIN proposals : ExecuteVote(sender, id)
              \/ \E op \in OpCandidate, remove \in BOOLEAN : UpdateOp(sender, op, remove)
           /\ UNCHANGED funds
        \/ \E id \in DOMAIN proposals : ProcessProposal(sender, id)

\* A block moves the clock of the voting periods, and the clock of the schedule or not:
\* the first may count heights, the second nanoseconds.
Block ==
    /\ NextBlock
    /\ TimePasses \/ UNCHANGED funds

Next ==
    \/ AdminAction
    \/ (OpAction \/ Environment) /\ UNCHANGED <<config, motions, clock>>
    \/ Block

Spec == Init /\ [][Next]_vars
-----------------------------------------------------------------------------
\* Proposal id, with this message, is approved and is executed by this step.
Carried(id, msg) ==
    /\ proposals[id].msg = msg
    /\ 100 * Cardinality(Voters(id)) >= proposals[id].total_weight * proposals[id].threshold
    /\ proposals[id].status # "Executed" /\ proposals'[id].status = "Executed"

CarriedNow(msg) == \E id \in DOMAIN proposals : Carried(id, msg)

PaymentStep ==
    \A a \in Address \ {Self} :
        chain'.bank[a] - chain.bank[a] =
              (IF a = unlock_distribution_address
               THEN withdrawn_unlocked' - withdrawn_unlocked ELSE 0)
            + (IF a = staking_reward_address
               THEN withdrawn_staking_rewards' - withdrawn_staking_rewards ELSE 0)
            + (IF CarriedNow(WithdrawLockedMsg(a))
               THEN withdrawn_locked' - withdrawn_locked ELSE 0)

\* Every coin that leaves goes where the admins have said it shall: vested coins to the
\* distribution address, rewards to the reward address, the emergency withdrawal to the
\* address of a proposal they approved and that runs now; each is booked in its own
\* counter.
PaidAsDecided == [][PaymentStep]_vars

DecisionStep ==
    /\ unlock_distribution_address' # unlock_distribution_address =>
           CarriedNow(UpdateUnlockedAddressMsg(unlock_distribution_address'))
    /\ staking_reward_address' # staking_reward_address =>
           CarriedNow(UpdateRewardAddressMsg(staking_reward_address'))
    /\ withdrawn_locked' # withdrawn_locked =>
           \E a \in Address : CarriedNow(WithdrawLockedMsg(a))

\* Operators, and the chain, never redirect the treasury or empty the schedule: each
\* such step is the execution of an approved proposal that says so, which happens once.
TreasuryObeysAdmins == [][DecisionStep]_vars

Emergencies ==
    {id \in DOMAIN proposals : /\ proposals[id].msg.type = "InternalWithdrawLocked"
                               /\ proposals[id].status = "Executed"}

\* An emergency withdrawal is executed at most once over all proposals, only with the
\* coins to pay it, and settles the schedule: from then on, whatever operators had
\* withdrawn before, the plan is paid out in full and nothing more can vest.
EmergencySettles ==
    IF Emergencies = {}
    THEN withdrawn_locked = 0
    ELSE /\ Cardinality(Emergencies) = 1
         /\ vesting_amounts = <<>>
         /\ withdrawn_locked > 0
         /\ withdrawn_locked + withdrawn_unlocked = total_amount
=============================================================================
