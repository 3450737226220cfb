------------------------------ MODULE Queries ------------------------------
(***************************************************************************)
(* What the contract answers (query of contract.rs), as a client puts it   *)
(* together: the answers come from different storage items, some of them   *)
(* computed from the current block, and each is read by a call of its own. *)
(***************************************************************************)
EXTENDS Gringotts

\* An entry of ListProposals.
ProposalResponse(id) ==
    [id           |-> id,
     msg          |-> proposals[id].msg,
     status       |-> MapProposal(id),
     proposer     |-> proposals[id].proposer,
     expires      |-> proposals[id].expires,
     threshold    |-> proposals[id].threshold,
     total_weight |-> proposals[id].total_weight]

\* Latest first.
QueryProposals == Reverse([id \in DOMAIN proposals |-> ProposalResponse(id)])

QueryVotes(id) == {[voter |-> voter, vote |-> "Yes", weight |-> 1] : voter \in Voters(id)}

QueryAdmins == admins
QueryOps == ops

QueryInfo ==
    [vesting_timestamps          |-> vesting_timestamps,
     vesting_amounts             |-> vesting_amounts,
     unlock_distribution_address |-> unlock_distribution_address,
     staking_reward_address      |-> staking_reward_address,
     withdrawn_staking_rewards   |-> withdrawn_staking_rewards,
     withdrawn_unlocked          |-> withdrawn_unlocked,
     withdrawn_locked            |-> withdrawn_locked]

QueryConfig ==
    [max_voting_period |-> max_voting_period, admin_voting_threshold |-> admin_voting_threshold]

QueryTotalVested == TotalVestedAmount
-----------------------------------------------------------------------------
Weight(votes) == MapThenSumSet(LAMBDA v : v.weight, votes)

\* The listed status of every proposal is what its listed votes make of it, at this
\* block: ListProposals computes it from a tally and a stored status, ListVotes reads the
\* ballots.
ListedVotesDecide ==
    \A i \in DOMAIN QueryProposals :
        LET prop == QueryProposals[i]
            enough == 100 * Weight(QueryVotes(prop.id)) >= prop.total_weight * prop.threshold
        IN  /\ enough <=> prop.status \in {"Passed", "Executed"}
            /\ prop.status = "Rejected" <=> ~enough /\ clock >= prop.expires
            /\ prop.threshold = QueryConfig.admin_voting_threshold

ListingStep ==
    \A id \in DOMAIN proposals :
        LET listed == ProposalResponse(id)
        IN  /\ id \in DOMAIN proposals'
            /\ [listed EXCEPT !.status = MapProposal(id)'] = ProposalResponse(id)'
            /\ QueryVotes(id) \subseteq QueryVotes(id)'
            /\ listed.status \in {"Rejected", "Executed"} =>
                   ProposalResponse(id)' = listed /\ QueryVotes(id)' = QueryVotes(id)

\* What a client has listed stays true of the same id: a proposal keeps its message and
\* terms, its votes only grow, and neither changes once it is rejected or executed.
ListingsAreLasting == [][ListingStep]_vars

EmergencyListed ==
    \E i \in DOMAIN QueryProposals :
        /\ QueryProposals[i].msg.type = "InternalWithdrawLocked"
        /\ QueryProposals[i].status = "Executed"

\* Info agrees with the other answers: the entries it shows as unlocked are what
\* TotalVested adds up, and it shows a locked withdrawal, with nothing left to vest,
\* exactly when ListProposals shows an executed emergency.
InfoIsConsistent ==
    LET info == QueryInfo
        unlocked == {i \in DOMAIN info.vesting_timestamps : info.vesting_timestamps[i] <= now}
    IN  /\ QueryTotalVested = MapThenSumSet(LAMBDA i : info.vesting_amounts[i], unlocked)
        /\ info.withdrawn_locked > 0 <=> EmergencyListed
        /\ info.withdrawn_locked > 0 => info.vesting_amounts = <<>> /\ QueryTotalVested = 0
=============================================================================
