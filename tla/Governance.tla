----------------------------- MODULE Governance -----------------------------
(***************************************************************************)
(* The admin multisig of the contract: proposals, ballots, their decision  *)
(* and their execution (the propose / vote / process handlers of           *)
(* contract.rs over the PROPOSALS, BALLOTS and PROPOSAL_COUNT storage).    *)
(* The status rules of a cw3 proposal are external: the library decides    *)
(* them, the contract calls update_status.                                 *)
(*                                                                         *)
(* A transaction that returns an error, or one of whose messages fails, is *)
(* rolled back by the chain: it is no step.                                *)
(***************************************************************************)
EXTENDS Permission, Integers

CONSTANTS
    Thresholds,     \* the percentages a contract may be instantiated with
    Periods,        \* the voting periods it may be instantiated with
    ProposalMsgs,   \* bound: the messages admins propose
    MaxProposals,   \* bound: proposals made in one behaviour
    MaxClock        \* bound: the last block

VARIABLES
    admin_voting_threshold,
    max_voting_period,
    proposal_count,
    proposals,      \* PROPOSALS: id |-> proposal
    ballots,        \* the keys <<id, voter>> of BALLOTS; every ballot is a Yes of weight 1
    clock           \* env.block, in the unit of MAX_VOTING_PERIOD (height or time)

config == <<admin_voting_threshold, max_voting_period>>
motions == <<proposal_count, proposals, ballots>>
govVars == <<admins, ops, config, motions, clock>>
-----------------------------------------------------------------------------
(* The message each propose handler attaches to its proposal. *)

UpdateAdminMsg(admin, remove) ==
    [type |-> "InternalUpdateAdmin", admin |-> admin, remove |-> remove]
UpdateUnlockedAddressMsg(addr) ==
    [type |-> "InternalUpdateUnlockedDistributionAddress", addr |-> addr]
UpdateRewardAddressMsg(addr) ==
    [type |-> "InternalUpdateStakingRewardDistributionAddress", addr |-> addr]
WithdrawLockedMsg(dst) == [type |-> "InternalWithdrawLocked", addr |-> dst]
GovVoteMsg == [type |-> "GovVote", addr |-> Self]   \* addressed to the chain's gov module

Msg ==
    {UpdateAdminMsg(a, r) : a \in Address, r \in BOOLEAN}
    \cup {UpdateUnlockedAddressMsg(a) : a \in Address}
    \cup {UpdateRewardAddressMsg(a) : a \in Address}
    \cup {WithdrawLockedMsg(a) : a \in Address}
    \cup {GovVoteMsg}

ASSUME GovernanceAssumption ==
    /\ Thresholds \subseteq 0..100      \* instantiate refuses more than 100
    /\ Periods \subseteq Nat
    /\ ProposalMsgs \subseteq Msg
    /\ MaxProposals \in Nat
    /\ MaxClock \in Nat
-----------------------------------------------------------------------------
(* cw3 and cw_utils: when a proposal has passed, has expired, and what its *)
(* status becomes.  Nobody can vote No, so cw3's early rejection is never  *)
(* reached and only expiry rejects.                                        *)

\* Definitions named Fault... are the ones above or below them with a slip of the
\* kind their code could have; each breaks the property it is paired with.

\* Votes that reach `percentage` of `weight`, rounded up.
VotesNeeded(weight, percentage) == (weight * percentage + 99) \div 100

IsPassed(prop) == prop.votes >= VotesNeeded(prop.total_weight, prop.threshold)
IsExpired(prop) == clock >= prop.expires

CurrentStatus(prop) ==
    IF prop.status # "Open" THEN prop.status
    ELSE IF IsPassed(prop) THEN "Passed"
    ELSE IF IsExpired(prop) THEN "Rejected"
    ELSE "Open"

AddVote(prop) == [prop EXCEPT !.votes = @ + 1]
UpdateStatus(prop) == [prop EXCEPT !.status = CurrentStatus(prop)]
-----------------------------------------------------------------------------
GovInit ==
    /\ PermissionInit
    /\ admin_voting_threshold \in Thresholds
    /\ max_voting_period \in Periods
    /\ proposal_count = 0
    /\ proposals = [id \in {} |-> GovVoteMsg]
    /\ ballots = {}
    /\ clock = 0

FaultNextProposalId == proposal_count
NextProposalId == proposal_count + 1

\* Every admin has one vote and the proposer's is cast with the proposal; the
\* electorate's size and the threshold are frozen into it.
ExecutePropose(sender, msg) ==
    /\ proposal_count < MaxProposals
    /\ AuthorizeAdmin(sender)
    /\ LET id == NextProposalId
           prop == [msg          |-> msg,
                    proposer     |-> sender,
                    expires      |-> clock + max_voting_period,
                    status       |-> "Open",
                    votes        |-> 1,
                    threshold    |-> admin_voting_threshold,
                    total_weight |-> NumberOfAdmins]
       IN  /\ proposal_count' = id
           /\ proposals' = [i \in DOMAIN proposals \cup {id} |->
                               IF i = id THEN UpdateStatus(prop) ELSE proposals[i]]
           /\ ballots' = ballots \cup {<<id, sender>>}
    /\ UNCHANGED <<admins, ops, config, clock>>

FaultMayVoteTwice(sender, id) ==
    /\ AuthorizeAdmin(sender)
    /\ id \in DOMAIN proposals
    /\ proposals[id].status = "Open"
    /\ ~IsExpired(proposals[id])

FaultMayVoteDecided(sender, id) ==
    /\ AuthorizeAdmin(sender)
    /\ id \in DOMAIN proposals
    /\ ~IsExpired(proposals[id])
    /\ <<id, sender>> \notin ballots

FaultMayVoteLate(sender, id) ==
    /\ AuthorizeAdmin(sender)
    /\ id \in DOMAIN proposals
    /\ proposals[id].status = "Open"
    /\ <<id, sender>> \notin ballots

\* What execute_vote demands before it counts a vote.
MayVote(sender, id) ==
    /\ AuthorizeAdmin(sender)
    /\ id \in DOMAIN proposals
    /\ proposals[id].status = "Open"
    /\ ~IsExpired(proposals[id])
    /\ <<id, sender>> \notin ballots

ExecuteVote(sender, id) ==
    /\ MayVote(sender, id)
    /\ ballots' = ballots \cup {<<id, sender>>}
    /\ proposals' = [proposals EXCEPT ![id] = UpdateStatus(AddVote(proposals[id]))]
    /\ UNCHANGED <<admins, ops, config, proposal_count, clock>>

ExecuteInternalUpdateAdmin(sender, admin, remove) ==
    /\ AuthorizeSelfCall(sender)
    /\ admins' = IF remove THEN admins \ {admin} ELSE admins \cup {admin}

FaultMayProcessAgain(sender, id) ==
    /\ AuthorizeAdmin(sender)
    /\ id \in DOMAIN proposals
    /\ CurrentStatus(proposals[id]) \in {"Passed", "Executed"}

FaultMayProcessInTime(sender, id) ==
    /\ AuthorizeAdmin(sender)
    /\ id \in DOMAIN proposals
    /\ CurrentStatus(proposals[id]) = "Passed"
    /\ ~IsExpired(proposals[id])

FaultMayProcessOpen(sender, id) ==
    /\ AuthorizeAdmin(sender)
    /\ id \in DOMAIN proposals
    /\ CurrentStatus(proposals[id]) \in {"Open", "Passed"}

\* What execute_process_proposal demands before it dispatches the message.
MayProcess(sender, id) ==
    /\ AuthorizeAdmin(sender)
    /\ id \in DOMAIN proposals
    /\ CurrentStatus(proposals[id]) = "Passed"

\* The proposal is marked executed and its message dispatched in the same
\* transaction; an admin update comes back as a call of the contract to itself.
\* The other messages touch the treasury or the chain, not this component.
ExecuteProcessProposal(sender, id) ==
    /\ MayProcess(sender, id)
    /\ proposals' = [proposals EXCEPT ![id].status = "Executed"]
    /\ LET msg == proposals[id].msg
       IN  IF msg.type = "InternalUpdateAdmin"
           THEN ExecuteInternalUpdateAdmin(Self, msg.admin, msg.remove)
           ELSE UNCHANGED admins
    /\ UNCHANGED <<ops, config, proposal_count, ballots, clock>>

UpdateOp(sender, op, remove) ==
    /\ ExecuteUpdateOp(sender, op, remove)
    /\ UNCHANGED <<config, motions, clock>>

NextBlock ==
    /\ clock < MaxClock
    /\ clock' = clock + 1
    /\ UNCHANGED <<admins, ops, config, motions>>

GovNext ==
    \/ \E sender \in Sender :
          \/ \E msg \in ProposalMsgs : ExecutePropose(sender, msg)
          \/ \E id \in DOMAIN proposals : ExecuteVote(sender, id)
          \/ \E id \in DOMAIN proposals : ExecuteProcessProposal(sender, id)
          \/ \E op \in OpCandidate, remove \in BOOLEAN : UpdateOp(sender, op, remove)
    \/ NextBlock

GovSpec == GovInit /\ [][GovNext]_govVars

\* Nothing in the contract runs by itself: the assumption is that, as long as
\* there are admins, one of them processes a proposal that stays processable.
GovFairness ==
    \A id \in 1..MaxProposals :
        WF_govVars(\E sender \in Sender :
                      /\ id \in DOMAIN proposals
                      /\ ExecuteProcessProposal(sender, id))

GovFairSpec == GovSpec /\ GovFairness
-----------------------------------------------------------------------------
Status == {"Open", "Passed", "Rejected", "Executed"}

Proposal ==
    [msg : ProposalMsgs, proposer : Sender, expires : Nat, status : Status,
     votes : Nat, threshold : 0..100, total_weight : Nat]

GovTypeOK ==
    /\ admins \subseteq Address
    /\ ops \subseteq OpCandidate
    /\ admin_voting_threshold \in Thresholds
    /\ max_voting_period \in Periods
    /\ proposal_count \in 0..MaxProposals
    /\ DOMAIN proposals = 1..proposal_count
    /\ \A id \in DOMAIN proposals : proposals[id] \in Proposal
    /\ ballots \subseteq (DOMAIN proposals) \X Sender
    /\ clock \in 0..MaxClock

Voters(id) == {voter \in Sender : <<id, voter>> \in ballots}

\* The tally kept in a proposal and the ballots kept beside it are two records
\* of the same votes: nobody is counted twice and no ballot goes uncounted
\* (AlreadyVoted and add_vote in execute_vote, votes and BALLOTS in execute_propose).
TallyMatchesBallots ==
    \A id \in DOMAIN proposals : proposals[id].votes = Cardinality(Voters(id))

\* A proposal was passed, or executed, by the share of the admins it was put to
\* that the threshold demands, and one still stored as open has less than that.
DecidedByThreshold ==
    \A id \in DOMAIN proposals :
        LET prop == proposals[id]
            enough == 100 * prop.votes >= prop.total_weight * prop.threshold
        IN  /\ prop.status \in {"Passed", "Executed"} => enough
            /\ prop.status \in {"Open", "Rejected"} => ~enough

\* The electorate is frozen at its size when the proposal was made, yet whoever is
\* an admin later may vote: the tally still never exceeds that size, because
\* execute_vote refuses a decided proposal.
TallyWithinWeight ==
    \A id \in DOMAIN proposals : proposals[id].votes <= proposals[id].total_weight

AdminsStep ==
    admins' # admins =>
        \E id \in DOMAIN proposals :
            LET msg == proposals[id].msg
            IN  /\ 100 * Cardinality(Voters(id))
                      >= proposals[id].total_weight * proposals[id].threshold
                /\ proposals[id].status # "Executed"
                /\ proposals'[id].status = "Executed"
                /\ msg \in {UpdateAdminMsg(msg.admin, TRUE), UpdateAdminMsg(msg.admin, FALSE)}
                /\ admins' = IF msg.remove THEN admins \ {msg.admin}
                                           ELSE admins \cup {msg.admin}

\* The admins change only by one step: an approved, not yet executed proposal to
\* add or remove the one address concerned becomes executed.
AdminsChangeOnlyByMotion == [][AdminsStep]_govVars

\* What ListProposals shows of a proposal (query_proposals, map_proposal: its
\* status at the current block, not the stored one).
FaultMapProposal(id) == proposals[id].status
MapProposal(id) == CurrentStatus(proposals[id])

ListedStatusStep ==
    \A id \in DOMAIN proposals :
        <<MapProposal(id), MapProposal(id)'>> \in
            {<<"Open", "Passed">>, <<"Open", "Rejected">>, <<"Passed", "Executed">>}
            \cup {<<s, s>> : s \in Status}

\* The listed status only moves forward, whatever the stored one lags behind:
\* an approval survives the deadline, a lapsed proposal cannot be revived by a late
\* vote, and an executed one never runs again.
ListedStatusOnlyAdvances == [][ListedStatusStep]_govVars

\* The members a message adds and removes when it is dispatched.
AdminJoins(msg) ==
    IF msg.type = "InternalUpdateAdmin" /\ ~msg.remove THEN {msg.admin} ELSE {}
AdminLeaves(msg) ==
    IF msg.type = "InternalUpdateAdmin" /\ msg.remove THEN {msg.admin} ELSE {}

MotionOf(id) ==
    [content |-> proposals[id].msg,
     backers |-> Voters(id),
     quota   |-> proposals[id].threshold,
     size    |-> proposals[id].total_weight,
     phase   |-> MapProposal(id)]

Council == INSTANCE Multisig WITH
    Person   <- Sender,
    Content  <- ProposalMsgs,
    Quotas   <- Thresholds,
    MotionId <- 1..MaxProposals,
    Joins    <- AdminJoins,
    Leaves   <- AdminLeaves,
    members  <- admins,
    motions  <- [id \in DOMAIN proposals |-> MotionOf(id)]

\* The storage of proposals, tallies, deadlines and ballots implements the abstract
\* multisig: a proposal is carried exactly when the ballots it has collected in time
\* are the demanded share, it lapses or runs once, and only its execution changes
\* the admins.
ImplementsMultisig == Council!Spec

HasStatus(id, status) == id \in DOMAIN proposals /\ proposals[id].status = status

\* execute_process_proposal: "If it was approved on time, it can be executed any
\* time."  An approved change of the admins is made, unless no admin is left to ask
\* for it.
ApprovedEventuallyExecuted ==
    \A id \in 1..MaxProposals :
        (HasStatus(id, "Passed") /\ proposals[id].msg.type = "InternalUpdateAdmin")
            ~> (HasStatus(id, "Executed") \/ admins = {})

\* Nothing keeps execute_internal_update_admin from leaving fewer admins than an open
\* proposal still needs, or none, and then no call will ever update the stored status.
\* As long as blocks are produced no client waits for such a proposal for ever: once its
\* deadline is reached it is listed as decided.
ListedDecidedInTheEnd ==
    WF_govVars(NextBlock) =>
        \A id \in 1..MaxProposals :
            (id \in DOMAIN proposals /\ proposals[id].expires <= MaxClock)
                ~> (id \in DOMAIN proposals /\ MapProposal(id) # "Open")
=============================================================================
