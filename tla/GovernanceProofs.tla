-------------------------- MODULE GovernanceProofs --------------------------
(***************************************************************************)
(* Theorems about Governance, for any addresses, thresholds, voting        *)
(* periods, proposed messages and bounds.                                  *)
(***************************************************************************)
EXTENDS Governance, TLAPS, FiniteSetTheorems

USE DEF PermissionAssumption, GovernanceAssumption, Sender

(***************************************************************************)
(* Arithmetic of the threshold.                                            *)
(***************************************************************************)

\* votes_needed rounds up: reaching it is reaching the exact share.
LEMMA VotesNeededExact ==
    ASSUME NEW votes \in Nat, NEW weight \in Nat, NEW percentage \in 0..100
    PROVE  votes >= VotesNeeded(weight, percentage)
             <=> 100 * votes >= weight * percentage
<1> DEFINE share == weight * percentage
<1>1. share \in Nat
  OBVIOUS
<1> HIDE DEF share
<1>2. votes >= (share + 99) \div 100 <=> 100 * votes >= share
  BY <1>1
<1> QED
  BY <1>2 DEF VotesNeeded, share

\* A tally below the demanded share of an electorate is below its size.
LEMMA ShareWithinWeight ==
    ASSUME NEW votes \in Nat, NEW weight \in Nat, NEW percentage \in 0..100,
           ~(100 * votes >= weight * percentage)
    PROVE  votes < weight
<1>1. weight * percentage <= weight * 100
  <2>1. weight * (100 - percentage) >= 0
    OBVIOUS
  <2>2. weight * (100 - percentage) = weight * 100 - weight * percentage
    OBVIOUS
  <2> QED
    BY <2>1, <2>2
<1> QED
  BY <1>1

(***************************************************************************)
(* Type correctness.                                                       *)
(***************************************************************************)

\* The admin update is the one message that names an address and a direction.
LEMMA AdminMsgFields ==
    ASSUME NEW msg \in Msg, msg.type = "InternalUpdateAdmin"
    PROVE  msg.admin \in Address /\ msg.remove \in BOOLEAN
BY DEF Msg, UpdateAdminMsg, UpdateUnlockedAddressMsg, UpdateRewardAddressMsg,
       WithdrawLockedMsg, GovVoteMsg

LEMMA WithStatusType ==
    ASSUME NEW prop \in Proposal, NEW status \in Status
    PROVE  [prop EXCEPT !.status = status] \in Proposal
BY DEF Proposal

LEMMA WithVoteType ==
    ASSUME NEW prop \in Proposal
    PROVE  AddVote(prop) \in Proposal
BY DEF AddVote, Proposal

LEMMA CurrentStatusType ==
    ASSUME NEW prop \in Proposal
    PROVE  CurrentStatus(prop) \in Status
BY DEF CurrentStatus, Proposal, Status

LEMMA UpdateStatusType ==
    ASSUME NEW prop \in Proposal
    PROVE  UpdateStatus(prop) \in Proposal
BY CurrentStatusType, WithStatusType DEF UpdateStatus

LEMMA AdminsFinite ==
    ASSUME admins \subseteq Address
    PROVE  IsFiniteSet(admins) /\ Cardinality(admins) \in Nat
BY PermissionAssumption, FS_Subset, FS_CardinalityType

LEMMA InitType == GovInit => GovTypeOK
BY GovernanceAssumption, PermissionAssumption DEF GovInit, PermissionInit, GovTypeOK

LEMMA ProposeType ==
    ASSUME GovTypeOK, NEW sender \in Sender, NEW msg \in ProposalMsgs,
           ExecutePropose(sender, msg)
    PROVE  GovTypeOK'
<1> DEFINE prop == [msg |-> msg, proposer |-> sender,
                    expires |-> clock + max_voting_period, status |-> "Open",
                    votes |-> 1, threshold |-> admin_voting_threshold,
                    total_weight |-> Cardinality(admins)]
<1> USE DEF GovTypeOK
<1>1. prop \in Proposal
  BY AdminsFinite, GovernanceAssumption DEF Proposal, Status
<1>2. /\ NextProposalId \in 1..MaxProposals
      /\ proposal_count' = NextProposalId
      /\ DOMAIN proposals \cup {NextProposalId} = 1..NextProposalId
  BY GovernanceAssumption DEF ExecutePropose, NumberOfAdmins, NextProposalId
<1>3. proposals' = [i \in 1..NextProposalId |->
                      IF i = NextProposalId THEN UpdateStatus(prop) ELSE proposals[i]]
  BY <1>2 DEF ExecutePropose, NumberOfAdmins
<1>4. \A i \in DOMAIN proposals' : proposals'[i] \in Proposal
  <2> HIDE DEF prop
  <2> QED
    BY <1>1, <1>2, <1>3, UpdateStatusType
<1>5. DOMAIN proposals' = 1..proposal_count'
  BY <1>2, <1>3
<1>6. ballots' \subseteq (DOMAIN proposals') \X Sender
  <2>1. ballots' = ballots \cup {<<NextProposalId, sender>>}
    BY DEF ExecutePropose
  <2> QED
    BY <2>1, <1>2, <1>5
<1>7. UNCHANGED <<admins, ops, admin_voting_threshold, max_voting_period, clock>>
  BY DEF ExecutePropose, config
<1> QED
  <2> HIDE DEF prop
  <2> QED
    BY <1>2, <1>4, <1>5, <1>6, <1>7

LEMMA VoteType ==
    ASSUME GovTypeOK, NEW sender \in Sender, NEW id \in DOMAIN proposals,
           ExecuteVote(sender, id)
    PROVE  GovTypeOK'
<1> DEFINE counted == AddVote(proposals[id])
<1>1. counted \in Proposal
  BY WithVoteType DEF GovTypeOK
<1>2. proposals' = [proposals EXCEPT ![id] = UpdateStatus(counted)]
  BY DEF ExecuteVote
<1>3. \A i \in DOMAIN proposals : proposals'[i] \in Proposal
  <2> HIDE DEF counted
  <2> QED
    BY <1>1, <1>2, UpdateStatusType DEF GovTypeOK
<1>4. DOMAIN proposals' = DOMAIN proposals
  BY <1>2
<1>5. ballots' \subseteq (DOMAIN proposals') \X Sender
  <2>1. ballots' = ballots \cup {<<id, sender>>}
    BY DEF ExecuteVote
  <2> QED
    BY <2>1, <1>4 DEF GovTypeOK
<1>6. UNCHANGED <<admins, ops, admin_voting_threshold, max_voting_period,
                  proposal_count, clock>>
  BY DEF ExecuteVote, config
<1> QED
  BY <1>3, <1>4, <1>5, <1>6 DEF GovTypeOK

LEMMA ProcessType ==
    ASSUME GovTypeOK, NEW sender \in Sender, NEW id \in DOMAIN proposals,
           ExecuteProcessProposal(sender, id)
    PROVE  GovTypeOK'
<1>1. /\ DOMAIN proposals' = DOMAIN proposals
      /\ \A i \in DOMAIN proposals : proposals'[i] \in Proposal
  <2>1. proposals' = [proposals EXCEPT ![id] = [proposals[id] EXCEPT !.status = "Executed"]]
    BY DEF ExecuteProcessProposal
  <2>2. [proposals[id] EXCEPT !.status = "Executed"] \in Proposal
    BY WithStatusType DEF GovTypeOK, Status
  <2> QED
    BY <2>1, <2>2 DEF GovTypeOK
<1>2. admins' \subseteq Address
  <2>1. proposals[id].msg \in Msg
    BY GovernanceAssumption DEF GovTypeOK, Proposal
  <2> QED
    BY <2>1, AdminMsgFields
    DEF ExecuteProcessProposal, ExecuteInternalUpdateAdmin, GovTypeOK
<1>3. UNCHANGED <<ops, admin_voting_threshold, max_voting_period, proposal_count,
                  ballots, clock>>
  BY DEF ExecuteProcessProposal, config
<1> QED
  BY <1>1, <1>2, <1>3 DEF GovTypeOK

LEMMA NextType == GovTypeOK /\ [GovNext]_govVars => GovTypeOK'
<1> SUFFICES ASSUME GovTypeOK, [GovNext]_govVars PROVE GovTypeOK'
  OBVIOUS
<1>1. ASSUME NEW sender \in Sender, NEW msg \in ProposalMsgs, ExecutePropose(sender, msg)
      PROVE  GovTypeOK'
  BY <1>1, ProposeType
<1>2. ASSUME NEW sender \in Sender, NEW id \in DOMAIN proposals, ExecuteVote(sender, id)
      PROVE  GovTypeOK'
  BY <1>2, VoteType
<1>3. ASSUME NEW sender \in Sender, NEW id \in DOMAIN proposals,
             ExecuteProcessProposal(sender, id)
      PROVE  GovTypeOK'
  BY <1>3, ProcessType
<1>4. ASSUME NEW sender \in Sender, NEW op \in OpCandidate, NEW remove \in BOOLEAN,
             UpdateOp(sender, op, remove)
      PROVE  GovTypeOK'
  BY <1>4 DEF UpdateOp, ExecuteUpdateOp, config, motions, GovTypeOK
<1>5. CASE NextBlock
  BY <1>5, GovernanceAssumption DEF NextBlock, config, motions, GovTypeOK
<1>6. CASE UNCHANGED govVars
  BY <1>6 DEF govVars, config, motions, GovTypeOK
<1> QED
  BY <1>1, <1>2, <1>3, <1>4, <1>5, <1>6 DEF GovNext

\* Every variable keeps its type: ids are the numbers handed out, proposals carry a
\* message that may be proposed, only signers cast ballots.
THEOREM GovTypeCorrect == GovSpec => []GovTypeOK
<1>1. GovInit => GovTypeOK
  BY InitType
<1>2. GovTypeOK /\ [GovNext]_govVars => GovTypeOK'
  BY NextType
<1> QED
  BY <1>1, <1>2, PTL DEF GovSpec

(***************************************************************************)
(* Votes.  The three invariants are inductive only together: that an open  *)
(* proposal has less than its share (DecidedByThreshold) is what bounds    *)
(* the tally after one more vote (TallyWithinWeight).                      *)
(***************************************************************************)

VotesInv == GovTypeOK /\ TallyMatchesBallots /\ DecidedByThreshold /\ TallyWithinWeight

Enough(prop) == 100 * prop.votes >= prop.total_weight * prop.threshold

StatusFitsVotes(prop) ==
    /\ prop.status \in {"Passed", "Executed"} => Enough(prop)
    /\ prop.status \in {"Open", "Rejected"} => ~Enough(prop)

LEMMA PassedExactly ==
    ASSUME NEW prop \in Proposal
    PROVE  IsPassed(prop) <=> Enough(prop)
BY VotesNeededExact DEF IsPassed, Enough, Proposal

\* The stored status agrees with the votes as soon as it has been updated.
LEMMA UpdatedStatusFits ==
    ASSUME NEW prop \in Proposal, prop.status = "Open"
    PROVE  StatusFitsVotes(UpdateStatus(prop))
<1>1. /\ UpdateStatus(prop).status = CurrentStatus(prop)
      /\ UpdateStatus(prop).votes = prop.votes
      /\ UpdateStatus(prop).total_weight = prop.total_weight
      /\ UpdateStatus(prop).threshold = prop.threshold
  BY DEF UpdateStatus, Proposal
<1>2. /\ CurrentStatus(prop) \in {"Passed", "Executed"} => IsPassed(prop)
      /\ CurrentStatus(prop) \in {"Open", "Rejected"} => ~IsPassed(prop)
  BY DEF CurrentStatus
<1> QED
  BY <1>1, <1>2, PassedExactly DEF StatusFitsVotes, Enough

LEMMA DecidedUnfolded ==
    DecidedByThreshold <=> \A id \in DOMAIN proposals : StatusFitsVotes(proposals[id])
BY DEF DecidedByThreshold, StatusFitsVotes, Enough

LEMMA VotersFinite ==
    ASSUME NEW id PROVE IsFiniteSet(Voters(id))
BY PermissionAssumption, FS_Subset DEF Voters

LEMMA ProposeVotes ==
    ASSUME VotesInv, NEW sender \in Sender, NEW msg \in ProposalMsgs,
           ExecutePropose(sender, msg)
    PROVE  VotesInv'
<1> DEFINE prop == [msg |-> msg, proposer |-> sender,
                    expires |-> clock + max_voting_period, status |-> "Open",
                    votes |-> 1, threshold |-> admin_voting_threshold,
                    total_weight |-> Cardinality(admins)]
           new == UpdateStatus(prop)
<1>1. GovTypeOK /\ GovTypeOK'
  BY ProposeType DEF VotesInv
<1>2. prop \in Proposal
  BY <1>1, AdminsFinite, GovernanceAssumption DEF GovTypeOK, Proposal, Status
<1>3. new.votes = 1 /\ new.total_weight = Cardinality(admins) /\ StatusFitsVotes(new)
  BY <1>2, UpdatedStatusFits DEF UpdateStatus
<1>id. PICK id : id = NextProposalId
  OBVIOUS
<1>4. /\ id \notin DOMAIN proposals
      /\ DOMAIN proposals' = DOMAIN proposals \cup {id}
      /\ proposals'[id] = new
      /\ \A i \in DOMAIN proposals : proposals'[i] = proposals[i]
  <2>1. id \notin DOMAIN proposals
    BY <1>1, <1>id DEF GovTypeOK, NextProposalId
  <2>2. proposals' = [i \in DOMAIN proposals \cup {id} |->
                        IF i = id THEN new ELSE proposals[i]]
    BY <1>id DEF ExecutePropose, NumberOfAdmins
  <2> HIDE DEF new
  <2> QED
    BY <2>1, <2>2
<1> HIDE DEF new
<1>5. ballots' = ballots \cup {<<id, sender>>}
  BY <1>id DEF ExecutePropose, NumberOfAdmins
<1>6. Voters(id)' = {sender}
  BY <1>1, <1>4, <1>5 DEF Voters, GovTypeOK
<1>7. \A i \in DOMAIN proposals : Voters(i)' = Voters(i)
  BY <1>4, <1>5 DEF Voters
<1>8. TallyMatchesBallots'
  <2>1. Cardinality({sender}) = 1
    BY FS_Singleton
  <2>2. \A i \in DOMAIN proposals' : proposals'[i].votes = Cardinality(Voters(i)')
    BY <2>1, <1>3, <1>4, <1>6, <1>7 DEF VotesInv, TallyMatchesBallots
  <2> QED
    BY <2>2 DEF TallyMatchesBallots
<1>9. DecidedByThreshold'
  <2>1. \A i \in DOMAIN proposals' : StatusFitsVotes(proposals'[i])
    BY <1>3, <1>4, DecidedUnfolded DEF VotesInv
  <2> QED
    BY <2>1 DEF DecidedByThreshold, StatusFitsVotes, Enough
<1>10. TallyWithinWeight'
  <2>1. sender \in admins
    BY DEF ExecutePropose, AuthorizeAdmin
  <2>2. 1 <= Cardinality(admins)
    BY <2>1, <1>1, AdminsFinite, FS_EmptySet DEF GovTypeOK
  <2> QED
    BY <2>2, <1>3, <1>4 DEF VotesInv, TallyWithinWeight
<1> QED
  BY <1>1, <1>8, <1>9, <1>10 DEF VotesInv

LEMMA VoteVotes ==
    ASSUME VotesInv, NEW sender \in Sender, NEW id \in DOMAIN proposals,
           ExecuteVote(sender, id)
    PROVE  VotesInv'
<1> DEFINE old == proposals[id]
           counted == AddVote(old)
           new == UpdateStatus(counted)
<1>1. GovTypeOK /\ GovTypeOK'
  BY VoteType DEF VotesInv
<1>2. old \in Proposal /\ counted \in Proposal
  BY <1>1, WithVoteType DEF GovTypeOK
<1>3. /\ old.status = "Open" /\ counted.status = "Open"
      /\ counted.votes = old.votes + 1
      /\ counted.total_weight = old.total_weight
  BY <1>2 DEF ExecuteVote, MayVote, AddVote, Proposal
<1>4. StatusFitsVotes(new)
  <2> HIDE DEF counted
  <2> QED
    BY <1>2, <1>3, UpdatedStatusFits
<1>5. new.votes = old.votes + 1 /\ new.total_weight = old.total_weight
  <2> HIDE DEF counted
  <2> QED
    BY <1>2, <1>3 DEF UpdateStatus, Proposal
<1>6. /\ DOMAIN proposals' = DOMAIN proposals
      /\ proposals'[id] = new
      /\ \A i \in DOMAIN proposals \ {id} : proposals'[i] = proposals[i]
  <2>1. proposals' = [proposals EXCEPT ![id] = new]
    BY DEF ExecuteVote
  <2> HIDE DEF new
  <2> QED
    BY <2>1
<1>7. ballots' = ballots \cup {<<id, sender>>} /\ sender \notin Voters(id)
  BY DEF ExecuteVote, MayVote, Voters
<1> HIDE DEF new, counted, old
<1>8. Voters(id)' = Voters(id) \cup {sender}
  BY <1>7 DEF Voters
<1>9. \A i \in DOMAIN proposals \ {id} : Voters(i)' = Voters(i)
  BY <1>7 DEF Voters
<1>10. TallyMatchesBallots'
  <2>1. Cardinality(Voters(id)') = Cardinality(Voters(id)) + 1
    BY <1>7, <1>8, VotersFinite, FS_AddElement
  <2>2. \A i \in DOMAIN proposals' : proposals'[i].votes = Cardinality(Voters(i)')
    BY <2>1, <1>5, <1>6, <1>9 DEF VotesInv, TallyMatchesBallots, old
  <2> QED
    BY <2>2 DEF TallyMatchesBallots
<1>11. DecidedByThreshold'
  <2>1. \A i \in DOMAIN proposals' : StatusFitsVotes(proposals'[i])
    BY <1>4, <1>6, DecidedUnfolded DEF VotesInv
  <2> QED
    BY <2>1 DEF DecidedByThreshold, StatusFitsVotes, Enough
<1>12. TallyWithinWeight'
  <2>1. ~(100 * old.votes >= old.total_weight * old.threshold)
    BY <1>3, DecidedUnfolded DEF VotesInv, StatusFitsVotes, Enough, old
  <2>2. old.votes < old.total_weight
    BY <2>1, <1>2, ShareWithinWeight DEF Proposal
  <2>3. new.votes <= new.total_weight
    BY <2>2, <1>2, <1>5 DEF Proposal
  <2> QED
    BY <2>3, <1>6 DEF VotesInv, TallyWithinWeight
<1> QED
  BY <1>1, <1>10, <1>11, <1>12 DEF VotesInv

LEMMA ProcessVotes ==
    ASSUME VotesInv, NEW sender \in Sender, NEW id \in DOMAIN proposals,
           ExecuteProcessProposal(sender, id)
    PROVE  VotesInv'
<1>1. GovTypeOK /\ GovTypeOK'
  BY ProcessType DEF VotesInv
<1>2. proposals[id] \in Proposal /\ Enough(proposals[id])
  <2>1. proposals[id] \in Proposal
    BY <1>1 DEF GovTypeOK
  <2>2. proposals[id].status = "Passed" \/ IsPassed(proposals[id])
    BY DEF ExecuteProcessProposal, MayProcess, CurrentStatus
  <2> QED
    BY <2>1, <2>2, PassedExactly, DecidedUnfolded DEF VotesInv, StatusFitsVotes
<1>3. /\ DOMAIN proposals' = DOMAIN proposals
      /\ \A i \in DOMAIN proposals :
            /\ proposals'[i].votes = proposals[i].votes
            /\ proposals'[i].total_weight = proposals[i].total_weight
            /\ proposals'[i].threshold = proposals[i].threshold
            /\ proposals'[i].status = IF i = id THEN "Executed" ELSE proposals[i].status
  BY <1>1, <1>2 DEF ExecuteProcessProposal, GovTypeOK, Proposal
<1>4. \A i : Voters(i)' = Voters(i)
  BY DEF ExecuteProcessProposal, Voters
<1>5. TallyMatchesBallots' /\ TallyWithinWeight'
  BY <1>3, <1>4 DEF VotesInv, TallyMatchesBallots, TallyWithinWeight
<1>6. DecidedByThreshold'
  BY <1>2, <1>3 DEF VotesInv, DecidedByThreshold, Enough
<1> QED
  BY <1>1, <1>5, <1>6 DEF VotesInv

LEMMA OthersVotes ==
    ASSUME VotesInv, GovTypeOK', UNCHANGED motions
    PROVE  VotesInv'
<1>1. \A i : Voters(i)' = Voters(i)
  BY DEF motions, Voters
<1> QED
  BY <1>1 DEF VotesInv, motions, TallyMatchesBallots, DecidedByThreshold, TallyWithinWeight

LEMMA InitVotes == GovInit => VotesInv
<1> SUFFICES ASSUME GovInit PROVE VotesInv
  OBVIOUS
<1>1. DOMAIN proposals = {}
  BY DEF GovInit
<1> QED
  BY <1>1, InitType
  DEF VotesInv, TallyMatchesBallots, DecidedByThreshold, TallyWithinWeight

LEMMA NextVotes == VotesInv /\ [GovNext]_govVars => VotesInv'
<1> SUFFICES ASSUME VotesInv, [GovNext]_govVars PROVE VotesInv'
  OBVIOUS
<1>1. GovTypeOK'
  BY NextType DEF VotesInv
<1>2. ASSUME NEW sender \in Sender, NEW msg \in ProposalMsgs, ExecutePropose(sender, msg)
      PROVE  VotesInv'
  BY <1>2, ProposeVotes
<1>3. ASSUME NEW sender \in Sender, NEW id \in DOMAIN proposals, ExecuteVote(sender, id)
      PROVE  VotesInv'
  BY <1>3, VoteVotes
<1>4. ASSUME NEW sender \in Sender, NEW id \in DOMAIN proposals,
             ExecuteProcessProposal(sender, id)
      PROVE  VotesInv'
  BY <1>4, ProcessVotes
<1>5. ASSUME NEW sender \in Sender, NEW op \in OpCandidate, NEW remove \in BOOLEAN,
             UpdateOp(sender, op, remove)
      PROVE  VotesInv'
  BY <1>1, <1>5, OthersVotes DEF UpdateOp
<1>6. CASE NextBlock
  BY <1>1, <1>6, OthersVotes DEF NextBlock
<1>7. CASE UNCHANGED govVars
  BY <1>1, <1>7, OthersVotes DEF govVars
<1> QED
  BY <1>2, <1>3, <1>4, <1>5, <1>6, <1>7 DEF GovNext

LEMMA VotesInvariant == GovSpec => []VotesInv
<1> QED
  BY InitVotes, NextVotes, PTL DEF GovSpec

\* The tally of every proposal is the number of its ballots, whatever the order of
\* votes, admin changes and deadlines.
THEOREM TallyCorrect == GovSpec => []TallyMatchesBallots
BY VotesInvariant, PTL DEF VotesInv

\* A stored decision agrees with the votes and the threshold it was made under.
THEOREM DecisionCorrect == GovSpec => []DecidedByThreshold
BY VotesInvariant, PTL DEF VotesInv

\* No proposal collects more votes than it had admins to ask, even though later
\* admins may vote on it.
THEOREM TallyBounded == GovSpec => []TallyWithinWeight
BY VotesInvariant, PTL DEF VotesInv

(***************************************************************************)
(* What a step may do.                                                     *)
(***************************************************************************)

LEMMA AdminMsgShape ==
    ASSUME NEW msg \in Msg, msg.type = "InternalUpdateAdmin"
    PROVE  msg \in {UpdateAdminMsg(msg.admin, TRUE), UpdateAdminMsg(msg.admin, FALSE)}
BY DEF Msg, UpdateAdminMsg, UpdateUnlockedAddressMsg, UpdateRewardAddressMsg,
       WithdrawLockedMsg, GovVoteMsg

LEMMA ProcessAdmins ==
    ASSUME VotesInv, NEW sender \in Sender, NEW id \in DOMAIN proposals,
           ExecuteProcessProposal(sender, id)
    PROVE  AdminsStep
<1> SUFFICES ASSUME admins' # admins PROVE AdminsStep
  BY DEF AdminsStep
<1>1. proposals[id] \in Proposal /\ proposals[id].msg \in Msg
  BY GovernanceAssumption DEF VotesInv, GovTypeOK, Proposal
<1>2. /\ proposals[id].msg.type = "InternalUpdateAdmin"
      /\ admins' = IF proposals[id].msg.remove THEN admins \ {proposals[id].msg.admin}
                                               ELSE admins \cup {proposals[id].msg.admin}
  BY DEF ExecuteProcessProposal, ExecuteInternalUpdateAdmin
<1>3. proposals[id].status # "Executed" /\ Enough(proposals[id])
  <2>1. \/ proposals[id].status = "Passed"
        \/ proposals[id].status = "Open" /\ IsPassed(proposals[id])
    BY DEF ExecuteProcessProposal, MayProcess, CurrentStatus
  <2> QED
    BY <1>1, <2>1, PassedExactly, DecidedUnfolded DEF VotesInv, StatusFitsVotes
<1>4. 100 * Cardinality(Voters(id)) >= proposals[id].total_weight * proposals[id].threshold
  BY <1>3 DEF Enough, VotesInv, TallyMatchesBallots
<1>5. proposals'[id].status = "Executed"
  BY <1>1 DEF ExecuteProcessProposal, Proposal
<1> QED
  BY <1>1, <1>2, <1>3, <1>4, <1>5, AdminMsgShape DEF AdminsStep

LEMMA NextAdmins == VotesInv /\ [GovNext]_govVars => AdminsStep
<1> SUFFICES ASSUME VotesInv, [GovNext]_govVars, admins' # admins PROVE AdminsStep
  BY DEF AdminsStep
<1>1. PICK sender \in Sender, id \in DOMAIN proposals : ExecuteProcessProposal(sender, id)
  BY DEF GovNext, govVars, ExecutePropose, ExecuteVote, UpdateOp, ExecuteUpdateOp, NextBlock
<1> QED
  BY <1>1, ProcessAdmins

\* Only the execution of an approved proposal to do just that adds or removes an
\* admin, and each such proposal does it once.
THEOREM AdminsGuarded == GovSpec => AdminsChangeOnlyByMotion
<1>1. VotesInv /\ [GovNext]_govVars => [AdminsStep]_govVars
  BY NextAdmins
<1>2. GovSpec => [][AdminsStep]_govVars
  BY <1>1, VotesInvariant, PTL DEF GovSpec
<1> QED
  BY <1>2 DEF AdminsChangeOnlyByMotion

(***************************************************************************)
(* The listed status.                                                      *)
(***************************************************************************)

LEMMA ListedType ==
    ASSUME GovTypeOK, NEW id \in DOMAIN proposals
    PROVE  proposals[id] \in Proposal /\ MapProposal(id) \in Status
BY CurrentStatusType DEF GovTypeOK, MapProposal

\* A proposal nobody touches within a block is listed as before...
LEMMA UntouchedListing ==
    ASSUME NEW id, proposals'[id] = proposals[id], clock' = clock
    PROVE  MapProposal(id)' = MapProposal(id)
BY DEF MapProposal, CurrentStatus, IsPassed, IsExpired

\* ... and the next block may at most let it expire.
LEMMA NextBlockListing ==
    ASSUME GovTypeOK, NEW id \in DOMAIN proposals, NextBlock
    PROVE  \/ MapProposal(id)' = MapProposal(id)
           \/ MapProposal(id) = "Open" /\ MapProposal(id)' = "Rejected"
<1>1. proposals[id] \in Proposal /\ clock \in Nat /\ clock' = clock + 1
  BY GovernanceAssumption DEF GovTypeOK, NextBlock
<1>2. proposals'[id] = proposals[id]
  BY DEF NextBlock, motions
<1>3. IsExpired(proposals[id]) => IsExpired(proposals[id])'
  BY <1>1, <1>2 DEF IsExpired, Proposal
<1> QED
  BY <1>2, <1>3 DEF MapProposal, CurrentStatus, IsPassed

\* Updating the stored status does not change what is listed.
LEMMA UpdateStatusListing ==
    ASSUME NEW prop \in Proposal
    PROVE  CurrentStatus(UpdateStatus(prop)) = CurrentStatus(prop)
<1>1. /\ UpdateStatus(prop).status = CurrentStatus(prop)
      /\ UpdateStatus(prop).votes = prop.votes
      /\ UpdateStatus(prop).total_weight = prop.total_weight
      /\ UpdateStatus(prop).threshold = prop.threshold
      /\ UpdateStatus(prop).expires = prop.expires
  BY DEF UpdateStatus, Proposal
<1> QED
  BY <1>1 DEF CurrentStatus, IsPassed, IsExpired

\* What the handlers do, seen through the listing and the ballots.
LEMMA ProposeMotion ==
    ASSUME GovTypeOK, NEW sender \in Sender, NEW msg \in ProposalMsgs,
           ExecutePropose(sender, msg)
    PROVE  \E id \in 1..MaxProposals \ DOMAIN proposals, otherwise \in {"Open", "Rejected"} :
              /\ DOMAIN proposals' = DOMAIN proposals \cup {id}
              /\ \A i \in DOMAIN proposals : MotionOf(i)' = MotionOf(i)
              /\ MotionOf(id)' =
                    [content |-> msg, backers |-> {sender}, quota |-> admin_voting_threshold,
                     size |-> Cardinality(admins),
                     phase |-> IF 100 >= Cardinality(admins) * admin_voting_threshold
                               THEN "Passed" ELSE otherwise]
<1> DEFINE prop == [msg |-> msg, proposer |-> sender,
                    expires |-> clock + max_voting_period, status |-> "Open",
                    votes |-> 1, threshold |-> admin_voting_threshold,
                    total_weight |-> Cardinality(admins)]
           new == UpdateStatus(prop)
<1>1. prop \in Proposal
  BY AdminsFinite, GovernanceAssumption DEF GovTypeOK, Proposal, Status
<1>2. PICK id : id = NextProposalId
  OBVIOUS
<1>3. /\ id \in 1..MaxProposals
      /\ id \notin DOMAIN proposals
      /\ DOMAIN proposals' = DOMAIN proposals \cup {id}
      /\ proposals'[id] = new
      /\ \A i \in DOMAIN proposals : proposals'[i] = proposals[i]
  <2>1. id \in 1..MaxProposals /\ id \notin DOMAIN proposals
    BY <1>2, GovernanceAssumption DEF GovTypeOK, NextProposalId, ExecutePropose, NumberOfAdmins
  <2>2. proposals' = [i \in DOMAIN proposals \cup {id} |->
                        IF i = id THEN new ELSE proposals[i]]
    BY <1>2 DEF ExecutePropose, NumberOfAdmins
  <2> HIDE DEF new
  <2> QED
    BY <2>1, <2>2
<1>4. ballots' = ballots \cup {<<id, sender>>} /\ clock' = clock
  BY <1>2 DEF ExecutePropose
<1>5. \A i \in DOMAIN proposals : MotionOf(i)' = MotionOf(i)
  <2>1. \A i \in DOMAIN proposals : Voters(i)' = Voters(i)
    BY <1>3, <1>4 DEF Voters
  <2> QED
    BY <2>1, <1>3, <1>4, UntouchedListing DEF MotionOf
<1>6. Voters(id)' = {sender}
  BY <1>3, <1>4 DEF Voters, GovTypeOK
<1>7. /\ new.msg = msg
      /\ new.threshold = admin_voting_threshold
      /\ new.total_weight = Cardinality(admins)
  BY <1>1 DEF UpdateStatus
<1>8. PICK otherwise \in {"Open", "Rejected"} :
         MapProposal(id)' = IF 100 >= Cardinality(admins) * admin_voting_threshold
                            THEN "Passed" ELSE otherwise
  <2>1. IsPassed(prop) <=> 100 >= Cardinality(admins) * admin_voting_threshold
    <3>1. 100 * prop.votes = 100
      OBVIOUS
    <3> QED
      BY <3>1, <1>1, PassedExactly DEF Enough
  <2>2. MapProposal(id)' = CurrentStatus(new)
    BY <1>3, <1>4 DEF MapProposal, CurrentStatus, IsPassed, IsExpired
  <2>3. CurrentStatus(new) = CurrentStatus(prop)
    BY <1>1, UpdateStatusListing
  <2>4. CurrentStatus(prop) \in IF IsPassed(prop) THEN {"Passed"} ELSE {"Open", "Rejected"}
    BY DEF CurrentStatus
  <2> HIDE DEF new, prop
  <2> QED
    BY <2>1, <2>2, <2>3, <2>4
<1> HIDE DEF new, prop
<1> QED
  BY <1>3, <1>5, <1>6, <1>7, <1>8 DEF MotionOf

LEMMA VoteMotion ==
    ASSUME VotesInv, NEW sender \in Sender, NEW id \in DOMAIN proposals,
           ExecuteVote(sender, id)
    PROVE  /\ MapProposal(id) = "Open"
           /\ sender \in admins \ Voters(id)
           /\ DOMAIN proposals' = DOMAIN proposals
           /\ \A i \in DOMAIN proposals \ {id} : MotionOf(i)' = MotionOf(i)
           /\ LET backers == Voters(id) \cup {sender}
              IN  MotionOf(id)' =
                    [content |-> proposals[id].msg, backers |-> backers,
                     quota |-> proposals[id].threshold, size |-> proposals[id].total_weight,
                     phase |-> IF 100 * Cardinality(backers)
                                    >= proposals[id].total_weight * proposals[id].threshold
                               THEN "Passed" ELSE "Open"]
<1> DEFINE counted == AddVote(proposals[id])
           new == UpdateStatus(counted)
           backers == Voters(id) \cup {sender}
<1>1. proposals[id] \in Proposal /\ counted \in Proposal
  BY WithVoteType DEF VotesInv, GovTypeOK
<1>2. /\ proposals[id].status = "Open" /\ ~IsExpired(proposals[id])
      /\ sender \in admins /\ <<id, sender>> \notin ballots
  BY DEF ExecuteVote, MayVote, AuthorizeAdmin
<1>3. MapProposal(id) = "Open"
  <2>1. ~IsPassed(proposals[id])
    BY <1>1, <1>2, PassedExactly, DecidedUnfolded DEF VotesInv, StatusFitsVotes
  <2> QED
    BY <2>1, <1>2 DEF MapProposal, CurrentStatus
<1>4. sender \in admins \ Voters(id)
  BY <1>2 DEF Voters
<1>5. /\ DOMAIN proposals' = DOMAIN proposals
      /\ proposals'[id] = new
      /\ \A i \in DOMAIN proposals \ {id} : proposals'[i] = proposals[i]
  <2>1. proposals' = [proposals EXCEPT ![id] = new]
    BY DEF ExecuteVote
  <2> HIDE DEF new
  <2> QED
    BY <2>1
<1>6. ballots' = ballots \cup {<<id, sender>>} /\ clock' = clock
  BY DEF ExecuteVote
<1>7. \A i \in DOMAIN proposals \ {id} : MotionOf(i)' = MotionOf(i)
  <2>1. \A i \in DOMAIN proposals \ {id} : Voters(i)' = Voters(i)
    BY <1>6 DEF Voters
  <2> QED
    BY <2>1, <1>5, <1>6, UntouchedListing DEF MotionOf
<1>8. Voters(id)' = backers
  BY <1>6 DEF Voters
<1>9. /\ counted.votes = Cardinality(backers) /\ counted.status = "Open"
      /\ counted.msg = proposals[id].msg
      /\ counted.threshold = proposals[id].threshold
      /\ counted.total_weight = proposals[id].total_weight
      /\ counted.expires = proposals[id].expires
  <2>1. Cardinality(backers) = Cardinality(Voters(id)) + 1
    BY <1>4, VotersFinite, FS_AddElement
  <2>2. counted.votes = proposals[id].votes + 1
    BY <1>1 DEF AddVote, Proposal
  <2> QED
    BY <2>1, <2>2, <1>1, <1>2 DEF AddVote, Proposal, VotesInv, TallyMatchesBallots
<1> HIDE DEF counted, backers
<1>10. /\ new.msg = proposals[id].msg
       /\ new.threshold = proposals[id].threshold
       /\ new.total_weight = proposals[id].total_weight
  BY <1>1, <1>9 DEF UpdateStatus, Proposal
<1>11. MapProposal(id)' = IF 100 * Cardinality(backers)
                               >= proposals[id].total_weight * proposals[id].threshold
                          THEN "Passed" ELSE "Open"
  <2>1. MapProposal(id)' = CurrentStatus(new)
    BY <1>5, <1>6 DEF MapProposal, CurrentStatus, IsPassed, IsExpired
  <2>2. CurrentStatus(new) = CurrentStatus(counted)
    BY <1>1, UpdateStatusListing
  <2>3. IsPassed(counted) <=> 100 * Cardinality(backers)
                                >= proposals[id].total_weight * proposals[id].threshold
    BY <1>1, <1>9, PassedExactly DEF Enough
  <2>4. CurrentStatus(counted) = IF IsPassed(counted) THEN "Passed" ELSE "Open"
    BY <1>2, <1>9 DEF CurrentStatus, IsExpired
  <2> HIDE DEF new
  <2> QED
    BY <2>1, <2>2, <2>3, <2>4
<1> HIDE DEF new
<1> QED
  BY <1>3, <1>4, <1>5, <1>7, <1>8, <1>10, <1>11 DEF MotionOf, backers

LEMMA ProcessMotion ==
    ASSUME GovTypeOK, NEW sender \in Sender, NEW id \in DOMAIN proposals,
           ExecuteProcessProposal(sender, id)
    PROVE  /\ MapProposal(id) = "Passed"
           /\ sender \in admins
           /\ DOMAIN proposals' = DOMAIN proposals
           /\ \A i \in DOMAIN proposals \ {id} : MotionOf(i)' = MotionOf(i)
           /\ MotionOf(id)' = [MotionOf(id) EXCEPT !.phase = "Executed"]
<1>1. MapProposal(id) = "Passed" /\ sender \in admins
  BY DEF ExecuteProcessProposal, MayProcess, AuthorizeAdmin, MapProposal
<1>2. proposals[id] \in Proposal
  BY DEF GovTypeOK
<1>3. /\ DOMAIN proposals' = DOMAIN proposals
      /\ proposals'[id] = [proposals[id] EXCEPT !.status = "Executed"]
      /\ \A i \in DOMAIN proposals \ {id} : proposals'[i] = proposals[i]
      /\ clock' = clock
      /\ \A i : Voters(i)' = Voters(i)
  BY DEF ExecuteProcessProposal, Voters
<1>4. \A i \in DOMAIN proposals \ {id} : MotionOf(i)' = MotionOf(i)
  BY <1>3, UntouchedListing DEF MotionOf
<1>5. /\ proposals'[id].status = "Executed"
      /\ proposals'[id].msg = proposals[id].msg
      /\ proposals'[id].threshold = proposals[id].threshold
      /\ proposals'[id].total_weight = proposals[id].total_weight
  BY <1>2, <1>3 DEF Proposal
<1>6. MapProposal(id)' = "Executed"
  BY <1>5 DEF MapProposal, CurrentStatus
<1>7. MotionOf(id)' = [MotionOf(id) EXCEPT !.phase = "Executed"]
  BY <1>3, <1>5, <1>6 DEF MotionOf
<1> QED
  BY <1>1, <1>3, <1>4, <1>7

LEMMA OpMotion ==
    ASSUME UNCHANGED <<motions, clock>>, NEW id
    PROVE  MotionOf(id)' = MotionOf(id)
<1>1. Voters(id)' = Voters(id)
  BY DEF motions, Voters
<1> QED
  BY <1>1, UntouchedListing DEF MotionOf, motions

LEMMA NextListing == VotesInv /\ [GovNext]_govVars => ListedStatusStep
<1> SUFFICES ASSUME VotesInv, [GovNext]_govVars, NEW id \in DOMAIN proposals
             PROVE  \/ MapProposal(id)' = MapProposal(id)
                    \/ MapProposal(id) = "Open" /\ MapProposal(id)' \in {"Passed", "Rejected"}
                    \/ MapProposal(id) = "Passed" /\ MapProposal(id)' = "Executed"
  BY ListedType DEF ListedStatusStep, VotesInv
<1> USE DEF MotionOf
<1>1. ASSUME NEW sender \in Sender, NEW msg \in ProposalMsgs, ExecutePropose(sender, msg)
      PROVE  MapProposal(id)' = MapProposal(id)
  BY <1>1, ProposeMotion DEF VotesInv
<1>2. ASSUME NEW sender \in Sender, NEW i \in DOMAIN proposals, ExecuteVote(sender, i)
      PROVE  \/ MapProposal(id)' = MapProposal(id)
             \/ MapProposal(id) = "Open" /\ MapProposal(id)' \in {"Passed", "Rejected"}
  <2>1. CASE i = id
    BY <1>2, <2>1, VoteMotion
  <2>2. CASE i # id
    BY <1>2, <2>2, VoteMotion
  <2> QED
    BY <2>1, <2>2
<1>3. ASSUME NEW sender \in Sender, NEW i \in DOMAIN proposals,
             ExecuteProcessProposal(sender, i)
      PROVE  \/ MapProposal(id)' = MapProposal(id)
             \/ MapProposal(id) = "Passed" /\ MapProposal(id)' = "Executed"
  <2>1. CASE i = id
    BY <1>3, <2>1, ProcessMotion DEF VotesInv
  <2>2. CASE i # id
    BY <1>3, <2>2, ProcessMotion DEF VotesInv
  <2> QED
    BY <2>1, <2>2
<1>4. ASSUME NEW sender \in Sender, NEW op \in OpCandidate, NEW remove \in BOOLEAN,
             UpdateOp(sender, op, remove)
      PROVE  MapProposal(id)' = MapProposal(id)
  BY <1>4, OpMotion DEF UpdateOp
<1>5. CASE NextBlock
  BY <1>5, NextBlockListing DEF VotesInv
<1>6. CASE UNCHANGED govVars
  BY <1>6, OpMotion DEF govVars
<1> QED
  BY <1>1, <1>2, <1>3, <1>4, <1>5, <1>6 DEF GovNext

\* Seen through ListProposals, a proposal is decided once and executed once; neither
\* the passage of time nor a later vote takes a decision back.
THEOREM ListingAdvances == GovSpec => ListedStatusOnlyAdvances
<1>1. VotesInv /\ [GovNext]_govVars => [ListedStatusStep]_govVars
  BY NextListing
<1>2. GovSpec => [][ListedStatusStep]_govVars
  BY <1>1, VotesInvariant, PTL DEF GovSpec
<1> QED
  BY <1>2 DEF ListedStatusOnlyAdvances

(***************************************************************************)
(* Refinement of the abstract multisig.                                    *)
(***************************************************************************)

councilMotions == [id \in DOMAIN proposals |-> MotionOf(id)]

\* The instance counts as this module does.
LEMMA CouncilCardinality ==
    ASSUME NEW S PROVE Council!Cardinality(S) = Cardinality(S)
BY DEF Council!Cardinality, Cardinality

LEMMA ProposeRefines ==
    ASSUME VotesInv, NEW sender \in Sender, NEW msg \in ProposalMsgs,
           ExecutePropose(sender, msg)
    PROVE  Council!Next
<1>1. PICK id \in 1..MaxProposals \ DOMAIN proposals, otherwise \in {"Open", "Rejected"} :
              /\ DOMAIN proposals' = DOMAIN proposals \cup {id}
              /\ \A i \in DOMAIN proposals : MotionOf(i)' = MotionOf(i)
              /\ MotionOf(id)' =
                    [content |-> msg, backers |-> {sender}, quota |-> admin_voting_threshold,
                     size |-> Cardinality(admins),
                     phase |-> IF 100 >= Cardinality(admins) * admin_voting_threshold
                               THEN "Passed" ELSE otherwise]
  BY ProposeMotion DEF VotesInv
<1>2. sender \in admins /\ UNCHANGED admins
  BY DEF ExecutePropose, AuthorizeAdmin
<1>3. admin_voting_threshold \in Thresholds
  BY DEF VotesInv, GovTypeOK
<1> DEFINE motion == [content |-> msg, backers |-> {sender},
                      quota |-> admin_voting_threshold,
                      size |-> Cardinality(admins), phase |-> "Open"]
<1>4. MotionOf(id)' = [motion EXCEPT !.phase = Council!PhaseOf(motion, otherwise)]
  <2>1. 100 * Cardinality({sender}) = 100
    BY FS_Singleton
  <2>2. Council!PhaseOf(motion, otherwise)
          = IF 100 >= Cardinality(admins) * admin_voting_threshold
            THEN "Passed" ELSE otherwise
    BY <2>1, CouncilCardinality DEF Council!PhaseOf, Council!Carried
  <2> QED
    BY <1>1, <2>2
<1> HIDE DEF motion
<1>5. councilMotions' = [j \in DOMAIN councilMotions \cup {id} |->
                           IF j = id THEN [motion EXCEPT
                                              !.phase = Council!PhaseOf(motion, otherwise)]
                                     ELSE councilMotions[j]]
  BY <1>1, <1>4 DEF councilMotions
<1>6. id \notin DOMAIN councilMotions
  BY DEF councilMotions
<1>7. Council!Move(sender, id, msg, admin_voting_threshold)
  BY <1>2, <1>5, <1>6, CouncilCardinality DEF Council!Move, motion, councilMotions
<1> QED
  BY <1>3, <1>7 DEF Council!Next

LEMMA VoteRefines ==
    ASSUME VotesInv, NEW sender \in Sender, NEW id \in DOMAIN proposals,
           ExecuteVote(sender, id)
    PROVE  Council!Next
<1> DEFINE motion == [content |-> proposals[id].msg, backers |-> Voters(id) \cup {sender},
                      quota |-> proposals[id].threshold,
                      size |-> proposals[id].total_weight, phase |-> MapProposal(id)]
<1>1. /\ MotionOf(id).phase = "Open"
      /\ MotionOf(id).backers = Voters(id)
      /\ sender \in admins \ Voters(id)
      /\ DOMAIN proposals' = DOMAIN proposals
      /\ \A i \in DOMAIN proposals \ {id} : MotionOf(i)' = MotionOf(i)
  BY VoteMotion DEF MotionOf
<1>2. MotionOf(id)' = [motion EXCEPT !.phase = Council!PhaseOf(motion, "Open")]
  <2>1. MotionOf(id)' =
           [content |-> proposals[id].msg, backers |-> Voters(id) \cup {sender},
            quota |-> proposals[id].threshold, size |-> proposals[id].total_weight,
            phase |-> IF 100 * Cardinality(Voters(id) \cup {sender})
                           >= proposals[id].total_weight * proposals[id].threshold
                      THEN "Passed" ELSE "Open"]
    BY VoteMotion
  <2>2. Council!PhaseOf(motion, "Open")
          = IF 100 * Cardinality(Voters(id) \cup {sender})
                 >= proposals[id].total_weight * proposals[id].threshold
            THEN "Passed" ELSE "Open"
    BY CouncilCardinality DEF Council!PhaseOf, Council!Carried
  <2> DEFINE phase == Council!PhaseOf(motion, "Open")
  <2> HIDE DEF phase
  <2>3. [motion EXCEPT !.phase = phase] = [content |-> proposals[id].msg,
           backers |-> Voters(id) \cup {sender}, quota |-> proposals[id].threshold,
           size |-> proposals[id].total_weight, phase |-> phase]
    OBVIOUS
  <2> HIDE DEF motion
  <2> QED
    BY <2>1, <2>2, <2>3 DEF phase
<1>3. UNCHANGED admins
  BY DEF ExecuteVote
<1> HIDE DEF motion
<1>4. councilMotions' = [councilMotions EXCEPT
                            ![id] = [motion EXCEPT !.phase = Council!PhaseOf(motion, "Open")]]
  BY <1>1, <1>2 DEF councilMotions
<1>5. councilMotions[id] = MotionOf(id) /\ DOMAIN councilMotions = DOMAIN proposals
  BY DEF councilMotions
<1>6. motion = [councilMotions[id] EXCEPT !.backers = councilMotions[id].backers \cup {sender}]
  BY <1>5 DEF motion, MotionOf
<1>7. Council!Back(sender, id)
  BY <1>1, <1>3, <1>4, <1>5, <1>6 DEF Council!Back, councilMotions
<1> QED
  BY <1>5, <1>7 DEF Council!Next, councilMotions

LEMMA ProcessRefines ==
    ASSUME VotesInv, NEW sender \in Sender, NEW id \in DOMAIN proposals,
           ExecuteProcessProposal(sender, id)
    PROVE  Council!Next
<1>1. /\ MotionOf(id).phase = "Passed"
      /\ sender \in admins
      /\ DOMAIN proposals' = DOMAIN proposals
      /\ \A i \in DOMAIN proposals \ {id} : MotionOf(i)' = MotionOf(i)
      /\ MotionOf(id)' = [MotionOf(id) EXCEPT !.phase = "Executed"]
  BY ProcessMotion DEF VotesInv, MotionOf
<1>2. councilMotions' = [councilMotions EXCEPT ![id].phase = "Executed"]
  BY <1>1 DEF councilMotions
<1>3. councilMotions[id] = MotionOf(id) /\ MotionOf(id).content = proposals[id].msg
  BY DEF councilMotions, MotionOf
<1>4. admins' = (admins \ AdminLeaves(proposals[id].msg)) \cup AdminJoins(proposals[id].msg)
  BY DEF ExecuteProcessProposal, ExecuteInternalUpdateAdmin, AdminLeaves, AdminJoins
<1>5. Council!Execute(sender, id)
  BY <1>1, <1>2, <1>3, <1>4 DEF Council!Execute, councilMotions
<1> QED
  BY <1>5 DEF Council!Next

LEMMA NextBlockRefines ==
    ASSUME VotesInv, NextBlock
    PROVE  Council!Next \/ UNCHANGED Council!vars
<1> DEFINE lapsed == {id \in DOMAIN proposals :
                        MapProposal(id) = "Open" /\ MapProposal(id)' = "Rejected"}
<1>1. DOMAIN proposals' = DOMAIN proposals /\ UNCHANGED admins
  BY DEF NextBlock, motions
<1>2. \A id \in DOMAIN proposals :
         MotionOf(id)' = IF id \in lapsed THEN [MotionOf(id) EXCEPT !.phase = "Rejected"]
                                         ELSE MotionOf(id)
  <2> TAKE id \in DOMAIN proposals
  <2>1. Voters(id)' = Voters(id) /\ UNCHANGED proposals
    BY DEF NextBlock, motions, Voters
  <2>2. MapProposal(id)' = IF id \in lapsed THEN "Rejected" ELSE MapProposal(id)
    BY NextBlockListing DEF VotesInv
  <2> QED
    BY <2>1, <2>2 DEF MotionOf
<1>3. councilMotions' = [id \in DOMAIN councilMotions |->
                           IF id \in lapsed THEN [councilMotions[id] EXCEPT !.phase = "Rejected"]
                                           ELSE councilMotions[id]]
  BY <1>1, <1>2 DEF councilMotions
<1>4. lapsed \in SUBSET {id \in DOMAIN councilMotions : councilMotions[id].phase = "Open"}
  BY DEF councilMotions, MotionOf
<1> HIDE DEF lapsed
<1>5. CASE lapsed = {}
  <2>1. councilMotions' = councilMotions
    BY <1>3, <1>5 DEF councilMotions
  <2> QED
    BY <2>1, <1>1 DEF Council!vars, councilMotions
<1>6. CASE lapsed # {}
  BY <1>1, <1>3, <1>4, <1>6 DEF Council!Lapse, Council!Next, councilMotions
<1> QED
  BY <1>5, <1>6

LEMMA OthersRefine ==
    ASSUME UNCHANGED <<admins, motions, clock>>
    PROVE  UNCHANGED Council!vars
<1>1. \A id \in DOMAIN proposals : MotionOf(id)' = MotionOf(id)
  BY OpMotion
<1>2. DOMAIN proposals' = DOMAIN proposals
  BY DEF motions
<1> QED
  BY <1>1, <1>2 DEF Council!vars

LEMMA NextRefines == VotesInv /\ [GovNext]_govVars => [Council!Next]_(Council!vars)
<1> SUFFICES ASSUME VotesInv, [GovNext]_govVars
             PROVE  Council!Next \/ UNCHANGED Council!vars
  OBVIOUS
<1>1. ASSUME NEW sender \in Sender, NEW msg \in ProposalMsgs, ExecutePropose(sender, msg)
      PROVE  Council!Next
  BY <1>1, ProposeRefines
<1>2. ASSUME NEW sender \in Sender, NEW id \in DOMAIN proposals, ExecuteVote(sender, id)
      PROVE  Council!Next
  BY <1>2, VoteRefines
<1>3. ASSUME NEW sender \in Sender, NEW id \in DOMAIN proposals,
             ExecuteProcessProposal(sender, id)
      PROVE  Council!Next
  BY <1>3, ProcessRefines
<1>4. ASSUME NEW sender \in Sender, NEW op \in OpCandidate, NEW remove \in BOOLEAN,
             UpdateOp(sender, op, remove)
      PROVE  UNCHANGED Council!vars
  BY <1>4, OthersRefine DEF UpdateOp, ExecuteUpdateOp
<1>5. CASE NextBlock
  BY <1>5, NextBlockRefines
<1>6. CASE UNCHANGED govVars
  BY <1>6, OthersRefine DEF govVars
<1> QED
  BY <1>1, <1>2, <1>3, <1>4, <1>5, <1>6 DEF GovNext

LEMMA InitRefines == GovInit => Council!Init
<1> SUFFICES ASSUME GovInit PROVE Council!Init
  OBVIOUS
<1>1. proposals = [id \in {} |-> GovVoteMsg] /\ DOMAIN proposals = {}
  BY DEF GovInit
<1>2. [id \in DOMAIN proposals |-> MotionOf(id)] = [i \in {} |-> {}]
  BY <1>1
<1> QED
  BY <1>2 DEF Council!Init, GovInit, PermissionInit

\* The contract's multisig implements the abstract one: stored statuses, tallies,
\* deadlines and ballots never let a motion be carried, lapse or take effect in a way
\* the abstract multisig does not.
THEOREM MultisigImplemented == GovSpec => ImplementsMultisig
<1> QED
  BY InitRefines, NextRefines, VotesInvariant, PTL
  DEF GovSpec, ImplementsMultisig, Council!Spec
=============================================================================
