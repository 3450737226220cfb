-------------------------- MODULE GringottsProofs --------------------------
(***************************************************************************)
(* Theorems about the whole contract.  Its steps are steps of Governance   *)
(* or leave Governance alone, so what is proved of Governance holds of     *)
(* the contract; on that rests who can move the treasury.  In the same way *)
(* they are steps of Vesting or leave it alone, and both together say what *)
(* an emergency withdrawal leaves, and of Treasury, which says what each   *)
(* step pays.  At the end what the contract answers (Queries): the lists   *)
(* of proposals and votes explain one another and stay true, and Info      *)
(* agrees with both and with TotalVested.                                  *)
(***************************************************************************)
EXTENDS Queries, GovernanceProofs, TreasuryProofs

LEMMA OpLeavesGovernance ==
    ASSUME OpAction, UNCHANGED <<config, motions, clock>>
    PROVE  UNCHANGED govVars
BY DEF OpAction, govVars, ExecuteDelegate, ExecuteUndelegate, ExecuteRedelegate,
       ExecuteInitiateWithdrawUnlocked, ExecuteInitiateWithdrawReward, roles

LEMMA EnvironmentLeavesGovernance ==
    ASSUME Environment, UNCHANGED <<config, motions, clock>>
    PROVE  UNCHANGED govVars
BY DEF Environment, govVars, contractVars, roles

LEMMA NextGovernance == [Next]_vars => [GovNext]_govVars
<1> SUFFICES ASSUME [Next]_vars PROVE [GovNext]_govVars
  OBVIOUS
<1>1. CASE AdminAction
  <2>1. PICK sender \in Sender :
           \/ \E msg \in ProposalMsgs : ExecutePropose(sender, msg)
           \/ \E id \in DOMAIN proposals : ExecuteVote(sender, id)
           \/ \E op \in OpCandidate, remove \in BOOLEAN : UpdateOp(sender, op, remove)
           \/ \E id \in DOMAIN proposals : ExecuteProcessProposal(sender, id)
    BY <1>1 DEF AdminAction, ProcessProposal
  <2> QED
    BY <2>1 DEF GovNext
<1>2. CASE OpAction /\ UNCHANGED <<config, motions, clock>>
  BY <1>2, OpLeavesGovernance
<1>3. CASE Environment /\ UNCHANGED <<config, motions, clock>>
  BY <1>3, EnvironmentLeavesGovernance
<1>4. CASE Block
  BY <1>4 DEF Block, GovNext
<1>5. CASE UNCHANGED vars
  BY <1>5 DEF vars
<1> QED
  BY <1>1, <1>2, <1>3, <1>4, <1>5 DEF Next

\* The contract is a Governance: with the treasury's handlers run in between, and with
\* an execution that may fail in the treasury, every theorem about GovSpec is one
\* about the contract.
THEOREM GovernanceImplemented == Spec => GovSpec
<1>1. Init => GovInit
  BY DEF Init
<1>2. [Next]_vars => [GovNext]_govVars
  BY NextGovernance
<1> QED
  BY <1>1, <1>2, PTL DEF Spec, GovSpec

LEMMA ContractVotes == Spec => []VotesInv
BY GovernanceImplemented, VotesInvariant, PTL

(***************************************************************************)
(* What the admins decide.                                                 *)
(***************************************************************************)

LEMMA ProcessCarries ==
    ASSUME VotesInv, NEW sender \in Sender, NEW id \in DOMAIN proposals,
           ExecuteProcessProposal(sender, id)
    PROVE  Carried(id, proposals[id].msg)
<1>1. proposals[id] \in Proposal
  BY DEF VotesInv, GovTypeOK
<1>2. proposals[id].status # "Executed" /\ Enough(proposals[id])
  <2>1. \/ proposals[id].status = "Passed"
        \/ proposals[id].status = "Open" /\ IsPassed(proposals[id])
    BY DEF ExecuteProcessProposal, MayProcess, CurrentStatus
  <2> QED
    BY <1>1, <2>1, PassedExactly, DecidedUnfolded DEF VotesInv, StatusFitsVotes
<1>3. 100 * Cardinality(Voters(id)) >= proposals[id].total_weight * proposals[id].threshold
  BY <1>2 DEF Enough, VotesInv, TallyMatchesBallots
<1>4. proposals'[id].status = "Executed"
  BY <1>1 DEF ExecuteProcessProposal, Proposal
<1> QED
  BY <1>2, <1>3, <1>4 DEF Carried

\* A message of a proposal is the one its type says, with the address it holds.
LEMMA MsgOfType ==
    ASSUME NEW msg \in Msg
    PROVE  /\ msg.type = "InternalUpdateUnlockedDistributionAddress" =>
                 msg = UpdateUnlockedAddressMsg(msg.addr)
           /\ msg.type = "InternalUpdateStakingRewardDistributionAddress" =>
                 msg = UpdateRewardAddressMsg(msg.addr)
           /\ msg.type = "InternalWithdrawLocked" =>
                 msg.addr \in Address /\ msg = WithdrawLockedMsg(msg.addr)
BY DEF Msg, UpdateAdminMsg, UpdateUnlockedAddressMsg, UpdateRewardAddressMsg,
       WithdrawLockedMsg, GovVoteMsg

Decided == <<unlock_distribution_address, staking_reward_address, withdrawn_locked>>

LEMMA ProcessDecides ==
    ASSUME VotesInv, NEW sender \in Sender, NEW id \in DOMAIN proposals,
           ProcessProposal(sender, id)
    PROVE  DecisionStep
<1> DEFINE msg == proposals[id].msg
<1>1. msg \in Msg
  BY GovernanceAssumption DEF VotesInv, GovTypeOK, Proposal
<1>2. CarriedNow(msg)
  BY ProcessCarries DEF CarriedNow, ProcessProposal
<1>3. ExecuteInternal(msg)
  BY DEF ProcessProposal
<1> HIDE DEF msg
<1>4. CASE msg.type \in {"InternalUpdateAdmin", "GovVote"} /\ UNCHANGED funds
  BY <1>4 DEF DecisionStep, funds, addresses, vestingVars, books
<1>5. CASE /\ msg.type = "InternalUpdateUnlockedDistributionAddress"
           /\ ExecuteInternalUpdateUnlockedDistributionAddress(Self, msg.addr)
  BY <1>1, <1>2, <1>5, MsgOfType
     DEF DecisionStep, ExecuteInternalUpdateUnlockedDistributionAddress, vestingVars, books
<1>6. CASE /\ msg.type = "InternalUpdateStakingRewardDistributionAddress"
           /\ ExecuteInternalUpdateStakingRewardDistributionAddress(Self, msg.addr)
  BY <1>1, <1>2, <1>6, MsgOfType
     DEF DecisionStep, ExecuteInternalUpdateStakingRewardDistributionAddress,
         vestingVars, books
<1>7. CASE /\ msg.type = "InternalWithdrawLocked"
           /\ ExecuteInternalWithdrawLocked(Self, msg.addr)
  BY <1>1, <1>2, <1>7, MsgOfType
     DEF DecisionStep, ExecuteInternalWithdrawLocked, addresses
<1> QED
  BY <1>3, <1>4, <1>5, <1>6, <1>7 DEF ExecuteInternal

LEMMA OpLeavesDecided == OpAction => UNCHANGED Decided
BY DEF OpAction, ExecuteDelegate, ExecuteUndelegate, ExecuteRedelegate,
       ExecuteInitiateWithdrawUnlocked, WithdrawUnlocked, ExecuteInitiateWithdrawReward,
       Decided, addresses, vestingVars, books

LEMMA ChainLeavesDecided == Environment \/ TimePasses => UNCHANGED Decided
BY DEF Environment, TimePasses, Decided, contractVars, addresses, books

LEMMA NextDecides == VotesInv /\ [Next]_vars => DecisionStep
<1> SUFFICES ASSUME VotesInv, [Next]_vars PROVE DecisionStep
  OBVIOUS
<1>1. UNCHANGED Decided => DecisionStep
  BY DEF Decided, DecisionStep
<1>2. UNCHANGED funds => UNCHANGED Decided
  BY DEF funds, Decided, addresses, vestingVars, books
<1>3. CASE AdminAction
  BY <1>1, <1>2, <1>3, ProcessDecides DEF AdminAction
<1>4. CASE OpAction
  BY <1>1, <1>4, OpLeavesDecided
<1>5. CASE Environment
  BY <1>1, <1>5, ChainLeavesDecided
<1>6. CASE Block
  BY <1>1, <1>2, <1>6, ChainLeavesDecided DEF Block
<1>7. CASE UNCHANGED vars
  BY <1>1, <1>2, <1>7 DEF vars
<1> QED
  BY <1>3, <1>4, <1>5, <1>6, <1>7 DEF Next

\* No step of an operator or of the chain redirects the distribution or reward address
\* or makes the emergency withdrawal; a step that does executes, once, a proposal for
\* exactly that which the demanded share of the admins has voted for.
THEOREM TreasuryObeyed == Spec => TreasuryObeysAdmins
<1>1. VotesInv /\ [Next]_vars => [DecisionStep]_vars
  BY NextDecides
<1>2. Spec => [][DecisionStep]_vars
  BY <1>1, ContractVotes, PTL DEF Spec
<1> QED
  BY <1>2 DEF TreasuryObeysAdmins

(***************************************************************************)
(* The schedule.                                                           *)
(***************************************************************************)

LEMMA ProcessVesting ==
    ASSUME NEW msg, ExecuteInternal(msg)
    PROVE  UNCHANGED vestingVars \/ (WithdrawLocked /\ UNCHANGED now)
BY DEF ExecuteInternal, funds, ExecuteInternalUpdateUnlockedDistributionAddress,
       ExecuteInternalUpdateStakingRewardDistributionAddress, ExecuteInternalWithdrawLocked

LEMMA OpVesting ==
    ASSUME OpAction
    PROVE  \/ UNCHANGED vestingVars
           \/ \E requested \in Requests : WithdrawUnlocked(requested) /\ UNCHANGED now
BY DEF OpAction, ExecuteDelegate, ExecuteUndelegate, ExecuteRedelegate,
       ExecuteInitiateWithdrawUnlocked, ExecuteInitiateWithdrawReward

LEMMA NextVesting == [Next]_vars => [VestingNext]_vestingVars
<1> SUFFICES ASSUME [Next]_vars PROVE [VestingNext]_vestingVars
  OBVIOUS
<1>1. UNCHANGED funds => UNCHANGED vestingVars
  BY DEF funds
<1>2. CASE AdminAction
  <2>1. UNCHANGED funds \/ \E msg : ExecuteInternal(msg)
    BY <1>2 DEF AdminAction, ProcessProposal
  <2> QED
    BY <1>1, <2>1, ProcessVesting DEF VestingNext
<1>3. CASE OpAction
  BY <1>3, OpVesting DEF VestingNext
<1>4. CASE Environment
  BY <1>4 DEF Environment, contractVars, vestingVars
<1>5. CASE Block
  BY <1>1, <1>5 DEF Block, TimePasses, contractVars, VestingNext
<1>6. CASE UNCHANGED vars
  BY <1>1, <1>6 DEF vars
<1> QED
  BY <1>2, <1>3, <1>4, <1>5, <1>6 DEF Next

\* The contract is a Vesting: whoever asks for a withdrawal, and whatever is paid,
\* staked and voted in between, every theorem about VestingSpec is one about it.
THEOREM VestingImplemented == Spec => VestingSpec
<1>1. Init => VestingInit
  BY DEF Init, FundsInit
<1> QED
  BY <1>1, NextVesting, PTL DEF Spec, VestingSpec

LEMMA ContractBooks == Spec => []BooksOK
<1>1. Init => BooksOK
  BY BooksInit DEF Init, FundsInit
<1> QED
  BY <1>1, NextVesting, BooksStep, PTL DEF Spec

(***************************************************************************)
(* The emergency withdrawal.                                               *)
(***************************************************************************)

\* The emergency withdrawal is paid, and the bank pays no withdrawal of nothing.
LEMMA EmergencyPays ==
    ASSUME NEW dst, ExecuteInternalWithdrawLocked(Self, dst)
    PROVE  Total(vesting_amounts) > 0
<1>1. chain' \in ExecSend(chain, dst, Total(vesting_amounts))
  BY RunOne DEF ExecuteInternalWithdrawLocked, Dispatch, Exec, SendMsg
<1> QED
  BY <1>1 DEF ExecSend

\* Inductive with VotesInv and BooksOK: before the emergency withdrawal nothing is booked
\* as one, after it the schedule is empty, and then no second one can be paid.
EmergencyOnce ==
    /\ Emergencies = {} => withdrawn_locked = 0
    /\ Emergencies # {} => vesting_amounts = <<>> /\ withdrawn_locked > 0
    /\ \A i, j \in Emergencies : i = j

LEMMA ProposeEmergencies ==
    ASSUME VotesInv, NEW sender \in Sender, NEW msg \in ProposalMsgs, ExecutePropose(sender, msg)
    PROVE  Emergencies' = Emergencies
<1>1. NextProposalId \notin DOMAIN proposals
  BY GovernanceAssumption DEF VotesInv, GovTypeOK, NextProposalId
<1>2. PICK prop : /\ prop.status = "Open"
                  /\ DOMAIN prop = {"msg", "proposer", "expires", "status", "votes",
                                    "threshold", "total_weight"}
                  /\ proposals' = [i \in DOMAIN proposals \cup {NextProposalId} |->
                                     IF i = NextProposalId THEN UpdateStatus(prop)
                                     ELSE proposals[i]]
  BY DEF ExecutePropose
<1>3. UpdateStatus(prop).status # "Executed"
  BY <1>2 DEF UpdateStatus, CurrentStatus
<1> QED
  BY <1>1, <1>2, <1>3 DEF Emergencies

LEMMA VoteEmergencies ==
    ASSUME VotesInv, NEW sender \in Sender, NEW id \in DOMAIN proposals, ExecuteVote(sender, id)
    PROVE  Emergencies' = Emergencies
<1>1. proposals[id] \in Proposal /\ proposals[id].status = "Open"
  BY DEF VotesInv, GovTypeOK, ExecuteVote, MayVote
<1>2. AddVote(proposals[id]).status = "Open" /\ AddVote(proposals[id]) \in Proposal
  BY <1>1, WithVoteType DEF AddVote, Proposal
<1>3. UpdateStatus(AddVote(proposals[id])).status # "Executed"
  BY <1>2 DEF UpdateStatus, CurrentStatus, Proposal
<1>4. proposals' = [proposals EXCEPT ![id] = UpdateStatus(AddVote(proposals[id]))]
  BY DEF ExecuteVote
<1> QED
  BY <1>1, <1>3, <1>4 DEF Emergencies

LEMMA ProcessEmergencies ==
    ASSUME VotesInv, NEW sender \in Sender, NEW id \in DOMAIN proposals,
           ExecuteProcessProposal(sender, id)
    PROVE  Emergencies' = IF proposals[id].msg.type = "InternalWithdrawLocked"
                          THEN Emergencies \cup {id} ELSE Emergencies
<1>1. proposals[id] \in Proposal /\ proposals[id].status # "Executed"
  BY DEF VotesInv, GovTypeOK, ExecuteProcessProposal, MayProcess, CurrentStatus
<1>2. proposals' = [proposals EXCEPT ![id].status = "Executed"]
  BY DEF ExecuteProcessProposal
<1>3. /\ proposals'[id].status = "Executed" /\ proposals'[id].msg = proposals[id].msg
      /\ \A i \in DOMAIN proposals \ {id} : proposals'[i] = proposals[i]
      /\ DOMAIN proposals' = DOMAIN proposals
  BY <1>1, <1>2 DEF Proposal
<1> QED
  BY <1>1, <1>3 DEF Emergencies

LEMMA WithdrawnStaysEmpty ==
    ASSUME ScheduleOK, vesting_amounts = <<>>, NEW requested \in Nat, CollectVested(requested)
    PROVE  vesting_amounts' = <<>>
<1>1. /\ UsedUp(requested) \in 0..Cardinality(Visited)
      /\ Len(vesting_amounts') = Len(vesting_amounts) - UsedUp(requested)
  BY CollectShiftsSums, ScheduleIsLists
<1>2. Len(vesting_amounts) = 0 /\ Cardinality(Visited) \in Nat
  BY VisitedIsInitial
<1>3. vesting_amounts' \in Seq(Nat \ {0})
  BY CollectKeepsSchedule DEF ScheduleOK
<1> QED
  BY <1>1, <1>2, <1>3

\* Whatever leaves the proposals' statuses and the emergency counter alone.
LEMMA OthersKeepEmergencyOnce ==
    ASSUME EmergencyOnce, Emergencies' = Emergencies, withdrawn_locked' = withdrawn_locked,
           vesting_amounts = <<>> => vesting_amounts' = <<>>
    PROVE  EmergencyOnce'
BY DEF EmergencyOnce

LEMMA ProcessEmergencyOnce ==
    ASSUME VotesInv, BooksOK, EmergencyOnce, NEW sender \in Sender, NEW id \in DOMAIN proposals,
           ProcessProposal(sender, id)
    PROVE  EmergencyOnce'
<1> DEFINE msg == proposals[id].msg
<1>1. Emergencies' = IF msg.type = "InternalWithdrawLocked"
                     THEN Emergencies \cup {id} ELSE Emergencies
  BY ProcessEmergencies DEF ProcessProposal
<1>2. ExecuteInternal(msg)
  BY DEF ProcessProposal
<1> HIDE DEF msg
<1>3. CASE msg.type = "InternalWithdrawLocked"
  <2>1. ExecuteInternalWithdrawLocked(Self, msg.addr)
    BY <1>2, <1>3 DEF ExecuteInternal
  <2>2. Total(vesting_amounts) > 0
    BY <2>1, EmergencyPays
  <2>3. /\ vesting_amounts' = <<>>
        /\ withdrawn_locked' = withdrawn_locked + Total(vesting_amounts)
    BY <2>1 DEF ExecuteInternalWithdrawLocked, WithdrawLocked
  <2>4. vesting_amounts \in Seq(Nat)
    BY DEF BooksOK, VestingTypeOK
  <2>5. Emergencies = {} /\ Total(vesting_amounts) \in Nat
    BY <2>2, <2>4, SumIsNat DEF EmergencyOnce
  <2>6. withdrawn_locked' > 0
    BY <2>2, <2>3, <2>5 DEF EmergencyOnce
  <2> QED
    BY <1>1, <1>3, <2>3, <2>5, <2>6 DEF EmergencyOnce
<1>4. CASE msg.type # "InternalWithdrawLocked"
  <2>1. UNCHANGED vestingVars
    BY <1>2, <1>4
       DEF ExecuteInternal, funds, ExecuteInternalUpdateUnlockedDistributionAddress,
           ExecuteInternalUpdateStakingRewardDistributionAddress
  <2> QED
    BY <1>1, <1>4, <2>1, OthersKeepEmergencyOnce DEF vestingVars, books
<1> QED
  BY <1>3, <1>4

LEMMA OpEmergencyOnce ==
    ASSUME BooksOK, EmergencyOnce, OpAction, UNCHANGED motions
    PROVE  EmergencyOnce'
<1>1. Emergencies' = Emergencies
  BY DEF motions, Emergencies
<1>2. CASE UNCHANGED vestingVars
  BY <1>1, <1>2, OthersKeepEmergencyOnce DEF vestingVars, books
<1>3. ASSUME NEW requested \in Requests, WithdrawUnlocked(requested)
      PROVE  EmergencyOnce'
  <2>1. ScheduleOK /\ requested \in Nat /\ CollectVested(requested)
    BY <1>3, VestingAssumption DEF BooksOK, VestingTypeOK, ScheduleOK, WithdrawUnlocked
  <2>2. withdrawn_locked' = withdrawn_locked
    BY <1>3 DEF WithdrawUnlocked
  <2> QED
    BY <1>1, <2>1, <2>2, WithdrawnStaysEmpty, OthersKeepEmergencyOnce
<1> QED
  BY <1>2, <1>3, OpVesting

LEMMA NextEmergencyOnce == VotesInv /\ BooksOK /\ EmergencyOnce /\ [Next]_vars => EmergencyOnce'
<1> SUFFICES ASSUME VotesInv, BooksOK, EmergencyOnce, [Next]_vars PROVE EmergencyOnce'
  OBVIOUS
<1>1. UNCHANGED motions => Emergencies' = Emergencies
  BY DEF motions, Emergencies
<1>2. UNCHANGED books /\ Emergencies' = Emergencies => EmergencyOnce'
  BY OthersKeepEmergencyOnce DEF books
<1>3. UNCHANGED funds => UNCHANGED books
  BY DEF funds, vestingVars
<1>4. CASE AdminAction
  <2>1. PICK sender \in Sender :
           \/ /\ \/ \E msg \in ProposalMsgs : ExecutePropose(sender, msg)
                 \/ \E id \in DOMAIN proposals : ExecuteVote(sender, id)
                 \/ \E op \in OpCandidate, remove \in BOOLEAN : UpdateOp(sender, op, remove)
              /\ UNCHANGED funds
           \/ \E id \in DOMAIN proposals : ProcessProposal(sender, id)
    BY <1>4 DEF AdminAction
  <2>2. ASSUME NEW msg \in ProposalMsgs, ExecutePropose(sender, msg), UNCHANGED funds
        PROVE  EmergencyOnce'
    BY <1>2, <1>3, <2>2, ProposeEmergencies
  <2>3. ASSUME NEW id \in DOMAIN proposals, ExecuteVote(sender, id), UNCHANGED funds
        PROVE  EmergencyOnce'
    BY <1>2, <1>3, <2>3, VoteEmergencies
  <2>4. ASSUME NEW op \in OpCandidate, NEW remove \in BOOLEAN, UpdateOp(sender, op, remove),
               UNCHANGED funds
        PROVE  EmergencyOnce'
    BY <1>1, <1>2, <1>3, <2>4 DEF UpdateOp
  <2>5. ASSUME NEW id \in DOMAIN proposals, ProcessProposal(sender, id)
        PROVE  EmergencyOnce'
    BY <2>5, ProcessEmergencyOnce
  <2> QED
    BY <2>1, <2>2, <2>3, <2>4, <2>5
<1>5. CASE OpAction /\ UNCHANGED <<config, motions, clock>>
  BY <1>5, OpEmergencyOnce
<1>6. CASE Environment /\ UNCHANGED <<config, motions, clock>>
  BY <1>1, <1>2, <1>6 DEF Environment, contractVars
<1>7. CASE Block
  BY <1>1, <1>2, <1>3, <1>7 DEF Block, NextBlock, TimePasses, contractVars
<1>8. CASE UNCHANGED vars
  BY <1>1, <1>2, <1>3, <1>8 DEF vars, govVars
<1> QED
  BY <1>4, <1>5, <1>6, <1>7, <1>8 DEF Next

LEMMA ContractEmergencyOnce == Spec => []EmergencyOnce
<1>1. Init => EmergencyOnce
  BY DEF Init, GovInit, FundsInit, VestingInit, EmergencyOnce, Emergencies
<1> QED
  BY <1>1, NextEmergencyOnce, ContractVotes, ContractBooks, PTL DEF Spec

\* However many proposals for it are approved, the emergency withdrawal is made at most
\* once, and with what operators withdrew before it pays out exactly the plan.
THEOREM EmergencySettled == Spec => []EmergencySettles
<1>1. BooksOK /\ EmergencyOnce => EmergencySettles
  <2> SUFFICES ASSUME BooksOK, EmergencyOnce, Emergencies # {}
               PROVE  EmergencySettles
    BY DEF EmergencyOnce, EmergencySettles
  <2>1. PICK id : Emergencies = {id}
    <3>1. PICK id \in Emergencies : TRUE
      OBVIOUS
    <3>2. \A i \in Emergencies : i = id
      BY DEF EmergencyOnce
    <3> QED
      BY <3>2
  <2>2. Cardinality(Emergencies) = 1
    BY <2>1, FS_Singleton
  <2>3. vesting_amounts = <<>> /\ withdrawn_locked > 0
    BY DEF EmergencyOnce
  <2>4. vesting_amounts \in Seq(Nat) /\ withdrawn_locked \in Nat /\ withdrawn_unlocked \in Nat
    BY DEF BooksOK, VestingTypeOK
  <2>5. Total(vesting_amounts) = 0
    BY <2>3, <2>4, SumIsNat
  <2>6. total_amount = withdrawn_unlocked + withdrawn_locked
    BY <2>4, <2>5 DEF BooksOK, Conservation
  <2> QED
    BY <2>2, <2>3, <2>4, <2>6 DEF EmergencySettles
<1> QED
  BY <1>1, ContractEmergencyOnce, ContractBooks, PTL

-----------------------------------------------------------------------------
(***************************************************************************)
(* The funds.  Whoever governs them, they take the treasury's steps only.  *)
(***************************************************************************)

LEMMA AddressedTo ==
    ASSUME NEW msg \in Msg,
           msg.type \in {"InternalUpdateUnlockedDistributionAddress",
                         "InternalUpdateStakingRewardDistributionAddress",
                         "InternalWithdrawLocked"}
    PROVE  msg.addr \in Address
BY DEF Msg, UpdateAdminMsg, UpdateUnlockedAddressMsg, UpdateRewardAddressMsg,
       WithdrawLockedMsg, GovVoteMsg

LEMMA FundsAlone ==
    ASSUME UNCHANGED funds
    PROVE  QuietStep
<1>1. UNCHANGED <<vestingVars, addresses, withdrawn_staking_rewards, chain, history>>
  BY Zenon DEF funds
<1>. QED
  BY <1>1, Zenon DEF vestingVars, QuietStep

LEMMA ProcessIsFundsStep ==
    ASSUME FundsInv, VotesInv, NEW sender, NEW id \in DOMAIN proposals,
           ProcessProposal(sender, id)
    PROVE  FundsStep
<1>. DEFINE msg == proposals[id].msg
<1>1. msg \in Msg
  BY GovernanceAssumption DEF VotesInv, GovTypeOK, Proposal
<1>2. ExecuteInternal(msg)
  BY DEF ProcessProposal
<1>. HIDE DEF msg
<1>3. CASE UNCHANGED funds
  BY <1>3, FundsAlone DEF FundsStep
<1>4. CASE msg.type = "InternalUpdateUnlockedDistributionAddress"
           /\ ExecuteInternalUpdateUnlockedDistributionAddress(Self, msg.addr)
  <2>1. msg.addr \in Address
    BY <1>1, <1>4, AddressedTo
  <2>. QED
    BY <1>4, <2>1, InternalIsFundsStep
<1>5. CASE msg.type = "InternalUpdateStakingRewardDistributionAddress"
           /\ ExecuteInternalUpdateStakingRewardDistributionAddress(Self, msg.addr)
  <2>1. msg.addr \in Address
    BY <1>1, <1>5, AddressedTo
  <2>. QED
    BY <1>5, <2>1, InternalIsFundsStep
<1>6. CASE msg.type = "InternalWithdrawLocked" /\ ExecuteInternalWithdrawLocked(Self, msg.addr)
  <2>1. msg.addr \in Address
    BY <1>1, <1>6, AddressedTo
  <2>. QED
    BY <1>6, <2>1, InternalIsFundsStep
<1>. QED
  BY <1>2, <1>3, <1>4, <1>5, <1>6 DEF ExecuteInternal

LEMMA NextIsFundsStep == FundsInv /\ VotesInv /\ [Next]_vars => FundsStep
<1>. SUFFICES ASSUME FundsInv, VotesInv, [Next]_vars PROVE FundsStep
  OBVIOUS
<1>1. UNCHANGED funds => FundsStep
  BY FundsAlone DEF FundsStep
<1>2. CASE AdminAction
  <2>1. UNCHANGED funds \/ \E sender \in Sender, id \in DOMAIN proposals : ProcessProposal(sender, id)
    BY <1>2 DEF AdminAction
  <2>. QED
    BY <1>1, <2>1, ProcessIsFundsStep
<1>3. CASE OpAction \/ Environment
  BY <1>3, OpActionIsFundsStep, EnvironmentIsFundsStep
<1>4. CASE Block
  BY <1>1, <1>4, TimeIsFundsStep DEF Block
<1>5. CASE UNCHANGED vars
  BY <1>1, <1>5 DEF vars
<1>. QED
  BY <1>2, <1>3, <1>4, <1>5 DEF Next

LEMMA ContractFunds == Spec => []FundsInv
<1>1. Init => FundsInv
  BY FundsInitially DEF Init
<1>2. FundsInv /\ VotesInv /\ [Next]_vars => FundsInv'
  BY NextIsFundsStep, NextVesting, FundsStepInv
<1>. QED
  BY <1>1, <1>2, ContractVotes, PTL DEF Spec

\* With addresses that proposals change, to others or to the contract itself, and an
\* emergency withdrawal in between: every payment is booked and every booking paid.
THEOREM ContractPaymentsBooked == Spec => []PaymentsMatchCounters
BY BookedIsPaid, ContractFunds, PTL

\* In the whole contract, too, calculate_withdrawn_rewards never finds more than was
\* earned or deposited.
THEOREM ContractNeverOverWithdrawn == Spec => []OverWithdrawImpossible
BY NoOverWithdrawal, ContractFunds, PTL

\* The admins' emergency withdrawal included, the principal owed is there.
THEOREM ContractStaysSolvent == Spec => []Solvent
<1>1. FundsInv => Solvent
  BY DEF FundsInv
<1>. QED
  BY <1>1, ContractFunds, PTL

\* The whole contract is a Custody: governing the treasury moves no coin between its two
\* purses.
THEOREM ContractIsCustody == Spec => ImplementsCustody
<1>1. Init => Purse!Init
  BY PurseInitially DEF Init
<1>2. FundsInv /\ VotesInv /\ [Next]_vars => [Purse!Next]_Purse!vars
  BY NextIsFundsStep, NextVesting, FundsStepBooks, FundsStepIsPurseStep DEF PurseStep
<1>. QED
  BY <1>1, <1>2, ContractFunds, ContractVotes, PTL DEF Spec, ImplementsCustody, Purse!Spec

\* Nor does an address changed by a proposal, or an emergency withdrawal, make a reward
\* withdrawal take principal or leave rewards behind.
THEOREM ContractRewardsOnly == Spec => RewardWithdrawalExact
<1>1. FundsInv /\ VotesInv /\ [Next]_vars => [RewardWithdrawalStep]_treasuryVars
  BY NextIsFundsStep, NextVesting, FundsStepBooks, FundsStepIsExact
<1>2. Spec => [][RewardWithdrawalStep]_treasuryVars
  BY <1>1, ContractFunds, ContractVotes, PTL DEF Spec
<1>. QED
  BY <1>2 DEF RewardWithdrawalExact

(***************************************************************************)
(* Who is paid.                                                            *)
(***************************************************************************)

BankAmounts ==
    \A a \in Others : chain.bank[a] \in Nat

LEMMA BankOfOthers == FundsInv => BankAmounts
BY AmountsBefore, ChainAmounts DEF Others, BankAmounts

Counters == <<withdrawn_unlocked, withdrawn_locked, withdrawn_staking_rewards>>

LEMMA CountersAreNumbers ==
    FundsInv => withdrawn_unlocked \in Nat /\ withdrawn_locked \in Nat /\ withdrawn_staking_rewards \in Nat
BY AmountsBefore

\* A step that books nothing and pays nobody.
LEMMA NobodyPaid ==
    ASSUME FundsInv, UNCHANGED Counters, \A a \in Others : chain'.bank[a] = chain.bank[a]
    PROVE  PaymentStep
<1>. SUFFICES ASSUME NEW a \in Others
              PROVE  chain'.bank[a] - chain.bank[a] =
                           (IF a = unlock_distribution_address
                            THEN withdrawn_unlocked' - withdrawn_unlocked ELSE 0)
                         + (IF a = staking_reward_address
                            THEN withdrawn_staking_rewards' - withdrawn_staking_rewards ELSE 0)
                         + (IF CarriedNow(WithdrawLockedMsg(a))
                            THEN withdrawn_locked' - withdrawn_locked ELSE 0)
  BY DEF PaymentStep, Others
<1>1. chain'.bank[a] - chain.bank[a] = 0
  BY BankOfOthers DEF BankAmounts
<1>2. /\ withdrawn_unlocked' - withdrawn_unlocked = 0 /\ withdrawn_locked' - withdrawn_locked = 0
      /\ withdrawn_staking_rewards' - withdrawn_staking_rewards = 0
  BY CountersAreNumbers DEF Counters
<1>. QED
  BY <1>1, <1>2

LEMMA StakingPaysNobody == FundsInv /\ StakingStep => PaymentStep
BY NobodyPaid DEF StakingStep, StakingEffect, books, Counters

LEMMA EventPaysNobody == FundsInv /\ EventStep => PaymentStep
BY NobodyPaid DEF EventStep, ChainStep, books, Counters

LEMMA AddressPaysNobody == FundsInv /\ (AddressStep \/ QuietStep) => PaymentStep
BY NobodyPaid DEF AddressStep, QuietStep, books, Counters

\* What one address gets of a payment.
LEMMA PaidToOne ==
    ASSUME FundsInv, NEW n \in Nat, NEW to, PaymentEffect(chain, chain', n, to), NEW a \in Others
    PROVE  chain'.bank[a] - chain.bank[a] = IF a = to THEN n ELSE 0
<1>1. chain'.bank[a] = chain.bank[a] + Share(a = to, n)
  BY DEF PaymentEffect
<1>2. chain.bank[a] \in Nat
  BY BankOfOthers DEF BankAmounts
<1>. QED
  BY <1>1, <1>2 DEF Share

LEMMA UnlockedPaysDistribution ==
    ASSUME FundsInv, NEW sender, NEW amount \in Nat,
           ExecuteInitiateWithdrawUnlocked(sender, amount)
    PROVE  PaymentStep
<1>1. PaymentEffect(chain, chain', amount, unlock_distribution_address)
  BY WithdrawUnlockedHandler DEF PrincipalStep
<1>2. /\ withdrawn_unlocked' = withdrawn_unlocked + amount /\ withdrawn_locked' = withdrawn_locked
      /\ withdrawn_staking_rewards' = withdrawn_staking_rewards
  BY DEF ExecuteInitiateWithdrawUnlocked, WithdrawUnlocked
<1>3. /\ withdrawn_unlocked' - withdrawn_unlocked = amount
      /\ withdrawn_locked' - withdrawn_locked = 0
      /\ withdrawn_staking_rewards' - withdrawn_staking_rewards = 0
  BY <1>2, CountersAreNumbers
<1>4. ASSUME NEW a \in Others
      PROVE  chain'.bank[a] - chain.bank[a] = IF a = unlock_distribution_address THEN amount ELSE 0
  BY <1>1, PaidToOne
<1>. QED
  BY <1>3, <1>4 DEF PaymentStep, Others

LEMMA RewardsPayRewardAddress ==
    ASSUME FundsInv, RewardStep
    PROVE  PaymentStep
<1>. DEFINE n == CalculateWithdrawnRewards + Pending(chain)
<1>1. /\ PaymentEffect(chain, chain', n, staking_reward_address)
      /\ withdrawn_unlocked' = withdrawn_unlocked /\ withdrawn_locked' = withdrawn_locked
      /\ withdrawn_staking_rewards' = withdrawn_staking_rewards + n
  BY DEF RewardStep, books
<1>2. n \in Nat
  BY WithdrawnRewards, AmountsBefore DEF FundsInv, FundsTyped
<1>. HIDE DEF n
<1>3. /\ withdrawn_unlocked' - withdrawn_unlocked = 0
      /\ withdrawn_locked' - withdrawn_locked = 0
      /\ withdrawn_staking_rewards' - withdrawn_staking_rewards = n
  BY <1>1, <1>2, CountersAreNumbers
<1>4. ASSUME NEW a \in Others
      PROVE  chain'.bank[a] - chain.bank[a] = IF a = staking_reward_address THEN n ELSE 0
  BY <1>1, <1>2, PaidToOne
<1>. QED
  BY <1>2, <1>3, <1>4 DEF PaymentStep, Others

\* A step executes at most one proposal.
LEMMA OneCarried ==
    ASSUME VotesInv, NEW sender, NEW id \in DOMAIN proposals, ExecuteProcessProposal(sender, id),
           NEW msg, CarriedNow(msg)
    PROVE  msg = proposals[id].msg
<1>1. PICK i \in DOMAIN proposals : Carried(i, msg)
  BY DEF CarriedNow
<1>2. proposals' = [proposals EXCEPT ![id].status = "Executed"]
  BY DEF ExecuteProcessProposal
<1>3. i = id
  BY <1>1, <1>2 DEF Carried
<1>. QED
  BY <1>1, <1>3 DEF Carried

LEMMA EmergencyPaysDecided ==
    ASSUME FundsInv, VotesInv, NEW sender \in Sender, NEW id \in DOMAIN proposals,
           ExecuteProcessProposal(sender, id), NEW dst \in Address,
           proposals[id].msg = WithdrawLockedMsg(dst), ExecuteInternalWithdrawLocked(Self, dst)
    PROVE  PaymentStep
<1>. DEFINE n == Total(vesting_amounts)
<1>1. PaymentEffect(chain, chain', n, dst) /\ n \in Nat
  BY WithdrawLockedHandler DEF PrincipalStep
<1>2. /\ withdrawn_unlocked' = withdrawn_unlocked /\ withdrawn_locked' = withdrawn_locked + n
      /\ withdrawn_staking_rewards' = withdrawn_staking_rewards
  BY DEF ExecuteInternalWithdrawLocked, WithdrawLocked
<1>3. CarriedNow(WithdrawLockedMsg(dst))
  BY ProcessCarries DEF CarriedNow
<1>4. ASSUME NEW a, CarriedNow(WithdrawLockedMsg(a))
      PROVE  a = dst
  <2>1. WithdrawLockedMsg(a) = WithdrawLockedMsg(dst)
    BY <1>4, OneCarried
  <2>. QED
    BY <2>1 DEF WithdrawLockedMsg
<1>. HIDE DEF n
<1>5. /\ withdrawn_unlocked' - withdrawn_unlocked = 0
      /\ withdrawn_locked' - withdrawn_locked = n
      /\ withdrawn_staking_rewards' - withdrawn_staking_rewards = 0
  BY <1>1, <1>2, CountersAreNumbers
<1>6. ASSUME NEW a \in Others
      PROVE  chain'.bank[a] - chain.bank[a] = IF CarriedNow(WithdrawLockedMsg(a)) THEN n ELSE 0
  <2>1. chain'.bank[a] - chain.bank[a] = IF a = dst THEN n ELSE 0
    BY <1>1, PaidToOne
  <2>2. a = dst <=> CarriedNow(WithdrawLockedMsg(a))
    BY <1>3, <1>4
  <2>. QED
    BY <2>1, <2>2
<1>. QED
  BY <1>1, <1>5, <1>6 DEF PaymentStep, Others

LEMMA ProcessPays ==
    ASSUME FundsInv, VotesInv, NEW sender \in Sender, NEW id \in DOMAIN proposals,
           ProcessProposal(sender, id)
    PROVE  PaymentStep
<1>. DEFINE msg == proposals[id].msg
<1>1. msg \in Msg /\ ExecuteProcessProposal(sender, id)
  BY GovernanceAssumption DEF VotesInv, GovTypeOK, Proposal, ProcessProposal
<1>2. ExecuteInternal(msg)
  BY DEF ProcessProposal
<1>3. ASSUME msg.type = "InternalWithdrawLocked", ExecuteInternalWithdrawLocked(Self, msg.addr)
      PROVE  PaymentStep
  <2>1. msg.addr \in Address /\ msg = WithdrawLockedMsg(msg.addr)
    BY <1>1, <1>3, MsgOfType
  <2>. QED
    BY <1>1, <1>3, <2>1, EmergencyPaysDecided
<1>. HIDE DEF msg
<1>4. CASE UNCHANGED funds
  BY <1>4, FundsAlone, AddressPaysNobody
<1>5. CASE \/ /\ msg.type = "InternalUpdateUnlockedDistributionAddress"
              /\ ExecuteInternalUpdateUnlockedDistributionAddress(Self, msg.addr)
           \/ /\ msg.type = "InternalUpdateStakingRewardDistributionAddress"
              /\ ExecuteInternalUpdateStakingRewardDistributionAddress(Self, msg.addr)
  <2>1. msg.addr \in Address
    BY <1>1, <1>5, AddressedTo
  <2>2. AddressStep
    BY <1>5, <2>1, AddressHandlers
  <2>. QED
    BY <2>2, AddressPaysNobody
<1>. QED
  BY <1>2, <1>3, <1>4, <1>5 DEF ExecuteInternal

LEMMA OpPays ==
    ASSUME FundsInv, OpAction
    PROVE  PaymentStep
<1>. PICK sender \in Sender :
        \/ \E v \in Validators, amount \in Amounts :
              \/ ExecuteDelegate(sender, v, amount)
              \/ ExecuteUndelegate(sender, v, amount)
              \/ \E dst \in Validators : ExecuteRedelegate(sender, v, dst, amount)
        \/ \E amount \in Requests : ExecuteInitiateWithdrawUnlocked(sender, amount)
        \/ ExecuteInitiateWithdrawReward(sender)
  BY DEF OpAction
<1>1. Amounts \subseteq Nat /\ Requests \subseteq Nat
  BY TreasuryAssumption, VestingAssumption
<1>2. ASSUME NEW v \in Validators, NEW amount \in Amounts,
             \/ ExecuteDelegate(sender, v, amount)
             \/ ExecuteUndelegate(sender, v, amount)
             \/ \E dst \in Validators : ExecuteRedelegate(sender, v, dst, amount)
      PROVE  PaymentStep
  <2>1. StakingStep
    BY <1>1, <1>2, StakingHandlers
  <2>. QED
    BY <2>1, StakingPaysNobody
<1>3. ASSUME NEW amount \in Requests, ExecuteInitiateWithdrawUnlocked(sender, amount)
      PROVE  PaymentStep
  BY <1>1, <1>3, UnlockedPaysDistribution
<1>4. ASSUME ExecuteInitiateWithdrawReward(sender)
      PROVE  PaymentStep
  BY <1>4, WithdrawRewardHandler, RewardsPayRewardAddress
<1>. QED
  BY <1>2, <1>3, <1>4

LEMMA NextPays == FundsInv /\ VotesInv /\ [Next]_vars => PaymentStep
<1>. SUFFICES ASSUME FundsInv, VotesInv, [Next]_vars PROVE PaymentStep
  OBVIOUS
<1>1. UNCHANGED funds => PaymentStep
  BY FundsAlone, AddressPaysNobody
<1>2. CASE AdminAction
  <2>1. \/ UNCHANGED funds
        \/ \E sender \in Sender, id \in DOMAIN proposals : ProcessProposal(sender, id)
    BY <1>2 DEF AdminAction
  <2>. QED
    BY <1>1, <2>1, ProcessPays
<1>3. CASE OpAction
  BY <1>3, OpPays
<1>4. CASE Environment
  BY <1>4, EnvironmentIsEventStep, EventPaysNobody
<1>5. CASE Block
  <2>1. TimePasses => QuietStep
    BY DEF TimePasses, contractVars, QuietStep
  <2>. QED
    BY <1>1, <1>5, <2>1, AddressPaysNobody DEF Block
<1>6. CASE UNCHANGED vars
  BY <1>1, <1>6 DEF vars
<1>. QED
  BY <1>2, <1>3, <1>4, <1>5, <1>6 DEF Next

\* Every coin that leaves the contract leaves for the address the admins have named for
\* coins of its kind, and is booked as that kind: vested coins, rewards, or the emergency
\* withdrawal of a proposal they approved and that this very step executes.
THEOREM EveryCoinAsDecided == Spec => PaidAsDecided
<1>1. FundsInv /\ VotesInv /\ [Next]_vars => [PaymentStep]_vars
  BY NextPays
<1>2. Spec => [][PaymentStep]_vars
  BY <1>1, ContractFunds, ContractVotes, PTL DEF Spec
<1>. QED
  BY <1>2 DEF PaidAsDecided
-----------------------------------------------------------------------------

(***************************************************************************)
(* The votes of a listing, counted.                                        *)
(***************************************************************************)

WeighsUp(g, S) ==
    g = [s \in SUBSET S |-> IF s = {} THEN 0 ELSE Pick(s).weight + g[s \ {Pick(s)}]]

LEMMA WeightIsSum ==
    ASSUME NEW S, IsFiniteSet(S), NEW f, f = [v \in S |-> v.weight]
    PROVE  Weight(S) = SetSum(f, S)
<1>. DEFINE h == CHOOSE g : WeighsUp(g, S)
<1>1. ASSUME NEW g
      PROVE  WeighsUp(g, S) <=> AddsSubsets(g, f, S)
  <2>1. \A s \in SUBSET S : s # {} => f[Pick(s)] = Pick(s).weight
    <3>1. \A s \in SUBSET S : s # {} => Pick(s) \in S
      BY PickInSet
    <3>. QED
      BY <3>1
  <2>2. [s \in SUBSET S |-> IF s = {} THEN 0 ELSE Pick(s).weight + g[s \ {Pick(s)}]]
            = [s \in SUBSET S |-> IF s = {} THEN 0 ELSE f[Pick(s)] + g[s \ {Pick(s)}]]
    BY <2>1
  <2>. QED
    BY <2>2, Zenon DEF WeighsUp, AddsSubsets, AddsUp
<1>2. PICK k : AddsSubsets(k, f, S) /\ SetSum(f, S) = k[S]
  BY SetSumAddsUp
<1>3. WeighsUp(h, S)
  BY <1>1, <1>2, Zenon
<1>4. AddsSubsets(h, f, S)
  BY <1>1, <1>3, Zenon
<1>5. Weight(S) = h[S]
  BY Zenon DEF Weight, MapThenSumSet, MapThenFoldSet, WeighsUp, Pick
<1>. HIDE DEF h
<1>6. h[S] = k[S]
  BY <1>2, <1>4, AddsUpAgree
<1>. QED
  BY <1>2, <1>5, <1>6

VoteOf(voter) == [voter |-> voter, vote |-> "Yes", weight |-> 1]

LEMMA VotesListed ==
    ASSUME NEW id
    PROVE  Weight(QueryVotes(id)) = Cardinality(Voters(id))
<1>. DEFINE V == Voters(id)
            Q == QueryVotes(id)
            f == [v \in Q |-> v.weight]
            listed == [voter \in V |-> VoteOf(voter)]
<1>1. IsFiniteSet(V)
  BY VotersFinite
<1>2. Q = {VoteOf(voter) : voter \in V}
  BY Zenon DEF QueryVotes, VoteOf
<1>3. \A a, b : VoteOf(a) = VoteOf(b) => a = b
  BY DEF VoteOf
<1>. HIDE DEF V, Q
<1>4. listed \in Bijection(V, Q)
  BY <1>2, <1>3 DEF Bijection, Injection, Surjection, IsInjective
<1>5. ExistsBijection(V, Q)
  BY <1>4, Zenon DEF ExistsBijection
<1>6. IsFiniteSet(Q) /\ Cardinality(Q) = Cardinality(V) /\ Cardinality(Q) \in Nat
  BY <1>1, <1>5, FS_Bijection, FS_CardinalityType
<1>7. \A v \in Q : f[v] = 1
  BY <1>2 DEF VoteOf
<1>. HIDE DEF f
<1>8. SetSum(f, Q) = 1 * Cardinality(Q)
  BY <1>6, <1>7, SetSumConstant
<1>9. Weight(Q) = SetSum(f, Q)
  BY <1>6, WeightIsSum DEF f
<1>. QED
  BY <1>6, <1>8, <1>9 DEF V, Q

LEMMA ListedProposals ==
    ASSUME VotesInv
    PROVE  /\ \A i \in DOMAIN QueryProposals :
                  \E id \in DOMAIN proposals : QueryProposals[i] = ProposalResponse(id)
           /\ \A id \in DOMAIN proposals :
                  \E i \in DOMAIN QueryProposals : QueryProposals[i] = ProposalResponse(id)
<1>. DEFINE n == proposal_count
            s == [id \in DOMAIN proposals |-> ProposalResponse(id)]
<1>1. n \in Nat /\ DOMAIN proposals = 1..n
  BY GovernanceAssumption DEF VotesInv, GovTypeOK
<1>2. Len(s) = n /\ DOMAIN s = 1..n
  BY <1>1
<1>3. \A id \in 1..n : s[id] = ProposalResponse(id)
  BY <1>1
<1>. HIDE DEF s
<1>. HIDE DEF n
<1>4. QueryProposals = [i \in 1..n |-> s[(n - i) + 1]]
  <2>1. QueryProposals = Reverse(s)
    BY Zenon DEF QueryProposals, s
  <2>2. Reverse(s) = [i \in 1..Len(s) |-> s[(Len(s) - i) + 1]]
    BY Zenon DEF Reverse
  <2>. QED
    BY <1>2, <2>1, <2>2, Zenon
<1>5. \A i \in 1..n : (n - i) + 1 \in 1..n /\ (n - ((n - i) + 1)) + 1 = i
  BY <1>1
<1>6. \A i \in 1..n : QueryProposals[i] = ProposalResponse((n - i) + 1)
  BY <1>3, <1>4, <1>5
<1>7. DOMAIN QueryProposals = 1..n
  BY <1>4
<1>. QED
  BY <1>1, <1>5, <1>6, <1>7

(***************************************************************************)
(* Every proposal has the contract's threshold, and one stored as rejected *)
(* has expired.                                                            *)
(***************************************************************************)

TermsHold(prop) ==
    /\ prop.threshold = admin_voting_threshold
    /\ prop.status = "Rejected" => clock >= prop.expires

TermsOK == \A id \in DOMAIN proposals : TermsHold(proposals[id])

LEMMA UpdateKeepsTerms ==
    ASSUME NEW prop, prop.status = "Open", prop.threshold = admin_voting_threshold,
           NEW new, new.threshold = prop.threshold, new.status = CurrentStatus(prop),
           new.expires = prop.expires
    PROVE  TermsHold(new)
BY DEF TermsHold, CurrentStatus, IsExpired

LEMMA NextTerms == VotesInv /\ TermsOK /\ [GovNext]_govVars => TermsOK'
<1>. SUFFICES ASSUME VotesInv, TermsOK, [GovNext]_govVars PROVE TermsOK'
  OBVIOUS
<1>1. \A id \in DOMAIN proposals : proposals[id] \in Proposal /\ TermsHold(proposals[id])
  BY DEF VotesInv, GovTypeOK, TermsOK
<1>2. clock \in Nat
  BY GovernanceAssumption DEF VotesInv, GovTypeOK
<1>3. ASSUME NEW sender \in Sender, NEW msg \in ProposalMsgs, ExecutePropose(sender, msg)
      PROVE  TermsOK'
  <2>. DEFINE prop == [msg |-> msg, proposer |-> sender, expires |-> clock + max_voting_period,
                       status |-> "Open", votes |-> 1, threshold |-> admin_voting_threshold,
                       total_weight |-> NumberOfAdmins]
              id == NextProposalId
              new == UpdateStatus(prop)
  <2>1. /\ proposals' = [i \in DOMAIN proposals \cup {id} |-> IF i = id THEN new ELSE proposals[i]]
        /\ UNCHANGED <<config, clock>>
    BY <1>3 DEF ExecutePropose
  <2>2. /\ prop.status = "Open" /\ prop.threshold = admin_voting_threshold
        /\ new.threshold = prop.threshold /\ new.status = CurrentStatus(prop)
        /\ new.expires = prop.expires
    BY DEF UpdateStatus
  <2>. HIDE DEF prop, new, id
  <2>3. TermsHold(new)
    BY <2>2, UpdateKeepsTerms
  <2>. QED
    BY <1>1, <2>1, <2>3 DEF TermsOK, TermsHold, config
<1>4. ASSUME NEW sender \in Sender, NEW i \in DOMAIN proposals, ExecuteVote(sender, i)
      PROVE  TermsOK'
  <2>. DEFINE prop == AddVote(proposals[i])
              new == UpdateStatus(prop)
  <2>1. proposals' = [proposals EXCEPT ![i] = new] /\ UNCHANGED <<config, clock>>
        /\ proposals[i].status = "Open"
    BY <1>4 DEF ExecuteVote, config, MayVote
  <2>2. /\ prop.status = "Open" /\ prop.threshold = admin_voting_threshold
        /\ new.threshold = prop.threshold /\ new.status = CurrentStatus(prop)
        /\ new.expires = prop.expires
    BY <1>1, <2>1 DEF UpdateStatus, AddVote, Proposal, TermsHold
  <2>. HIDE DEF prop, new
  <2>3. TermsHold(new)
    BY <2>2, UpdateKeepsTerms
  <2>. QED
    BY <1>1, <2>1, <2>3 DEF TermsOK, TermsHold, config
<1>5. ASSUME NEW sender \in Sender, NEW i \in DOMAIN proposals, ExecuteProcessProposal(sender, i)
      PROVE  TermsOK'
  <2>1. proposals' = [proposals EXCEPT ![i].status = "Executed"] /\ UNCHANGED <<config, clock>>
    BY <1>5 DEF ExecuteProcessProposal, config
  <2>. QED
    BY <1>1, <2>1 DEF TermsOK, TermsHold, config, Proposal
<1>6. UNCHANGED <<config, motions>> /\ clock' \in Nat /\ clock' >= clock => TermsOK'
  <2>. SUFFICES ASSUME UNCHANGED <<config, motions>>, clock' \in Nat, clock' >= clock PROVE TermsOK'
    OBVIOUS
  <2>1. proposals' = proposals /\ admin_voting_threshold' = admin_voting_threshold
    BY DEF config, motions
  <2>. QED
    BY <1>1, <1>2, <2>1 DEF TermsOK, TermsHold, Proposal
<1>7. ASSUME NEW sender \in Sender, NEW op \in OpCandidate, NEW remove \in BOOLEAN,
             UpdateOp(sender, op, remove)
      PROVE  TermsOK'
  BY <1>2, <1>6, <1>7 DEF UpdateOp
<1>8. CASE NextBlock
  BY <1>2, <1>6, <1>8 DEF NextBlock
<1>9. CASE UNCHANGED govVars
  BY <1>2, <1>6, <1>9 DEF govVars
<1>. QED
  BY <1>3, <1>4, <1>5, <1>7, <1>8, <1>9 DEF GovNext

LEMMA ContractTerms == Spec => []TermsOK
<1>1. Init => TermsOK
  BY DEF Init, GovInit, TermsOK
<1>2. VotesInv /\ TermsOK /\ [Next]_vars => TermsOK'
  BY NextTerms, NextGovernance
<1>. QED
  BY <1>1, <1>2, ContractVotes, PTL DEF Spec

LEMMA ListedStatusExact ==
    ASSUME VotesInv, TermsOK, NEW id \in DOMAIN proposals
    PROVE  /\ Enough(proposals[id]) <=> MapProposal(id) \in {"Passed", "Executed"}
           /\ MapProposal(id) = "Rejected"
                 <=> ~Enough(proposals[id]) /\ clock >= proposals[id].expires
<1>1. proposals[id] \in Proposal /\ TermsHold(proposals[id]) /\ StatusFitsVotes(proposals[id])
  BY DecidedUnfolded DEF VotesInv, GovTypeOK, TermsOK
<1>2. IsPassed(proposals[id]) <=> Enough(proposals[id])
  BY <1>1, PassedExactly
<1>3. proposals[id].status \in {"Open", "Passed", "Rejected", "Executed"}
  BY <1>1 DEF Proposal, Status
<1>. QED
  BY <1>1, <1>2, <1>3
     DEF MapProposal, CurrentStatus, IsExpired, TermsHold, StatusFitsVotes

\* Whoever reads ListProposals and ListVotes can recompute every listed status from the
\* listed votes, at any block and after any changes of the admins.
THEOREM VotesExplainStatus == Spec => []ListedVotesDecide
<1>1. VotesInv /\ TermsOK => ListedVotesDecide
  <2>. SUFFICES ASSUME VotesInv, TermsOK, NEW i \in DOMAIN QueryProposals
                PROVE  LET prop == QueryProposals[i]
                           enough == 100 * Weight(QueryVotes(prop.id))
                                        >= prop.total_weight * prop.threshold
                       IN  /\ enough <=> prop.status \in {"Passed", "Executed"}
                           /\ prop.status = "Rejected" <=> ~enough /\ clock >= prop.expires
                           /\ prop.threshold = QueryConfig.admin_voting_threshold
    BY DEF ListedVotesDecide
  <2>1. PICK id \in DOMAIN proposals : QueryProposals[i] = ProposalResponse(id)
    BY ListedProposals
  <2>. DEFINE prop == QueryProposals[i]
              p == proposals[id]
  <2>2. /\ prop.id = id /\ prop.total_weight = p.total_weight /\ prop.threshold = p.threshold
        /\ prop.expires = p.expires /\ prop.status = MapProposal(id)
    BY <2>1 DEF ProposalResponse
  <2>3. Weight(QueryVotes(id)) = p.votes
    BY VotesListed DEF VotesInv, TallyMatchesBallots
  <2>4. p.threshold = QueryConfig.admin_voting_threshold
    BY DEF TermsOK, TermsHold, QueryConfig
  <2>5. Enough(p) <=> 100 * Weight(QueryVotes(prop.id)) >= prop.total_weight * prop.threshold
    BY <2>2, <2>3 DEF Enough
  <2>6. /\ Enough(p) <=> MapProposal(id) \in {"Passed", "Executed"}
        /\ MapProposal(id) = "Rejected" <=> ~Enough(p) /\ clock >= p.expires
    BY ListedStatusExact
  <2>. HIDE DEF prop, p
  <2>7. /\ Enough(p) <=> prop.status \in {"Passed", "Executed"}
        /\ prop.status = "Rejected" <=> ~Enough(p) /\ clock >= prop.expires
        /\ prop.threshold = QueryConfig.admin_voting_threshold
    BY <2>2, <2>4, <2>6
  <2>. QED
    BY <2>5, <2>7 DEF prop
<1>. QED
  BY <1>1, ContractVotes, ContractTerms, PTL

(***************************************************************************)
(* What was listed stays true.                                             *)
(***************************************************************************)

KeptFields(p, q) ==
    /\ q.msg = p.msg /\ q.proposer = p.proposer /\ q.expires = p.expires
    /\ q.threshold = p.threshold /\ q.total_weight = p.total_weight

\* No handler changes the terms of a proposal or takes back a ballot, and one that
\* touches a proposal finds it listed as open or passed.
LEMMA ProposalsKept ==
    ASSUME VotesInv, [GovNext]_govVars, NEW id \in DOMAIN proposals
    PROVE  /\ id \in DOMAIN proposals' /\ KeptFields(proposals[id], proposals'[id])
           /\ Voters(id) \subseteq Voters(id)'
           /\ \/ Voters(id)' = Voters(id)
              \/ MapProposal(id) \in {"Open", "Passed"}
<1>1. \A i \in DOMAIN proposals : proposals[i] \in Proposal
  BY DEF VotesInv, GovTypeOK
<1>2. ASSUME NEW sender \in Sender, NEW msg \in ProposalMsgs, ExecutePropose(sender, msg)
      PROVE  /\ id \in DOMAIN proposals' /\ proposals'[id] = proposals[id]
             /\ Voters(id)' = Voters(id)
  <2>1. NextProposalId \notin DOMAIN proposals
    BY GovernanceAssumption DEF VotesInv, GovTypeOK, NextProposalId
  <2>. QED
    BY <1>2, <2>1 DEF ExecutePropose, Voters
<1>3. ASSUME NEW sender \in Sender, NEW i \in DOMAIN proposals, ExecuteVote(sender, i)
      PROVE  /\ id \in DOMAIN proposals' /\ KeptFields(proposals[id], proposals'[id])
             /\ Voters(id) \subseteq Voters(id)'
             /\ Voters(id)' = Voters(id) \/ MapProposal(id) = "Open"
  <2>1. proposals' = [proposals EXCEPT ![i] = UpdateStatus(AddVote(proposals[i]))]
        /\ ballots' = ballots \cup {<<i, sender>>}
    BY <1>3 DEF ExecuteVote
  <2>2. KeptFields(proposals[i], UpdateStatus(AddVote(proposals[i])))
    BY <1>1 DEF UpdateStatus, AddVote, Proposal, KeptFields
  <2>3. id \in DOMAIN proposals' /\ KeptFields(proposals[id], proposals'[id])
    BY <2>1, <2>2 DEF KeptFields
  <2>4. Voters(id) \subseteq Voters(id)' /\ (i # id => Voters(id)' = Voters(id))
    BY <2>1 DEF Voters
  <2>5. MapProposal(i) = "Open"
    BY <1>3, VoteMotion
  <2>. QED
    BY <2>3, <2>4, <2>5
<1>4. ASSUME NEW sender \in Sender, NEW i \in DOMAIN proposals, ExecuteProcessProposal(sender, i)
      PROVE  /\ id \in DOMAIN proposals' /\ KeptFields(proposals[id], proposals'[id])
             /\ Voters(id)' = Voters(id)
  BY <1>1, <1>4 DEF ExecuteProcessProposal, Voters, Proposal, KeptFields
<1>5. UNCHANGED motions => /\ id \in DOMAIN proposals' /\ proposals'[id] = proposals[id]
                           /\ Voters(id)' = Voters(id)
  BY DEF motions, Voters
<1>6. KeptFields(proposals[id], proposals[id])
  BY DEF KeptFields
<1>. QED
  BY <1>2, <1>3, <1>4, <1>5, <1>6 DEF GovNext, UpdateOp, NextBlock, govVars

LEMMA NextListings == VotesInv /\ [GovNext]_govVars => ListingStep
<1>. SUFFICES ASSUME VotesInv, [GovNext]_govVars, NEW id \in DOMAIN proposals
              PROVE  LET listed == ProposalResponse(id)
                     IN  /\ id \in DOMAIN proposals'
                         /\ [listed EXCEPT !.status = MapProposal(id)'] = ProposalResponse(id)'
                         /\ QueryVotes(id) \subseteq QueryVotes(id)'
                         /\ listed.status \in {"Rejected", "Executed"} =>
                                ProposalResponse(id)' = listed /\ QueryVotes(id)' = QueryVotes(id)
  BY DEF ListingStep
<1>1. /\ id \in DOMAIN proposals' /\ KeptFields(proposals[id], proposals'[id])
      /\ Voters(id) \subseteq Voters(id)'
      /\ Voters(id)' = Voters(id) \/ MapProposal(id) \in {"Open", "Passed"}
  BY ProposalsKept
<1>2. [ProposalResponse(id) EXCEPT !.status = MapProposal(id)'] = ProposalResponse(id)'
  BY <1>1 DEF ProposalResponse, KeptFields
<1>3. QueryVotes(id) \subseteq QueryVotes(id)'
  BY <1>1 DEF QueryVotes
<1>4. ProposalResponse(id).status = MapProposal(id)
  BY DEF ProposalResponse
<1>5. MapProposal(id) \in {"Rejected", "Executed"} =>
          ProposalResponse(id)' = ProposalResponse(id) /\ QueryVotes(id)' = QueryVotes(id)
  <2>. SUFFICES ASSUME MapProposal(id) \in {"Rejected", "Executed"}
                PROVE  ProposalResponse(id)' = ProposalResponse(id)
                       /\ QueryVotes(id)' = QueryVotes(id)
    OBVIOUS
  <2>1. MapProposal(id)' = MapProposal(id)
    BY NextListing DEF ListedStatusStep
  <2>2. Voters(id)' = Voters(id)
    BY <1>1
  <2>. QED
    BY <1>1, <2>1, <2>2 DEF QueryVotes, ProposalResponse, KeptFields
<1>. QED
  BY <1>1, <1>2, <1>3, <1>4, <1>5

\* A listed proposal keeps its message and its terms, its votes only grow, and what is
\* listed as rejected or executed is listed so for ever, with the same votes.
THEOREM ListingsLast == Spec => ListingsAreLasting
<1>1. VotesInv /\ [Next]_vars => [ListingStep]_vars
  BY NextListings, NextGovernance
<1>2. Spec => [][ListingStep]_vars
  BY <1>1, ContractVotes, PTL DEF Spec
<1>. QED
  BY <1>2 DEF ListingsAreLasting
-----------------------------------------------------------------------------
(***************************************************************************)
(* Info.                                                                   *)
(***************************************************************************)

\* Times increase, so the entries whose time has come are the ones the loops reach.
LEMMA UnlockedAreVisited ==
    ASSUME ScheduleOK, now \in Nat
    PROVE  {i \in DOMAIN vesting_timestamps : vesting_timestamps[i] <= now} = Visited
<1>. DEFINE L == Len(vesting_amounts)
<1>1. L \in Nat /\ DOMAIN vesting_timestamps = 1..L /\ DOMAIN vesting_amounts = 1..L
  BY AmountsSummed
<1>2. \A i \in 1..L : vesting_timestamps[i] \in Nat
  BY <1>1 DEF ScheduleOK
<1>3. \A i \in 1..L : \A j \in 1..i : j \in 1..L /\ (j < i \/ j = i)
  BY <1>1
<1>4. \A i, j \in 1..L : j < i => vesting_timestamps[j] < vesting_timestamps[i]
  BY <1>1 DEF ScheduleOK
<1>5. \A i \in 1..L : i \in 1..i
  BY <1>1
<1>. HIDE DEF L
<1>6. ASSUME NEW i \in 1..L, vesting_timestamps[i] <= now, NEW j \in 1..i
      PROVE  vesting_timestamps[j] <= now
  BY <1>2, <1>3, <1>4, <1>6
<1>. QED
  BY <1>1, <1>5, <1>6 DEF Visited

LEMMA TotalVestedAddsUp ==
    ASSUME BooksOK
    PROVE  LET unlocked == {i \in DOMAIN vesting_timestamps : vesting_timestamps[i] <= now}
           IN  /\ TotalVestedAmount = SetSum(vesting_amounts, unlocked)
               /\ vesting_amounts = <<>> => TotalVestedAmount = 0
<1>1. ScheduleOK /\ now \in Nat
  BY VestingAssumption DEF BooksOK, VestingTypeOK, ScheduleOK
<1>2. VisitedIsPrefix
  BY <1>1, VisitedPrefix
<1>. DEFINE k == Cardinality(Visited)
            S == SumOf(vesting_amounts)
            L == Len(vesting_amounts)
<1>3. /\ k \in 0..L /\ L \in Nat /\ Visited = 1..k /\ TotalVestedAmount = S[k]
      /\ PartialSums(S, vesting_amounts, L)
  BY <1>2, Zenon DEF VisitedIsPrefix
<1>4. vesting_amounts = <<>> => L = 0
  OBVIOUS
<1>. HIDE DEF k, S, L
<1>5. S[k] = SetSum(vesting_amounts, 1..k)
  BY <1>3, PartialSumIsSetSum
<1>6. L = 0 => TotalVestedAmount = 0
  BY <1>3 DEF PartialSums
<1>. QED
  BY <1>1, <1>3, <1>4, <1>5, <1>6, UnlockedAreVisited

\* The list shows an executed emergency exactly when one is stored as executed: a
\* status computed from the clock is never one.
LEMMA EmergencyIsListed ==
    ASSUME VotesInv
    PROVE  EmergencyListed <=> Emergencies # {}
<1>1. \A id \in DOMAIN proposals : /\ ProposalResponse(id).msg = proposals[id].msg
                                  /\ ProposalResponse(id).status = MapProposal(id)
  BY DEF ProposalResponse
<1>2. \A id \in DOMAIN proposals : MapProposal(id) = "Executed" <=> proposals[id].status = "Executed"
  BY DEF MapProposal, CurrentStatus
<1>3. ASSUME EmergencyListed PROVE Emergencies # {}
  <2>1. PICK i \in DOMAIN QueryProposals :
           /\ QueryProposals[i].msg.type = "InternalWithdrawLocked"
           /\ QueryProposals[i].status = "Executed"
    BY <1>3 DEF EmergencyListed
  <2>2. PICK id \in DOMAIN proposals : QueryProposals[i] = ProposalResponse(id)
    BY ListedProposals
  <2>3. id \in Emergencies
    BY <1>1, <1>2, <2>1, <2>2 DEF Emergencies
  <2>. QED
    BY <2>3
<1>4. ASSUME NEW id \in Emergencies PROVE EmergencyListed
  <2>1. /\ id \in DOMAIN proposals /\ proposals[id].msg.type = "InternalWithdrawLocked"
        /\ MapProposal(id) = "Executed"
    BY <1>2 DEF Emergencies
  <2>2. PICK i \in DOMAIN QueryProposals : QueryProposals[i] = ProposalResponse(id)
    BY <2>1, ListedProposals
  <2>. QED
    BY <1>1, <2>1, <2>2 DEF EmergencyListed
<1>. QED
  BY <1>3, <1>4

\* Info, TotalVested and ListProposals, answered from different storage items, agree in
\* every state: what Info shows as unlocked is what TotalVested adds up, and it shows a
\* locked withdrawal exactly when the list shows an executed emergency.
THEOREM InfoAgrees == Spec => []InfoIsConsistent
<1>1. ASSUME VotesInv, BooksOK, EmergencyOnce
      PROVE  InfoIsConsistent
  <2>. DEFINE unlocked == {i \in DOMAIN vesting_timestamps : vesting_timestamps[i] <= now}
  <2>1. /\ QueryInfo.vesting_timestamps = vesting_timestamps
        /\ QueryInfo.vesting_amounts = vesting_amounts
        /\ QueryInfo.withdrawn_locked = withdrawn_locked
    BY DEF QueryInfo
  <2>2. TotalVestedAmount = SetSum(QueryInfo.vesting_amounts, unlocked)
    BY <1>1, <2>1, TotalVestedAddsUp
  <2>3. QueryTotalVested = MapThenSumSet(LAMBDA i : QueryInfo.vesting_amounts[i], unlocked)
    BY <2>2, Zenon DEF QueryTotalVested, SetSum
  <2>4. withdrawn_locked > 0 <=> Emergencies # {}
    BY <1>1 DEF EmergencyOnce
  <2>5. withdrawn_locked > 0 => vesting_amounts = <<>> /\ QueryTotalVested = 0
    BY <1>1, <2>4, TotalVestedAddsUp DEF EmergencyOnce, QueryTotalVested
  <2>6. EmergencyListed <=> Emergencies # {}
    BY <1>1, EmergencyIsListed
  <2>7. unlocked = {i \in DOMAIN QueryInfo.vesting_timestamps :
                       QueryInfo.vesting_timestamps[i] <= now}
    BY <2>1
  <2>. HIDE DEF unlocked
  <2>. QED
    BY <2>1, <2>3, <2>4, <2>5, <2>6, <2>7, Zenon DEF InfoIsConsistent
<1>. QED
  BY <1>1, ContractVotes, ContractBooks, ContractEmergencyOnce, PTL
=============================================================================
