------------------------------ MODULE WindDown ------------------------------
(***************************************************************************)
(* Getting the money out.  An approved emergency withdrawal fails as long  *)
(* as part of the schedule's coins is staked or unbonding; rewards already *)
(* paid in cannot be collected while some delegation has earned nothing;   *)
(* and the operators, without whom nothing is unstaked, may all have been  *)
(* dismissed.  From any state the contract can get into, people may decide *)
(* to wind it down: they stop staking and dismissing, and each does his    *)
(* part.  The chain goes on as before.                                     *)
(***************************************************************************)
EXTENDS Gringotts

VARIABLE closing    \* whether they have decided to

windDownVars == <<vars, closing>>

\* What WindDown demands of people, at one point or another; the contract demands nothing.
Appoint == \E sender \in Sender, op \in OpCandidate :
    ops = {} /\ UpdateOp(sender, op, FALSE) /\ UNCHANGED funds

Unstake == \E sender \in Sender, v \in Validators, amount \in Amounts :
    ExecuteUndelegate(sender, v, amount) /\ UNCHANGED <<config, motions, clock>>

CollectRewards == \E sender \in Sender :
    ExecuteInitiateWithdrawReward(sender) /\ UNCHANGED <<config, motions, clock>>

Process(id) == \E sender \in Sender : id \in DOMAIN proposals /\ ProcessProposal(sender, id)

\* What the chain does in time.
Mature == \E i \in DOMAIN chain.unbonding :
    CompleteUnbonding(i) /\ UNCHANGED <<contractVars, now, config, motions, clock>>

WithdrawVested == \E sender \in Sender, amount \in Requests :
    ExecuteInitiateWithdrawUnlocked(sender, amount) /\ UNCHANGED <<config, motions, clock>>

ClosingStep ==
    \/ Appoint \/ Unstake \/ CollectRewards \/ WithdrawVested
    \/ \E id \in DOMAIN proposals : Process(id)
    \/ Environment /\ UNCHANGED <<config, motions, clock>>
    \/ Block

Closing(A) == closing /\ A /\ UNCHANGED closing

WindDownNext ==
    \/ ~closing /\ Next /\ UNCHANGED closing
    \/ ~closing /\ closing' = TRUE /\ UNCHANGED vars
    \/ Closing(ClosingStep)

WindDownSpec ==
    /\ Init /\ closing = FALSE
    /\ [][WindDownNext]_windDownVars
    /\ WF_windDownVars(Closing(Appoint)) /\ WF_windDownVars(Closing(Unstake))
    /\ WF_windDownVars(Closing(CollectRewards)) /\ WF_windDownVars(Closing(Mature))
    /\ \A id \in 1..MaxProposals : WF_windDownVars(Closing(Process(id)))
-----------------------------------------------------------------------------
\* execute_process_proposal: "If it was approved on time, it can be executed any time",
\* and execute_internal_withdraw_locked sends the whole schedule at once.  However the
\* coins are staked and whoever was dismissed, an approved emergency withdrawal is carried
\* out if people cooperate; what may prevent it is that no admin is left, that everything
\* has vested and been withdrawn, or that slashing took more than rewards made up for.
EmergencyEventuallyPaid ==
    \A id \in 1..MaxProposals :
        (closing /\ HasStatus(id, "Passed") /\ proposals[id].msg.type = "InternalWithdrawLocked")
            ~> \/ HasStatus(id, "Executed") \/ vesting_amounts = <<>> \/ admins = {}
               \/ Assets(chain) < Total(vesting_amounts)

\* Rewards stuck in the account because of a delegation that earned nothing come out once
\* everything is unstaked: the contract never holds them for good unless nobody is left
\* to act for it.
RewardsEventuallyCollected ==
    (closing /\ CalculateWithdrawnRewards > 0)
        ~> (CalculateWithdrawnRewards = 0 \/ (admins = {} /\ ops = {}))

\* Vested coins that the operators have staked cannot be paid (distribute_vested sends them
\* from the bank): if operators also keep asking for them, they are paid once everything
\* is unstaked, unless slashing took them.
VestedEventuallyPaid ==
    WF_windDownVars(Closing(WithdrawVested)) =>
        ((closing /\ TotalVestedAmount > 0)
            ~> \/ TotalVestedAmount = 0 \/ Assets(chain) < TotalVestedAmount
               \/ admins = {} /\ ops = {})
=============================================================================
