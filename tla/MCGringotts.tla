---------------------------- MODULE MCGringotts ----------------------------
(***************************************************************************)
(* An instance of the whole contract for TLC: two people, each an admin or *)
(* not and one of them the operator; two proposals, by which payments may  *)
(* be directed to the other one or to the contract itself.                 *)
(***************************************************************************)
EXTENDS Queries

CONSTANTS p, q, self

MCAddress == {p, q, self}
MCOpCandidate == {p}
MCRecipients == {p}
MCThresholds == {67}
MCPeriods == {1}
MCProposalMsgs ==
    {WithdrawLockedMsg(q), UpdateUnlockedAddressMsg(q), UpdateUnlockedAddressMsg(self),
     UpdateRewardAddressMsg(self)}
MCSchedules == {<< <<0, 1>>, <<1, 1>> >>}
MCAmounts == {1}
MCRequests == {1, 2}
=============================================================================
