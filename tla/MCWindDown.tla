----------------------------- MODULE MCWindDown -----------------------------
(***************************************************************************)
(* An instance of WindDown for TLC: one person, who may resign as an admin *)
(* and dismiss himself as the operator.                                    *)
(***************************************************************************)
EXTENDS WindDown

CONSTANTS p, self

MCAddress == {p, self}
MCPeople == {p}
MCThresholds == {67}
MCPeriods == {1}
MCProposalMsgs == {WithdrawLockedMsg(p), UpdateAdminMsg(p, TRUE)}
MCSchedules == {<< <<1, 2>>, <<1, 1>> >>}
MCAmounts == {1, 2}
MCRequests == {1}
=============================================================================
