-------------------------- MODULE MCInstantiation --------------------------
(***************************************************************************)
(* Instances of Instantiation for TLC: a second of two nanoseconds and a   *)
(* "hundred years" of two seconds, so that plans may end on either side of *)
(* the bound.                                                              *)
(***************************************************************************)
EXTENDS Instantiation

CONSTANTS person, bot, usei, other

MCAddresses == {person, bot}
MCDenoms == {usei, other}
MCTimestamps == 1..7
MCPlanAmounts == 0..2
MCFundAmounts == 0..3
MCPercentages == {50, 100, 101}
MCBlockTimes == 1..2

\* The run on the overflow of a sum: one person, amounts up to the largest.
WrapAddresses == {person}
WrapTimestamps == {2, 3}
WrapAmounts == 0..7
WrapPercentages == {50}
WrapBlockTimes == {1}
=============================================================================
