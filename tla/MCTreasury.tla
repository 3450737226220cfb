----------------------------- MODULE MCTreasury -----------------------------
(***************************************************************************)
(* Instances of Treasury for TLC: plans of two entries, one operator, two  *)
(* validators, and few coins earned, slashed or deposited.                 *)
(***************************************************************************)
EXTENDS Treasury

CONSTANTS op, unlock, reward, self

MCAddress == {op, unlock, reward, self}
MCOpCandidate == {op}
MCRecipients == {unlock, reward}

\* One entry of one coin and one of two, in either order, as the two lists of a plan.
MCSchedules == {<< <<1, 2>>, <<1, 2>> >>, << <<1, 2>>, <<2, 1>> >>}
MCAmounts == {1, 2}
MCRequests == 0..3

Symmetry == Permutations(MCRecipients)
=============================================================================
