---------------------------- MODULE MCGovernance ----------------------------
(***************************************************************************)
(* Instances of Governance for TLC: three interchangeable people and one   *)
(* address reserved for the operators' list.                               *)
(***************************************************************************)
EXTENDS Governance, TLC

CONSTANTS a1, a2, a3, op, self

People == {a1, a2, a3}
MCAddress == People \cup {op, self}
MCOpCandidate == {op}

MCThresholds == {0, 50, 67}
MCPeriods == {0, 1}

\* The runs with two people.
Pair == {a1, a2}
PairAddress == Pair \cup {op, self}
PairMsgs == {UpdateAdminMsg(a, r) : a \in Pair, r \in BOOLEAN} \cup {GovVoteMsg}
PairThresholds == {50, 67}

AdminMsgs == {UpdateAdminMsg(a, r) : a \in People, r \in BOOLEAN}

Symmetry == Permutations(People)
=============================================================================
