------------------------------ MODULE MCVesting ------------------------------
(***************************************************************************)
(* Every schedule of up to MaxEntries entries of up to MaxAmount coins, at *)
(* every choice of times.                                                  *)
(***************************************************************************)
EXTENDS Vesting

CONSTANTS MaxEntries, MaxAmount

Increasing(n) ==
    {ts \in [1..n -> 1..MaxTime] : \A i, j \in 1..n : i < j => ts[i] < ts[j]}

MCSchedules ==
    UNION {Increasing(n) \X [1..n -> 1..MaxAmount] : n \in 1..MaxEntries}

MCRequests == 0..(MaxEntries * MaxAmount + 1)
=============================================================================
