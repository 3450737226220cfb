------------------------------ MODULE Custody ------------------------------
(***************************************************************************)
(* What a treasury promises its owner: a purse for the principal it owes   *)
(* and one for what it has beyond that (below zero once too much has been  *)
(* slashed), rewards that are on their way into the second, and a record   *)
(* of what was paid out of either.  Where the coins are (bank, staked,     *)
(* unbonding) does not matter: staking is no step at all, save that it may *)
(* bring rewards in.                                                       *)
(***************************************************************************)
EXTENDS Integers, FiniteSetsExt

VARIABLES
    owed, surplus, pending,
    principal_paid, rewards_paid,   \* as booked
    received                        \* by those who are paid

vars == <<owed, surplus, pending, principal_paid, rewards_paid, received>>

Init ==
    /\ owed \in Nat /\ surplus \in Nat
    /\ pending = 0 /\ principal_paid = 0 /\ rewards_paid = 0 /\ received = 0

PayPrincipal(n) ==
    /\ n <= owed + surplus
    /\ owed' = owed - n
    /\ principal_paid' = principal_paid + n
    /\ \/ received' = received + n /\ UNCHANGED surplus
       \/ surplus' = surplus + n /\ UNCHANGED received    \* paid to itself
    /\ UNCHANGED <<pending, rewards_paid>>

\* Every reward on its way, and at most what the second purse holds; never principal.
PayRewards(n) ==
    /\ pending <= n /\ n <= pending + Max({0, surplus})
    /\ pending' = 0
    /\ rewards_paid' = rewards_paid + n
    /\ \/ received' = received + n /\ surplus' = surplus + pending - n
       \/ surplus' = surplus + pending /\ UNCHANGED received    \* paid to itself
    /\ UNCHANGED <<owed, principal_paid>>

Arrive(n) ==
    /\ pending' = pending - n
    /\ surplus' = surplus + n
    /\ UNCHANGED <<owed, principal_paid, rewards_paid, received>>

Fortune ==
    /\ \/ pending' = pending + 1 /\ UNCHANGED surplus
       \/ surplus' \in {surplus - 1, surplus + 1} /\ UNCHANGED pending
    /\ UNCHANGED <<owed, principal_paid, rewards_paid, received>>

Next ==
    \/ \E n \in 1..owed : PayPrincipal(n)
    \/ \E n \in 1..(pending + Max({0, surplus})) : PayRewards(n)
    \/ \E n \in 1..pending : Arrive(n)
    \/ Fortune

Spec == Init /\ [][Next]_vars
=============================================================================
