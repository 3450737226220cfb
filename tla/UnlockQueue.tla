---------------------------- MODULE UnlockQueue ----------------------------
(***************************************************************************)
(* What a vesting schedule promises, coin by coin: a queue of coins, each  *)
(* with the time that unlocks it.  A withdrawal takes the coins asked for  *)
(* from the head, all of them unlocked, or is refused; only a seizure      *)
(* takes locked ones, and it takes everything.                             *)
(***************************************************************************)
EXTENDS Integers, Sequences

CONSTANTS
    Queues,         \* the queues a schedule may start from
    Quantity        \* the quantities ever asked for

VARIABLES
    coins,          \* the unlock times of the coins left, earliest first
    taken, seized,  \* how many coins left by withdrawals and by seizures
    time

vars == <<coins, taken, seized, time>>

Init ==
    /\ coins \in Queues
    /\ taken = 0 /\ seized = 0
    /\ time \in Nat

Unlocked == {i \in DOMAIN coins : coins[i] <= time}

Withdraw(n) ==
    /\ 1..n \subseteq Unlocked
    /\ coins' = SubSeq(coins, n + 1, Len(coins))
    /\ taken' = taken + n
    /\ UNCHANGED <<seized, time>>

Seize ==
    /\ coins' = <<>>
    /\ seized' = seized + Len(coins)
    /\ UNCHANGED <<taken, time>>

Pass ==
    /\ time' > time
    /\ UNCHANGED <<coins, taken, seized>>

Next == (\E n \in Quantity : Withdraw(n)) \/ Seize \/ Pass

Spec == Init /\ [][Next]_vars
=============================================================================
