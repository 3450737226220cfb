------------------------------ MODULE Vesting ------------------------------
(***************************************************************************)
(* The vesting schedule (vesting.rs over VESTING_TIMESTAMPS and            *)
(* VESTING_AMOUNTS): which part of it has vested, how a withdrawal or an   *)
(* emergency withdrawal consumes it, and the books kept of both            *)
(* (TOTAL_AMOUNT, WITHDRAWN_UNLOCKED, WITHDRAWN_LOCKED).  Who may ask, and *)
(* the payment that goes with it, are Treasury's.                          *)
(***************************************************************************)
EXTENDS Sums, FiniteSetsExt

CONSTANTS
    Schedules,      \* the <<timestamps, amounts>> instantiate may have accepted
    Requests,       \* bound: the amounts ever requested
    MaxTime         \* bound: the time of the last block

ASSUME VestingAssumption ==
    /\ \A s \in Schedules :
          /\ s[1] \in Seq(Nat) /\ s[2] \in Seq(Nat \ {0})
          /\ Len(s[1]) = Len(s[2]) /\ s[1] # <<>>
          /\ \A i, j \in DOMAIN s[1] : i < j => s[1][i] < s[1][j]
    /\ Requests \subseteq Nat
    /\ MaxTime \in Nat

VARIABLES
    vesting_timestamps,
    vesting_amounts,
    total_amount,
    withdrawn_unlocked,
    withdrawn_locked,
    now             \* env.block.time

books == <<vesting_timestamps, vesting_amounts, total_amount,
           withdrawn_unlocked, withdrawn_locked>>
vestingVars == <<books, now>>
-----------------------------------------------------------------------------
\* total_vested_amount: the entries up to the first one still locked.
FaultTotalVestedAmount ==
    LET vested == {i \in DOMAIN vesting_amounts :
                      \A j \in 1..i : vesting_timestamps[j] < now}
    IN  SumOf(vesting_amounts)[Cardinality(vested)]
TotalVestedAmount ==
    LET vested == {i \in DOMAIN vesting_timestamps :
                      \A j \in 1..i : vesting_timestamps[j] <= now}
    IN  SumOf(vesting_amounts)[Cardinality(vested)]

\* The entries the loop of collect_vested, over the zipped lists, reaches before it meets
\* a locked one, and those of them by which the request is covered; it stops at the first.
FaultVisitedLate == {i \in DOMAIN vesting_amounts : \A j \in 1..i : vesting_timestamps[j] < now}
FaultVisited == DOMAIN vesting_amounts
Visited == {i \in DOMAIN vesting_amounts \cap DOMAIN vesting_timestamps :
               \A j \in 1..i : vesting_timestamps[j] <= now}
Covering(requested) == {i \in Visited : SumOf(vesting_amounts)[i] >= requested}

CollectSucceeds(requested) ==
    requested <= SumOf(vesting_amounts)[Cardinality(Visited)]

\* remaining_first_idx: how many entries are used up.
FaultUsedUp(requested) ==
    IF Covering(requested) = {} THEN Cardinality(Visited)
    ELSE Min(Covering(requested)) - 1
UsedUp(requested) ==
    IF Covering(requested) = {} THEN Cardinality(Visited)
    ELSE LET last == Min(Covering(requested))
         IN  IF SumOf(vesting_amounts)[last] = requested THEN last ELSE last - 1

\* amount_to_subtract: what the first entry left still gives.
FaultAmountToSubtract(requested) ==
    IF Covering(requested) = {} THEN 0
    ELSE LET last == Min(Covering(requested))
         IN  vesting_amounts[last] + requested - SumOf(vesting_amounts)[last]
AmountToSubtract(requested) ==
    IF Covering(requested) = {} THEN 0
    ELSE LET last == Min(Covering(requested))
         IN  IF SumOf(vesting_amounts)[last] = requested THEN 0
             ELSE vesting_amounts[last] + requested - SumOf(vesting_amounts)[last]

\* collect_vested returns what was requested, or an error when that much has not vested.
CollectVested(requested) ==
    /\ CollectSucceeds(requested)
    /\ LET used == UsedUp(requested)
           left == SubSeq(vesting_amounts, used + 1, Len(vesting_amounts))
       IN  /\ vesting_amounts' =
                 [i \in DOMAIN left |->
                     IF i = 1 THEN left[1] - AmountToSubtract(requested) ELSE left[i]]
           /\ vesting_timestamps' =
                 IF left = <<>> THEN <<>>
                 ELSE SubSeq(vesting_timestamps, used + 1, Len(vesting_timestamps))

\* execute_initiate_withdraw_unlocked, the books' part.
WithdrawUnlocked(requested) ==
    /\ CollectVested(requested)
    /\ withdrawn_unlocked' = withdrawn_unlocked + requested
    /\ UNCHANGED <<total_amount, withdrawn_locked>>

\* execute_internal_withdraw_locked, the books' part.
FaultWithdrawLocked ==
    /\ withdrawn_locked' = withdrawn_locked + Total(vesting_amounts)
    /\ UNCHANGED <<vesting_timestamps, vesting_amounts, total_amount, withdrawn_unlocked>>
WithdrawLocked ==
    /\ vesting_amounts' = <<>>
    /\ vesting_timestamps' = <<>>
    /\ withdrawn_locked' = withdrawn_locked + Total(vesting_amounts)
    /\ UNCHANGED <<total_amount, withdrawn_unlocked>>
-----------------------------------------------------------------------------
\* As instantiate leaves it: nothing unlocks before the block that accepts it.
VestingInit ==
    \E s \in Schedules :
        /\ vesting_timestamps = s[1]
        /\ vesting_amounts = s[2]
        /\ now \in 0..s[1][1]
        /\ now <= MaxTime
        /\ total_amount = Total(s[2])
        /\ withdrawn_unlocked = 0
        /\ withdrawn_locked = 0

Tick ==
    /\ now < MaxTime
    /\ now' = now + 1

VestingNext ==
    \/ \E requested \in Requests : WithdrawUnlocked(requested) /\ UNCHANGED now
    \/ WithdrawLocked /\ UNCHANGED now
    \/ Tick /\ UNCHANGED books

VestingSpec == VestingInit /\ [][VestingNext]_vestingVars
-----------------------------------------------------------------------------
\* The schedule stays one that could have been accepted: both lists of one length,
\* no entry of nothing, times increasing.
VestingTypeOK ==
    /\ vesting_timestamps \in Seq(Nat)
    /\ vesting_amounts \in Seq(Nat \ {0})
    /\ Len(vesting_timestamps) = Len(vesting_amounts)
    /\ \A i, j \in DOMAIN vesting_timestamps :
          i < j => vesting_timestamps[i] < vesting_timestamps[j]
    /\ total_amount \in Nat /\ withdrawn_unlocked \in Nat /\ withdrawn_locked \in Nat
    /\ now \in 0..MaxTime

\* Every coin of the plan is accounted for once: withdrawn as vested, withdrawn by
\* emergency, or still in the schedule (the three are written by different handlers
\* and never read together by the code).
Conservation ==
    total_amount = withdrawn_unlocked + withdrawn_locked + Total(vesting_amounts)

\* TotalVested, the amount "ready for withdraw", is the most collect_vested grants,
\* and it grants anything up to it: two loops over the schedule, one answer.
ListedIsWithdrawable ==
    \A requested \in Requests :
        CollectSucceeds(requested) <=> requested <= TotalVestedAmount

QuoteStep ==
    LET paid == withdrawn_unlocked' - withdrawn_unlocked
    IN  withdrawn_locked' = withdrawn_locked =>
            /\ TotalVestedAmount' >= TotalVestedAmount - paid
            /\ now' = now => TotalVestedAmount' = TotalVestedAmount - paid

\* What TotalVested has answered stays good: however many blocks pass and whatever is
\* withdrawn before the reader of the answer acts on it, he can withdraw all that others
\* have not, unless an emergency withdrawal comes first.
QuoteStaysGood == [][QuoteStep]_vestingVars

\* The schedule coin by coin: entry i stands for amounts[i] coins of its time.
Coins(timestamps, amounts) ==
    [c \in 1..Total(amounts) |->
        timestamps[Min({i \in DOMAIN amounts : c <= SumOf(amounts)[i]})]]

Queue == INSTANCE UnlockQueue WITH
    Queues   <- {Coins(s[1], s[2]) : s \in Schedules},
    Quantity <- Requests,
    coins    <- Coins(vesting_timestamps, vesting_amounts),
    taken    <- withdrawn_unlocked,
    seized   <- withdrawn_locked,
    time     <- now

\* collect_vested, with its partly used first entry and its two parallel lists, takes
\* exactly the requested coins, from the earliest, all of them unlocked, and leaves
\* every other coin and its time alone.
ImplementsUnlockQueue == Queue!Spec
=============================================================================
