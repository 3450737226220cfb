--------------------------- MODULE MigrationProofs ---------------------------
(***************************************************************************)
(* Theorems about upgrades (Migration), for any set of builds, any plans   *)
(* the contracts started from and withdrawals before and after: once the   *)
(* repair is made, or passed over, the schedule is only ever used up, and  *)
(* a repair made before the first withdrawal leaves a sound contract.      *)
(***************************************************************************)
EXTENDS Migration, VestingProofs

(***************************************************************************)
(* Versions.                                                               *)
(***************************************************************************)

LEMMA OlderUnfolded ==
    ASSUME NEW v \in Nat \X Nat \X Nat, NEW w \in Nat \X Nat \X Nat
    PROVE  Older(v, w) <=> \/ v[1] < w[1]
                           \/ v[1] = w[1] /\ v[2] < w[2]
                           \/ v[1] = w[1] /\ v[2] = w[2] /\ v[3] < w[3]
<1>1. 1..(1 - 1) = {} /\ 1..(2 - 1) = {1} /\ 1..(3 - 1) = {1, 2} /\ 1..3 = {1, 2, 3}
  OBVIOUS
<1>. QED
  BY <1>1 DEF Older

\* From version 0.1.5 on, no upgrade leads to 0.1.5.
LEMMA PastTheRepair ==
    ASSUME NEW v \in Nat \X Nat \X Nat, NEW w \in Nat \X Nat \X Nat,
           ~ Older(v, FixVersion), Older(v, w)
    PROVE  w # FixVersion /\ ~ Older(w, FixVersion)
<1>1. FixVersion \in Nat \X Nat \X Nat
  BY DEF FixVersion
<1>2. /\ v[1] \in Nat /\ v[2] \in Nat /\ v[3] \in Nat
      /\ w[1] \in Nat /\ w[2] \in Nat /\ w[3] \in Nat
      /\ FixVersion[1] = 0 /\ FixVersion[2] = 1 /\ FixVersion[3] = 5
  BY DEF FixVersion
<1>. QED
  BY <1>1, <1>2, OlderUnfolded

LEMMA FixIsNotOlder == ~ Older(FixVersion, FixVersion)
<1>1. FixVersion \in Nat \X Nat \X Nat
  BY DEF FixVersion
<1>2. FixVersion[1] \in Nat /\ FixVersion[2] \in Nat /\ FixVersion[3] \in Nat
  BY DEF FixVersion
<1>. QED
  BY <1>1, <1>2, OlderUnfolded

(***************************************************************************)
(* Suffixes.                                                               *)
(***************************************************************************)

LEMMA SuffixFrom ==
    ASSUME NEW q \in Seq(Nat), NEW k \in 0..Len(q), NEW r \in [1..(Len(q) - k) -> Nat],
           \A n \in 1..(Len(q) - k) : r[n] = q[k + n]
    PROVE  IsSuffix(r, q)
<1>. DEFINE L == Len(q)
            M == L - k
            rr == Reverse(r)
            rq == Reverse(q)
<1>1. L \in Nat /\ k \in 0..L /\ M \in 0..L /\ q \in [1..L -> Nat]
  OBVIOUS
<1>2. r \in Seq(Nat) /\ Len(r) = M
  <2>1. M \in Nat
    BY <1>1
  <2>. QED
    BY <2>1, FunctionIsSequence, Zenon
<1>3. rr = [i \in 1..M |-> r[(M - i) + 1]] /\ rq = [i \in 1..L |-> q[(L - i) + 1]]
  BY <1>2 DEF Reverse
<1>. HIDE DEF rr, rq
<1>4. rr \in [1..M -> Nat] /\ rq \in [1..L -> Nat]
  <2>1. \A i \in 1..M : (M - i) + 1 \in 1..M
    BY <1>1
  <2>2. \A i \in 1..L : (L - i) + 1 \in 1..L
    BY <1>1
  <2>3. \A i \in 1..M : r[i] \in Nat
    OBVIOUS
  <2>. HIDE DEF M, L
  <2>. QED
    BY <1>1, <1>3, <2>1, <2>2, <2>3
<1>5. \A i \in 1..M : rr[i] = rq[i]
  <2>. SUFFICES ASSUME NEW i \in 1..M PROVE rr[i] = rq[i]
    OBVIOUS
  <2>1. (M - i) + 1 \in 1..(Len(q) - k) /\ k + ((M - i) + 1) = (L - i) + 1 /\ i \in 1..L
    BY <1>1
  <2>. QED
    BY <1>3, <2>1
<1>. HIDE DEF L, M
<1>6. rr \in Seq(Nat) /\ Len(rr) = M /\ rq \in Seq(Nat) /\ Len(rq) = L
  BY <1>1, <1>4, FunctionIsSequence
<1>7. SubSeq(rr, 1, M) = SubSeq(rq, 1, M)
  <2>1. SubSeq(rr, 1, M) = [i \in 1..M |-> rr[i]]
    BY <1>1, <1>6
  <2>2. SubSeq(rq, 1, M) = [i \in 1..M |-> rq[i]]
    BY <1>1, <1>6
  <2>. QED
    BY <1>5, <2>1, <2>2
<1>. QED
  BY <1>1, <1>6, <1>7 DEF IsSuffix, IsPrefix, rr, rq
-----------------------------------------------------------------------------
(***************************************************************************)
(* Withdrawals of nothing.                                                 *)
(***************************************************************************)

\* Amounts that add up to nothing are none: no entry is of nothing.
LEMMA NothingSummed ==
    ASSUME ListsOK, NEW k \in 0..Len(vesting_amounts), SumOf(vesting_amounts)[k] = 0
    PROVE  k = 0
<1>. DEFINE S == SumOf(vesting_amounts)
            L == Len(vesting_amounts)
<1>1. L \in Nat /\ PartialSums(S, vesting_amounts, L) /\ S[k] = 0
  BY ListsSummed
<1>2. SUFFICES ASSUME k # 0 PROVE FALSE
  OBVIOUS
<1>3. k \in 1..L
  BY <1>2
<1>4. vesting_amounts[k] \in Nat \ {0}
  BY <1>3 DEF ListsOK
<1>. HIDE DEF S, L
<1>5. S[k] = S[k - 1] + vesting_amounts[k] /\ S[k - 1] \in Nat
  <2>1. k - 1 \in 0..L
    BY <1>1, <1>3
  <2>. QED
    BY <1>1, <1>3, <2>1 DEF PartialSums
<1>. QED
  BY <1>1, <1>4, <1>5

LEMMA CollectNothing ==
    ASSUME ListsOK, CollectVested(0)
    PROVE  Len(vesting_amounts') = Len(vesting_amounts)
<1>. DEFINE used == UsedUp(0)
<1>1. /\ used \in 0..Cardinality(Visited) /\ AmountToSubtract(0) \in Nat
      /\ SumOf(vesting_amounts)[used] + AmountToSubtract(0) = 0
  BY Covered DEF CollectVested
<1>2. used \in 0..Len(vesting_amounts) /\ Len(vesting_amounts) \in Nat
  BY <1>1, ListsVisited, ListsSummed
<1>3. SumOf(vesting_amounts)[used] \in Nat
  BY <1>2, ListsSummed DEF PartialSums
<1>4. Len(vesting_amounts') = Len(vesting_amounts) - used
  BY CollectShiftsSums
<1>. HIDE DEF used
<1>5. used = 0
  BY <1>1, <1>2, <1>3, NothingSummed
<1>. QED
  BY <1>2, <1>4, <1>5

\* What a withdrawal does to the lists of any contract.
LEMMA CollectKeepsLists ==
    ASSUME ListsOK, NEW requested \in Nat, CollectVested(requested)
    PROVE  /\ ListsOK'
           /\ IsSuffix(vesting_timestamps', vesting_timestamps)
           /\ Total(vesting_amounts') = Total(vesting_amounts) - requested
<1>. DEFINE used == UsedUp(requested)
            L == Len(vesting_amounts)
            M == Len(vesting_timestamps)
<1>1. /\ used \in 0..L /\ used \in 0..M
      /\ vesting_amounts' \in [1..(L - used) -> Nat \ {0}]
      /\ IF used = L
         THEN vesting_timestamps' = <<>>
         ELSE /\ vesting_timestamps' \in [1..(M - used) -> Nat]
              /\ \A n \in 1..(M - used) : vesting_timestamps'[n] = vesting_timestamps[used + n]
  BY WhatListsKeep
<1>2. L \in Nat /\ M \in Nat /\ vesting_timestamps \in Seq(Nat)
  BY ListsSummed DEF ListsOK
<1>. HIDE DEF used
<1>3. vesting_amounts' \in Seq(Nat \ {0})
  <2>1. L - used \in Nat
    BY <1>1, <1>2
  <2>. QED
    BY <1>1, <2>1, FunctionIsSequence, Zenon
<1>4. vesting_timestamps' \in Seq(Nat) /\ IsSuffix(vesting_timestamps', vesting_timestamps)
  <2>1. CASE used = L
    <3>1. vesting_timestamps' = <<>>
      BY <1>1, <2>1
    <3>2. /\ M \in 0..M /\ <<>> \in [1..(M - M) -> Nat] /\ <<>> \in Seq(Nat)
          /\ 1..(M - M) = {}
      BY <1>2
    <3>3. IsSuffix(<<>>, vesting_timestamps)
      BY <1>2, <3>2, SuffixFrom
    <3>. QED
      BY <3>1, <3>2, <3>3
  <2>2. CASE used # L
    <3>1. /\ vesting_timestamps' \in [1..(M - used) -> Nat]
          /\ \A n \in 1..(M - used) : vesting_timestamps'[n] = vesting_timestamps[used + n]
      BY <1>1, <2>2
    <3>2. M - used \in Nat
      BY <1>1, <1>2
    <3>3. vesting_timestamps' \in Seq(Nat)
      BY <3>1, <3>2, FunctionIsSequence, Zenon
    <3>. QED
      BY <1>1, <1>2, <3>1, <3>3, SuffixFrom
  <2>. QED
    BY <2>1, <2>2
<1>. QED
  BY <1>3, <1>4, CollectTakesRequested DEF ListsOK

LEMMA EmptyIsSuffix ==
    ASSUME NEW q \in Seq(Nat)
    PROVE  IsSuffix(<<>>, q) /\ IsSuffix(q, q)
<1>1. /\ Len(q) \in Nat /\ q \in [1..Len(q) -> Nat]
      /\ Len(q) \in 0..Len(q) /\ 0 \in 0..Len(q)
      /\ 1..(Len(q) - Len(q)) = {} /\ Len(q) - 0 = Len(q)
      /\ \A n \in 1..Len(q) : 0 + n = n
  OBVIOUS
<1>2. <<>> \in [1..(Len(q) - Len(q)) -> Nat]
  BY <1>1
<1>3. IsSuffix(<<>>, q)
  BY <1>1, <1>2, SuffixFrom
<1>4. /\ q \in [1..(Len(q) - 0) -> Nat]
      /\ \A n \in 1..(Len(q) - 0) : q[n] = q[0 + n]
  BY <1>1
<1>5. IsSuffix(q, q)
  BY <1>1, <1>4, SuffixFrom
<1>. QED
  BY <1>3, <1>5
-----------------------------------------------------------------------------
(***************************************************************************)
(* The invariant.                                                          *)
(***************************************************************************)

\* Inductive: the books balance but for what a late repair has brought back; until the
\* repair, while nothing is withdrawn, the lists are as it expects them; afterwards the
\* version shows that it was made.
MigrationInv ==
    /\ MigrationTypeOK
    /\ address \in {Retimed, Rewritten, Other}
    /\ LateRepairAccounted
    /\ withdrawn_at_fix = 0 \/ address = Other => ScheduleOK
    /\ withdrawn_at_fix # NotFixed => ~ Older(cw2.version, FixVersion)
    /\ address = Rewritten => total_amount = Total(RewrittenAmounts)
    /\ address = Retimed /\ withdrawn_at_fix = NotFixed /\ withdrawn_unlocked + withdrawn_locked = 0
          => Len(vesting_amounts) = Len(RetimedTimestamps)

LEMMA MigrationInitially == MigrationInit => MigrationInv
<1>. SUFFICES ASSUME MigrationInit PROVE MigrationInv
  OBVIOUS
<1>1. PICK plan \in Deployed[address] :
         /\ vesting_timestamps = plan[1]
         /\ vesting_amounts = plan[2]
         /\ total_amount = Total(plan[2])
  BY DEF MigrationInit
<1>2. /\ address \in {Retimed, Rewritten, Other}
      /\ cw2 \in [contract : {ContractName, OtherName}, version : Builds]
      /\ withdrawn_unlocked = 0 /\ withdrawn_locked = 0 /\ withdrawn_at_fix = NotFixed
  BY DEF MigrationInit
<1>3. plan[1] \in Seq(Nat) /\ plan[2] \in Seq(Nat \ {0})
  BY <1>1, <1>2, MigrationAssumption, Zenon
<1>4. /\ address = Retimed => Len(plan[2]) = Len(RetimedTimestamps)
      /\ address = Rewritten => Total(plan[2]) = Total(RewrittenAmounts)
      /\ address = Other => Len(plan[1]) = Len(plan[2]) /\ Increasing(plan[1])
  BY <1>1, MigrationAssumption, Zenon
<1>5. plan[2] \in Seq(Nat) /\ Total(plan[2]) \in Nat
  BY <1>3, SumIsNat
<1>6. MigrationTypeOK
  BY <1>1, <1>2, <1>3, <1>5 DEF MigrationTypeOK
<1>7. LateRepairAccounted
  BY <1>1, <1>2, <1>5 DEF LateRepairAccounted, BroughtBack
<1>8. address = Other => ScheduleOK
  BY <1>1, <1>3, <1>4 DEF ScheduleOK, Increasing
<1>9. withdrawn_at_fix # 0
  BY <1>2 DEF NotFixed
<1>. QED
  BY <1>1, <1>2, <1>4, <1>6, <1>7, <1>8, <1>9 DEF MigrationInv

LEMMA InvTypes ==
    ASSUME MigrationInv
    PROVE  /\ ListsOK /\ Total(vesting_amounts) \in Nat /\ Total(vesting_amounts) >= 0
           /\ total_amount \in Nat /\ withdrawn_unlocked \in Nat /\ withdrawn_locked \in Nat
           /\ withdrawn_at_fix \in Nat \cup {NotFixed} /\ NotFixed = -1
           /\ cw2 \in [contract : {ContractName, OtherName}, version : Builds]
           /\ cw2.version \in Nat \X Nat \X Nat
<1>1. MigrationTypeOK
  BY DEF MigrationInv
<1>2. /\ vesting_timestamps \in Seq(Nat) /\ vesting_amounts \in Seq(Nat \ {0})
      /\ cw2 \in [contract : {ContractName, OtherName}, version : Builds]
  BY <1>1 DEF MigrationTypeOK
<1>3. vesting_amounts \in Seq(Nat)
  BY <1>2
<1>4. Total(vesting_amounts) \in Nat
  BY <1>3, SumIsNat
<1>5. cw2.version \in Nat \X Nat \X Nat
  BY <1>2, MigrationAssumption
<1>. QED
  BY <1>1, <1>2, <1>4, <1>5 DEF MigrationTypeOK, ListsOK, NotFixed

\* Nothing but the lists, the counters and the history is in the rest of the invariant.
LEMMA UntouchedInv ==
    ASSUME MigrationInv, UNCHANGED <<books, address, withdrawn_at_fix>>,
           cw2' \in [contract : {ContractName, OtherName}, version : Builds],
           withdrawn_at_fix # NotFixed => ~ Older(cw2'.version, FixVersion)
    PROVE  MigrationInv'
<1>1. /\ UNCHANGED vesting_timestamps /\ UNCHANGED vesting_amounts /\ UNCHANGED total_amount
      /\ UNCHANGED withdrawn_unlocked /\ UNCHANGED withdrawn_locked
      /\ UNCHANGED address /\ UNCHANGED withdrawn_at_fix
  BY DEF books
<1>2. MigrationTypeOK'
  BY <1>1 DEF MigrationInv, MigrationTypeOK
<1>3. UNCHANGED LateRepairAccounted /\ UNCHANGED ScheduleOK
  BY <1>1 DEF LateRepairAccounted, BroughtBack, ScheduleOK
<1>. QED
  BY <1>1, <1>2, <1>3 DEF MigrationInv

LEMMA RepairKeepsInv ==
    ASSUME MigrationInv, Older(cw2.version, FixVersion), Migrate105Handler,
           cw2' = [contract |-> ContractName, version |-> FixVersion],
           FixVersion \in Builds, UNCHANGED address
    PROVE  MigrationInv'
<1>1. /\ total_amount' = total_amount /\ withdrawn_unlocked' = withdrawn_unlocked
      /\ withdrawn_locked' = withdrawn_locked
      /\ withdrawn_at_fix' = withdrawn_unlocked + withdrawn_locked
      /\ withdrawn_at_fix = NotFixed
  BY DEF Migrate105Handler, MigrationInv
<1>2. /\ withdrawn_at_fix' \in Nat /\ withdrawn_at_fix' # NotFixed
      /\ withdrawn_at_fix' = 0 => withdrawn_unlocked = 0 /\ withdrawn_locked = 0
      /\ Total(vesting_amounts) + withdrawn_unlocked + withdrawn_locked = total_amount
  BY <1>1, InvTypes DEF MigrationInv, LateRepairAccounted, BroughtBack
<1>3. /\ cw2' \in [contract : {ContractName, OtherName}, version : Builds]
      /\ ~ Older(cw2'.version, FixVersion)
  BY FixIsNotOlder
<1>4. Retimed # Rewritten /\ Other # Retimed /\ Other # Rewritten
  BY MigrationAssumption
<1>5. CASE address = Retimed
  <2>1. vesting_timestamps' = RetimedTimestamps /\ vesting_amounts' = vesting_amounts
    BY <1>4, <1>5 DEF Migrate105Handler
  <2>2. RetimedTimestamps \in Seq(Nat) /\ Increasing(RetimedTimestamps)
    BY MigrationAssumption
  <2>3. vesting_amounts \in Seq(Nat \ {0})
    BY InvTypes DEF ListsOK
  <2>4. MigrationTypeOK'
    BY <1>1, <1>2, <1>3, <2>1, <2>2, <2>3, InvTypes DEF MigrationTypeOK
  <2>5. LateRepairAccounted'
    BY <1>1, <1>2, <1>4, <1>5, <2>1, InvTypes DEF LateRepairAccounted, BroughtBack
  <2>6. withdrawn_at_fix' = 0 => ScheduleOK'
    <3>1. withdrawn_at_fix' = 0 => Len(vesting_amounts) = Len(RetimedTimestamps)
      BY <1>1, <1>2, <1>5 DEF MigrationInv
    <3>. QED
      BY <2>1, <2>2, <2>3, <3>1 DEF ScheduleOK, Increasing
  <2>. QED
    BY <1>1, <1>2, <1>3, <1>4, <1>5, <2>4, <2>5, <2>6 DEF MigrationInv
<1>6. CASE address = Rewritten
  <2>1. vesting_timestamps' = RewrittenTimestamps /\ vesting_amounts' = RewrittenAmounts
    BY <1>4, <1>6 DEF Migrate105Handler, RepairedAmounts
  <2>2. /\ RewrittenTimestamps \in Seq(Nat) /\ Increasing(RewrittenTimestamps)
        /\ RewrittenAmounts \in Seq(Nat \ {0})
        /\ Len(RewrittenTimestamps) = Len(RewrittenAmounts)
    BY MigrationAssumption
  <2>3. Total(RewrittenAmounts) \in Nat
    <3>1. RewrittenAmounts \in Seq(Nat)
      BY <2>2
    <3>. QED
      BY <3>1, SumIsNat
  <2>4. MigrationTypeOK'
    BY <1>1, <1>2, <1>3, <2>1, <2>2, InvTypes DEF MigrationTypeOK
  <2>5. LateRepairAccounted'
    <3>1. total_amount = Total(RewrittenAmounts)
      BY <1>6 DEF MigrationInv
    <3>2. BroughtBack' = withdrawn_unlocked + withdrawn_locked
      BY <1>1, <1>2, <1>6 DEF BroughtBack
    <3>. QED
      BY <1>1, <2>1, <2>3, <3>1, <3>2, InvTypes DEF LateRepairAccounted
  <2>6. ScheduleOK'
    BY <2>1, <2>2 DEF ScheduleOK, Increasing
  <2>. QED
    BY <1>1, <1>2, <1>3, <1>4, <1>6, <2>4, <2>5, <2>6 DEF MigrationInv
<1>7. CASE address \notin {Retimed, Rewritten}
  <2>1. vesting_timestamps' = vesting_timestamps /\ vesting_amounts' = vesting_amounts
    BY <1>7 DEF Migrate105Handler
  <2>2. ScheduleOK /\ address = Other
    BY <1>7 DEF MigrationInv
  <2>3. MigrationTypeOK'
    BY <1>1, <1>2, <1>3, <2>1, InvTypes DEF MigrationTypeOK, ListsOK
  <2>4. LateRepairAccounted' /\ ScheduleOK'
    BY <1>1, <1>2, <1>7, <2>1, <2>2, InvTypes DEF LateRepairAccounted, BroughtBack, ScheduleOK
  <2>. QED
    BY <1>2, <1>3, <1>7, <2>2, <2>3, <2>4 DEF MigrationInv
<1>. QED
  BY <1>5, <1>6, <1>7

LEMMA MigrateKeepsInv ==
    ASSUME MigrationInv, NEW build \in Builds, Migrate(build)
    PROVE  MigrationInv'
<1>1. /\ Older(cw2.version, build) /\ cw2' = [contract |-> ContractName, version |-> build]
      /\ UNCHANGED address
  BY DEF Migrate, ValidateMigration
<1>2. cw2' \in [contract : {ContractName, OtherName}, version : Builds] /\ cw2'.version = build
  BY <1>1
<1>3. build \in Nat \X Nat \X Nat
  BY MigrationAssumption
<1>4. CASE build = FixVersion
  <2>1. Migrate105Handler
    BY <1>4 DEF Migrate, FixVersion
  <2>. QED
    BY <1>1, <1>4, <2>1, RepairKeepsInv
<1>5. CASE build # FixVersion
  <2>1. UNCHANGED <<books, withdrawn_at_fix>>
    BY <1>5 DEF Migrate, Migrate109Handler
  <2>2. withdrawn_at_fix # NotFixed => ~ Older(cw2'.version, FixVersion)
    BY <1>1, <1>2, <1>3, InvTypes, PastTheRepair DEF MigrationInv
  <2>3. UNCHANGED <<books, address, withdrawn_at_fix>>
    BY <1>1, <2>1
  <2>. QED
    BY <1>2, <2>2, <2>3, UntouchedInv
<1>. QED
  BY <1>4, <1>5

LEMMA UnlockedKeepsInv ==
    ASSUME MigrationInv, NEW requested \in Requests, WithdrawUnlocked(requested),
           UNCHANGED <<address, cw2, withdrawn_at_fix>>
    PROVE  MigrationInv'
<1>1. /\ requested \in Nat /\ CollectVested(requested)
      /\ withdrawn_unlocked' = withdrawn_unlocked + requested
      /\ total_amount' = total_amount /\ withdrawn_locked' = withdrawn_locked
  BY VestingAssumption DEF WithdrawUnlocked
<1>2. ListsOK' /\ Total(vesting_amounts') = Total(vesting_amounts) - requested
  BY <1>1, InvTypes, CollectKeepsLists
<1>3. MigrationTypeOK'
  <2>1. withdrawn_unlocked' \in Nat
    BY <1>1, InvTypes
  <2>2. total_amount' \in Nat /\ withdrawn_locked' \in Nat
    BY <1>1, InvTypes
  <2>3. /\ cw2' \in [contract : {ContractName, OtherName}, version : Builds]
        /\ withdrawn_at_fix' \in Nat \cup {NotFixed}
    BY InvTypes
  <2>. QED
    BY <1>2, <2>1, <2>2, <2>3, Zenon DEF MigrationTypeOK, ListsOK
<1>4. LateRepairAccounted'
  <2>1. BroughtBack' = BroughtBack /\ BroughtBack \in Nat
    BY InvTypes DEF BroughtBack
  <2>2. Total(vesting_amounts) + withdrawn_unlocked + withdrawn_locked = total_amount + BroughtBack
    BY DEF MigrationInv, LateRepairAccounted
  <2>. QED
    BY <1>1, <1>2, <2>1, <2>2, InvTypes DEF LateRepairAccounted
<1>5. ScheduleOK => ScheduleOK'
  BY <1>1, CollectKeepsSchedule
<1>6. withdrawn_unlocked' + withdrawn_locked' = 0 =>
        /\ withdrawn_unlocked + withdrawn_locked = 0
        /\ Len(vesting_amounts') = Len(vesting_amounts)
  <2>. SUFFICES ASSUME withdrawn_unlocked' + withdrawn_locked' = 0
                PROVE  /\ withdrawn_unlocked + withdrawn_locked = 0
                       /\ Len(vesting_amounts') = Len(vesting_amounts)
    OBVIOUS
  <2>1. withdrawn_unlocked + withdrawn_locked = 0 /\ requested = 0
    BY <1>1, InvTypes
  <2>. QED
    BY <1>1, <2>1, InvTypes, CollectNothing
<1>7. UNCHANGED address /\ UNCHANGED cw2 /\ UNCHANGED withdrawn_at_fix
  OBVIOUS
<1>. QED
  BY <1>1, <1>3, <1>4, <1>5, <1>6, <1>7, Zenon DEF MigrationInv

LEMMA LockedKeepsInv ==
    ASSUME MigrationInv, WithdrawLocked, UNCHANGED <<address, cw2, withdrawn_at_fix>>
    PROVE  MigrationInv'
<1>1. /\ vesting_amounts' = <<>> /\ vesting_timestamps' = <<>>
      /\ withdrawn_locked' = withdrawn_locked + Total(vesting_amounts)
      /\ total_amount' = total_amount /\ withdrawn_unlocked' = withdrawn_unlocked
  BY DEF WithdrawLocked
<1>2. Total(vesting_amounts') = 0
  <2>1. <<>> \in Seq(Nat)
    OBVIOUS
  <2>. QED
    BY <1>1, <2>1, SumIsNat
<1>3. MigrationTypeOK'
  BY <1>1, InvTypes DEF MigrationTypeOK
<1>4. LateRepairAccounted'
  <2>1. BroughtBack' = BroughtBack /\ BroughtBack \in Nat
    BY InvTypes DEF BroughtBack
  <2>2. Total(vesting_amounts) + withdrawn_unlocked + withdrawn_locked = total_amount + BroughtBack
    BY DEF MigrationInv, LateRepairAccounted
  <2>. QED
    BY <1>1, <1>2, <2>1, <2>2, InvTypes DEF LateRepairAccounted
<1>5. ScheduleOK'
  BY <1>1 DEF ScheduleOK
<1>6. withdrawn_unlocked' + withdrawn_locked' = 0 =>
        /\ withdrawn_unlocked + withdrawn_locked = 0
        /\ Len(vesting_amounts') = Len(vesting_amounts)
  <2>. SUFFICES ASSUME withdrawn_unlocked' + withdrawn_locked' = 0
                PROVE  /\ withdrawn_unlocked + withdrawn_locked = 0
                       /\ Len(vesting_amounts') = Len(vesting_amounts)
    OBVIOUS
  <2>1. withdrawn_unlocked + withdrawn_locked = 0 /\ Total(vesting_amounts) = 0
    BY <1>1, InvTypes
  <2>2. SumOf(vesting_amounts)[Len(vesting_amounts)] = 0
    BY <2>1 DEF Total
  <2>3. Len(vesting_amounts) \in 0..Len(vesting_amounts)
    BY InvTypes, ListsSummed
  <2>4. Len(vesting_amounts) = 0
    BY <2>2, <2>3, InvTypes, NothingSummed
  <2>. QED
    BY <1>1, <2>1, <2>4
<1>7. UNCHANGED address /\ UNCHANGED cw2 /\ UNCHANGED withdrawn_at_fix
  OBVIOUS
<1>. QED
  BY <1>1, <1>3, <1>4, <1>5, <1>6, <1>7, Zenon DEF MigrationInv

LEMMA MigrationStepInv == MigrationInv /\ [MigrationNext]_migrationVars => MigrationInv'
<1>. SUFFICES ASSUME MigrationInv, [MigrationNext]_migrationVars
              PROVE  MigrationInv'
  OBVIOUS
<1>1. ASSUME NEW build \in Builds, Migrate(build)
      PROVE  MigrationInv'
  BY <1>1, MigrateKeepsInv
<1>2. CASE Withdrawal
  <2>1. UNCHANGED <<address, cw2, withdrawn_at_fix>>
    BY <1>2 DEF Withdrawal
  <2>2. ASSUME NEW requested \in Requests, WithdrawUnlocked(requested)
        PROVE  MigrationInv'
    BY <2>1, <2>2, UnlockedKeepsInv
  <2>3. CASE WithdrawLocked
    BY <2>1, <2>3, LockedKeepsInv
  <2>. QED
    BY <1>2, <2>2, <2>3 DEF Withdrawal
<1>3. ASSUME UNCHANGED <<books, address, withdrawn_at_fix>>, cw2' = cw2
      PROVE  MigrationInv'
  <2>1. /\ cw2' \in [contract : {ContractName, OtherName}, version : Builds]
        /\ withdrawn_at_fix # NotFixed => ~ Older(cw2'.version, FixVersion)
    BY <1>3, InvTypes DEF MigrationInv
  <2>. QED
    BY <1>3, <2>1, UntouchedInv
<1>4. CASE Tick /\ UNCHANGED <<books, address, cw2, withdrawn_at_fix>>
  BY <1>3, <1>4
<1>5. CASE UNCHANGED migrationVars
  <2>1. UNCHANGED <<books, address, withdrawn_at_fix>> /\ cw2' = cw2
    BY <1>5, Zenon DEF migrationVars, vestingVars
  <2>. QED
    BY <1>3, <2>1
<1>. QED
  BY <1>1, <1>2, <1>4, <1>5 DEF MigrationNext

LEMMA MigrationInvariant == MigrationSpec => []MigrationInv
BY MigrationInitially, MigrationStepInv, PTL DEF MigrationSpec
-----------------------------------------------------------------------------
(***************************************************************************)
(* What upgrades never do.                                                 *)
(***************************************************************************)

\* The lists and counters of a contract stay lists of numbers and numbers, whichever
\* builds it runs and whatever its lists were.
THEOREM MigrationIsTyped == MigrationSpec => []MigrationTypeOK
<1>1. MigrationInv => MigrationTypeOK
  BY DEF MigrationInv
<1>. QED
  BY <1>1, MigrationInvariant, PTL

\* A repair made before anything is withdrawn leaves a sound schedule, for good; a contract
\* no repair is meant for has one all along.
THEOREM RepairedSoundly == MigrationSpec => []RepairedInTime
<1>1. ASSUME MigrationInv, withdrawn_at_fix = 0 \/ address = Other
      PROVE  Sound
  <2>1. ScheduleOK
    BY <1>1 DEF MigrationInv
  <2>2. BroughtBack = 0
    BY <1>1, MigrationAssumption DEF BroughtBack
  <2>3. Conservation
    BY <1>1, <2>2, InvTypes DEF MigrationInv, LateRepairAccounted, Conservation
  <2>. QED
    BY <2>1, <2>3 DEF ScheduleOK, Sound, Increasing
<1>2. MigrationInv => RepairedInTime
  BY <1>1 DEF RepairedInTime
<1>. QED
  BY <1>2, MigrationInvariant, PTL

\* However late the repair is made, it brings back the coins withdrawn before it, to the one
\* contract whose amounts it writes, and never a coin more, whatever is withdrawn after it.
THEOREM LateRepairCost == MigrationSpec => []LateRepairAccounted
<1>1. MigrationInv => LateRepairAccounted
  BY DEF MigrationInv
<1>. QED
  BY <1>1, MigrationInvariant, PTL

LEMMA StepsAreFinal == MigrationInv /\ [MigrationNext]_migrationVars => ScheduleStep
<1>. SUFFICES ASSUME MigrationInv, [MigrationNext]_migrationVars, ~ Older(cw2.version, FixVersion)
              PROVE  /\ IsSuffix(vesting_timestamps', vesting_timestamps)
                     /\ Total(vesting_amounts') <= Total(vesting_amounts)
  BY DEF ScheduleStep
<1>. DEFINE Goal == /\ IsSuffix(vesting_timestamps', vesting_timestamps)
                   /\ Total(vesting_amounts') <= Total(vesting_amounts)
<1>1. ListsOK /\ vesting_timestamps \in Seq(Nat) /\ Total(vesting_amounts) \in Nat
  BY InvTypes DEF ListsOK
<1>2. ASSUME UNCHANGED books
      PROVE  Goal
  <2>1. vesting_timestamps' = vesting_timestamps /\ vesting_amounts' = vesting_amounts
    BY <1>2 DEF books
  <2>. QED
    BY <1>1, <2>1, EmptyIsSuffix
<1>3. ASSUME NEW build \in Builds, Migrate(build)
      PROVE  Goal
  <2>1. build \in Nat \X Nat \X Nat
    BY MigrationAssumption
  <2>2. build # FixVersion
    BY <1>3, <2>1, InvTypes, PastTheRepair DEF Migrate, ValidateMigration
  <2>3. UNCHANGED books
    BY <1>3, <2>2 DEF Migrate, Migrate109Handler
  <2>. QED
    BY <1>2, <2>3
<1>4. ASSUME NEW requested \in Requests, WithdrawUnlocked(requested)
      PROVE  Goal
  <2>1. requested \in Nat /\ CollectVested(requested)
    BY <1>4, VestingAssumption DEF WithdrawUnlocked
  <2>. QED
    BY <1>1, <2>1, CollectKeepsLists
<1>5. CASE WithdrawLocked
  <2>1. vesting_amounts' = <<>> /\ vesting_timestamps' = <<>>
    BY <1>5 DEF WithdrawLocked
  <2>2. <<>> \in Seq(Nat)
    OBVIOUS
  <2>3. Total(vesting_amounts') = 0
    BY <2>1, <2>2, SumIsNat
  <2>. QED
    BY <1>1, <2>1, <2>3, EmptyIsSuffix
<1>6. CASE UNCHANGED migrationVars
  BY <1>2, <1>6, Zenon DEF migrationVars, vestingVars
<1>7. CASE Tick /\ UNCHANGED <<books, address, cw2, withdrawn_at_fix>>
  BY <1>2, <1>7
<1>8. CASE Withdrawal
  <2>1. \/ \E requested \in Requests : WithdrawUnlocked(requested)
        \/ WithdrawLocked
    BY <1>8, Zenon DEF Withdrawal
  <2>. QED
    BY <1>4, <1>5, <2>1, Zenon
<1>. QED
  BY <1>3, <1>6, <1>7, <1>8, Zenon DEF MigrationNext

\* From version 0.1.5 on, no upgrade adds to the schedule or moves a time: the repair is
\* made at most once, whatever builds are offered in whatever order.
THEOREM RepairedOnce == MigrationSpec => RepairIsFinal
BY MigrationInvariant, StepsAreFinal, PTL DEF MigrationSpec, RepairIsFinal
=============================================================================
