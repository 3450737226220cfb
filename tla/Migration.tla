----------------------------- MODULE Migration -----------------------------
(***************************************************************************)
(* Upgrades of a deployed contract (contract.rs).  The chain calls migrate *)
(* of the build it is given; the build refuses contracts of another kind   *)
(* and versions that are not older than its own.  The build of version     *)
(* 0.1.5 repairs the schedules of two contracts that were instantiated     *)
(* with bad input.  Withdrawals, by whatever build is running, come before *)
(* and after.                                                              *)
(***************************************************************************)
EXTENDS Vesting, SequencesExt

CONSTANTS
    Builds,             \* bound: the versions <<major, minor, patch>> ever built
    ContractName,       \* CONTRACT_NAME
    OtherName,          \* what a contract of another kind has stored
    Retimed, Rewritten, \* the addresses migrate_105_handler looks for
    Other,              \* any other address
    RetimedTimestamps,  \* the lists written in migrate_105_handler
    RewrittenTimestamps,
    RewrittenAmounts,
    Deployed            \* the <<timestamps, amounts>> each address started from

FixVersion == <<0, 1, 5>>

Increasing(timestamps) ==
    \A i, j \in DOMAIN timestamps : i < j => timestamps[i] < timestamps[j]

\* What the authors of the repair knew of the contracts concerned: the plan of the one had
\* as many amounts as the new times, the other's amounted to what the new amounts do.  The
\* new times increase, as those of any contract that needs no repair.
ASSUME MigrationAssumption ==
    /\ Builds \subseteq Nat \X Nat \X Nat
    /\ ContractName # OtherName
    /\ Retimed # Rewritten /\ Other \notin {Retimed, Rewritten}
    /\ \A timestamps \in {RetimedTimestamps, RewrittenTimestamps} :
          timestamps \in Seq(Nat) /\ Increasing(timestamps)
    /\ RewrittenAmounts \in Seq(Nat \ {0})
    /\ Len(RewrittenTimestamps) = Len(RewrittenAmounts)
    /\ \A a \in {Retimed, Rewritten, Other} : \A plan \in Deployed[a] :
          plan[1] \in Seq(Nat) /\ plan[2] \in Seq(Nat \ {0})
    /\ \A plan \in Deployed[Retimed] : Len(plan[2]) = Len(RetimedTimestamps)
    /\ \A plan \in Deployed[Rewritten] : Total(plan[2]) = Total(RewrittenAmounts)
    /\ \A plan \in Deployed[Other] : Len(plan[1]) = Len(plan[2]) /\ Increasing(plan[1])

VARIABLES
    address,            \* env.contract.address
    cw2,                \* the contract name and version kept by the cw2 library
    withdrawn_at_fix    \* history: what was withdrawn when a repair was made

migrationVars == <<vestingVars, address, cw2, withdrawn_at_fix>>

NotFixed == -1
-----------------------------------------------------------------------------
\* The order of semver: by numbers, the leftmost that differs.
Older(v, w) ==
    \E i \in 1..3 : v[i] < w[i] /\ \A j \in 1..(i - 1) : v[j] = w[j]

FaultValidateMigration(build) == cw2.contract = ContractName /\ ~Older(build, cw2.version)
ValidateMigration(build) == cw2.contract = ContractName /\ Older(cw2.version, build)

FaultRepairedAmounts == vesting_amounts
RepairedAmounts == RewrittenAmounts

Migrate105Handler ==
    /\ \/ /\ address = Retimed
          /\ vesting_timestamps' = RetimedTimestamps
          /\ UNCHANGED vesting_amounts
       \/ /\ address = Rewritten
          /\ vesting_timestamps' = RewrittenTimestamps
          /\ vesting_amounts' = RepairedAmounts
       \/ /\ address \notin {Retimed, Rewritten}
          /\ UNCHANGED <<vesting_timestamps, vesting_amounts>>
    /\ withdrawn_at_fix' = withdrawn_unlocked + withdrawn_locked
    /\ UNCHANGED <<total_amount, withdrawn_unlocked, withdrawn_locked>>

Migrate109Handler == UNCHANGED <<books, withdrawn_at_fix>>

Migrate(build) ==
    /\ ValidateMigration(build)
    /\ cw2' = [contract |-> ContractName, version |-> build]
    /\ \/ build = FixVersion /\ Migrate105Handler
       \/ build = <<0, 1, 9>> /\ Migrate109Handler
       \/ build \notin {FixVersion, <<0, 1, 9>>} /\ UNCHANGED <<books, withdrawn_at_fix>>
    /\ UNCHANGED <<now, address>>
-----------------------------------------------------------------------------
\* A contract of an older build, or of any build when no repair is meant for it.
MigrationInit ==
    /\ address \in {Retimed, Rewritten, Other}
    /\ cw2 \in [contract : {ContractName, OtherName}, version : Builds]
    /\ address = Other \/ Older(cw2.version, FixVersion)
    /\ \E plan \in Deployed[address] :
          /\ vesting_timestamps = plan[1]
          /\ vesting_amounts = plan[2]
          /\ total_amount = Total(plan[2])
    /\ withdrawn_unlocked = 0 /\ withdrawn_locked = 0
    /\ now = 0
    /\ withdrawn_at_fix = NotFixed

Withdrawal ==
    /\ cw2.contract = ContractName
    /\ (\E requested \in Requests : WithdrawUnlocked(requested)) \/ WithdrawLocked
    /\ UNCHANGED <<now, address, cw2, withdrawn_at_fix>>

MigrationNext ==
    \/ \E build \in Builds : Migrate(build)
    \/ Withdrawal
    \/ Tick /\ UNCHANGED <<books, address, cw2, withdrawn_at_fix>>

MigrationSpec == MigrationInit /\ [][MigrationNext]_migrationVars
-----------------------------------------------------------------------------
MigrationTypeOK ==
    /\ vesting_timestamps \in Seq(Nat)
    /\ vesting_amounts \in Seq(Nat \ {0})
    /\ total_amount \in Nat /\ withdrawn_unlocked \in Nat /\ withdrawn_locked \in Nat
    /\ cw2 \in [contract : {ContractName, OtherName}, version : Builds]
    /\ withdrawn_at_fix \in Nat \cup {NotFixed}

ScheduleStep ==
    ~Older(cw2.version, FixVersion) =>
        /\ IsSuffix(vesting_timestamps', vesting_timestamps)
        /\ Total(vesting_amounts') <= Total(vesting_amounts)

\* The repair is made at most once, by the upgrade to 0.1.5 and by no later one, whatever
\* builds are tried in whatever order: from that version on no coin comes back into the
\* schedule and no time changes.  (So a contract that skips 0.1.5 is never repaired.)
RepairIsFinal == [][ScheduleStep]_migrationVars

Sound ==
    /\ Len(vesting_timestamps) = Len(vesting_amounts)
    /\ Increasing(vesting_timestamps)
    /\ Conservation

\* A repair made before anything is withdrawn leaves a schedule that could have been
\* accepted and that accounts for every coin of the plan, for good; the contracts it is
\* not meant for have one all along.  (Made later it brings back the entries already used
\* up: the handler looks neither at the counters nor at what is left of the lists.)
RepairedInTime == withdrawn_at_fix = 0 \/ address = Other => Sound

BroughtBack ==
    IF address = Rewritten /\ withdrawn_at_fix # NotFixed THEN withdrawn_at_fix ELSE 0

\* What a late repair costs: the contract whose amounts it writes has from then on promised
\* exactly the coins withdrawn before it once more, whatever it has paid since, also by
\* a second emergency withdrawal; no other contract ever promises more than its plan.
LateRepairAccounted ==
    Total(vesting_amounts) + withdrawn_unlocked + withdrawn_locked = total_amount + BroughtBack
=============================================================================
