---------------------------- MODULE MCMigration ----------------------------
(***************************************************************************)
(* Instances of Migration for TLC: plans of two entries; the one to be     *)
(* retimed had a time too few or unordered times, the one to be rewritten  *)
(* its amounts in one entry.  A patch number of two digits tells the order *)
(* of versions from that of their text.                                    *)
(***************************************************************************)
EXTENDS Migration

CONSTANTS name, name2, retimed, rewritten, other

MCBuilds == {<<0, 1, 4>>, <<0, 1, 5>>, <<0, 1, 9>>, <<0, 1, 10>>}
MCRetimedTimestamps == <<1, 3>>
MCRewrittenTimestamps == <<2, 3>>
MCRewrittenAmounts == <<2, 2>>
MCDeployed ==
    [a \in {retimed, rewritten, other} |->
        CASE a = retimed   -> {<< <<1>>, <<1, 2>> >>, << <<2, 1>>, <<2, 1>> >>}
          [] a = rewritten -> {<< <<1, 2>>, <<4>> >>, << <<1, 2>>, <<1, 3>> >>}
          [] a = other     -> {<< <<1, 2>>, <<2, 1>> >>}]
MCDeployedSchedules == MCDeployed[other]
MCRequests == 0..4
=============================================================================
