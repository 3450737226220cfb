------------------------------ MODULE Multisig ------------------------------
(***************************************************************************)
(* What the admin multisig promises, without clock, tally or storage: a    *)
(* motion collects distinct backers, is carried exactly when they are the  *)
(* demanded share of the members it was put to, may lapse while it is      *)
(* still open, and takes effect at most once, at a member's request, after *)
(* it was carried.  Membership changes in no other way.                    *)
(***************************************************************************)
EXTENDS FiniteSets, Integers

CONSTANTS
    Person,
    Content,        \* what motions ask for
    Quotas,         \* percentages of the members
    MotionId

VARIABLES members, motions

vars == <<members, motions>>

\* The members a motion's content adds and removes.
CONSTANTS Joins(_), Leaves(_)

Init ==
    /\ members \in (SUBSET Person) \ {{}}
    /\ motions = [i \in {} |-> {}]

Carried(backers, size, quota) == 100 * Cardinality(backers) >= size * quota

PhaseOf(motion, otherwise) ==
    IF Carried(motion.backers, motion.size, motion.quota) THEN "Passed" ELSE otherwise

\* A motion made with no time left to back it may lapse as it is made.
Move(p, i, content, quota) ==
    /\ p \in members
    /\ i \notin DOMAIN motions
    /\ \E otherwise \in {"Open", "Rejected"} :
          LET motion == [content |-> content, backers |-> {p}, quota |-> quota,
                         size |-> Cardinality(members), phase |-> "Open"]
          IN  motions' = [j \in DOMAIN motions \cup {i} |->
                             IF j = i THEN [motion EXCEPT !.phase = PhaseOf(motion, otherwise)]
                                      ELSE motions[j]]
    /\ UNCHANGED members

Back(p, i) ==
    /\ motions[i].phase = "Open"
    /\ p \in members \ motions[i].backers
    /\ LET motion == [motions[i] EXCEPT !.backers = @ \cup {p}]
       IN  motions' = [motions EXCEPT ![i] = [motion EXCEPT !.phase = PhaseOf(motion, "Open")]]
    /\ UNCHANGED members

Lapse ==
    /\ \E lapsed \in (SUBSET {i \in DOMAIN motions : motions[i].phase = "Open"}) \ {{}} :
          motions' = [i \in DOMAIN motions |->
                         IF i \in lapsed THEN [motions[i] EXCEPT !.phase = "Rejected"]
                                         ELSE motions[i]]
    /\ UNCHANGED members

Execute(p, i) ==
    /\ p \in members
    /\ motions[i].phase = "Passed"
    /\ motions' = [motions EXCEPT ![i].phase = "Executed"]
    /\ members' = (members \ Leaves(motions[i].content)) \cup Joins(motions[i].content)

Next ==
    \/ \E p \in Person :
          \/ \E i \in MotionId, content \in Content, quota \in Quotas :
                Move(p, i, content, quota)
          \/ \E i \in DOMAIN motions : Back(p, i) \/ Execute(p, i)
    \/ Lapse

Spec == Init /\ [][Next]_vars
=============================================================================
