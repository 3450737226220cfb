----------------------------- MODULE Permission -----------------------------
(***************************************************************************)
(* The two roles of the contract (permission.rs; the ADMINS and OPS maps   *)
(* of state.rs).  Operators run the day-to-day treasury; admins vote on    *)
(* proposals, and any single admin appoints or dismisses operators.        *)
(***************************************************************************)
EXTENDS FiniteSets

CONSTANTS
    Address,        \* every address a message may name
    Self,           \* env.contract.address
    OpCandidate     \* bound: the addresses ever named as operators

ASSUME PermissionAssumption ==
    /\ IsFiniteSet(Address)
    /\ Self \in Address
    /\ OpCandidate \subseteq Address

VARIABLES
    admins,         \* the keys of ADMINS
    ops             \* the keys of OPS

\* A transaction is signed by a key; the contract has none.
Sender == Address \ {Self}

\* What Instantiate stores: both lists non-empty, duplicates collapse in the map.
PermissionInit ==
    /\ admins \in (SUBSET Sender) \ {{}}
    /\ ops \in (SUBSET OpCandidate) \ {{}}

\* get_number_of_admins.
NumberOfAdmins == Cardinality(admins)

AuthorizeOp(caller) == caller \in ops
AuthorizeAdmin(caller) == caller \in admins
AuthorizeSelfCall(caller) == caller = Self

ExecuteUpdateOp(sender, op, remove) ==
    /\ AuthorizeAdmin(sender)
    /\ ops' = IF remove THEN ops \ {op} ELSE ops \cup {op}
    /\ UNCHANGED admins
=============================================================================
