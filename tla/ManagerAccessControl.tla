------------------------ MODULE ManagerAccessControl ------------------------
(***************************************************************************)
(* Who may administer a contract: its owner, the administrators of its     *)
(* roles and its managers.  One contract on each network.                  *)
(*                                                                         *)
(* The contract inherits grantRole, revokeRole, renounceRole and           *)
(* renounceOwnership; nothing in the repository calls them from outside.   *)
(***************************************************************************)
EXTENDS Integers, FiniteSets

CONSTANTS
    Networks,  \* one contract on each
    Accounts,  \* who may own a contract, manage it or provide liquidity
    Admin,     \* ADMIN_KEY, which deploys the contracts
    Manager,   \* manager_key of the configuration
    Heirs      \* whom transferOwnership may name

ASSUME People == {Admin, Manager} \cup Heirs \subseteq Accounts

VARIABLES
    owner,    \* Ownable: the owner
    admins,   \* members of DEFAULT_ADMIN_ROLE
    managers  \* members of MANAGER_ROLE

roles == <<owner, admins, managers>>

RolesInit ==
    /\ owner = [n \in Networks |-> Admin]
    /\ admins = [n \in Networks |-> {Admin}]
    /\ managers = [n \in Networks |-> {}]

(* The owner calls, and must also administer the manager role.             *)
AddManager(n, a) ==
    /\ owner[n] \in admins[n]
    /\ managers' = [managers EXCEPT ![n] = @ \cup {a}]
    /\ UNCHANGED <<owner, admins>>

RemoveManager(n, a) ==
    /\ owner[n] \in admins[n]
    /\ managers' = [managers EXCEPT ![n] = @ \ {a}]
    /\ UNCHANGED <<owner, admins>>

(* The old owner loses his role before the new one gets it.                *)
Handed_GrantFirst(n, a) == (admins[n] \cup {a}) \ {owner[n]}
Handed(n, a) == (admins[n] \ {owner[n]}) \cup {a}
TransferOwnership(n, a) ==
    /\ owner' = [owner EXCEPT ![n] = a]
    /\ admins' = [admins EXCEPT ![n] = Handed(n, a)]
    /\ UNCHANGED managers
=============================================================================
