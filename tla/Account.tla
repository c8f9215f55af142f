------------------------------ MODULE Account ------------------------------
(***************************************************************************)
(* What a service sees of SignerService (modules/signer/signer.service.ts):*)
(* an account, which may change whenever one of its operations waits.      *)
(***************************************************************************)
CONSTANTS
    Calls,              \* operations of a service that may be under way at the same time
    Accounts,           \* accounts of the user
    FirstAccount,
    Moves,              \* changes from one account to another: bounds them
    Nobody              \* undefined

ASSUME AccountNames ==
    FirstAccount \in Accounts /\ Nobody \notin Accounts /\ Moves \subseteq Accounts \X Accounts

VARIABLE account

AccountInit == account = FirstAccount

ChangeAccount == \E a \in Accounts : <<account, a>> \in Moves /\ account' = a
=============================================================================
