-------------------------- MODULE MCClaimEnrolment --------------------------
(***************************************************************************)
(* Instances of ClaimEnrolment for TLC: a role, and one that requires it.  *)
(***************************************************************************)
EXTENDS ClaimEnrolment, TLC

CONSTANTS c1, c2, alice, bob, heatPump

(* The heat pump is an asset of alice's.                                   *)
AliceForAll == [s \in Subjects |-> {alice}]

(* One client stays with the subject's account; that of another changes.   *)
AccountsOfTwo == (c1 :> {alice}) @@ (c2 :> {alice, bob})

AccountsOfOne == (c1 :> {alice, bob})

Ladder == [r \in {"member", "admin"} |-> IF r = "admin" THEN {"member"} ELSE {}]

ChainForAdmin == [r \in {"member", "admin"} |->
    IF r = "admin" THEN {{"OffChain", "OnChain"}} ELSE {{"OffChain"}}]

(* Ids have no names.                                                      *)
Symmetry == Permutations(Ids)
=============================================================================
