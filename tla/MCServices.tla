----------------------------- MODULE MCServices -----------------------------
(***************************************************************************)
(* StakingPools, ClaimPublication, Messaging and ResolverMigration for     *)
(* TLC, in one run.  No two of them change the same state but for the      *)
(* account, which each reads and none but SignerService writes, so that a  *)
(* behaviour of one is the same whatever the others do: each behaviour     *)
(* here is one of one of them, with the others at rest.                    *)
(***************************************************************************)
EXTENDS StakingPools, ClaimPublication, Messaging, ResolverMigration

CONSTANTS alice, bob, heatPump

VARIABLE service                        \* which of them the behaviour is of

serviceVars == <<service, call, balance, stakes, launched, time, publicationVars,
                 messagingVars, migrationVars>>

Init ==
    /\ service \in {"staking", "publication", "messaging", "migration"}
    /\ StakingInit
    /\ PublicationInit
    /\ MessagingInit
    /\ MigrationInit

AccountsRest == UNCHANGED account
StakingRests == UNCHANGED <<call, balance, stakes, launched, time>>
PublicationRests == UNCHANGED <<assetsOwner, registryDid, publication, documentVars, assetVars>>
MessagingRests == UNCHANGED messagingVars
MigrationRests == UNCHANGED migrationVars

Staking(A) ==
    /\ service = "staking" /\ A
    /\ PublicationRests /\ MessagingRests /\ MigrationRests /\ UNCHANGED service

Publication(A) ==
    /\ service = "publication" /\ A
    /\ StakingRests /\ MessagingRests /\ MigrationRests /\ UNCHANGED service

Messages(A) ==
    /\ service = "messaging" /\ A
    /\ StakingRests /\ PublicationRests /\ MigrationRests /\ UNCHANGED <<service, account>>

Migration(A) ==
    /\ service = "migration" /\ A
    /\ StakingRests /\ PublicationRests /\ MessagingRests /\ UNCHANGED <<service, account>>

Next ==
    \/ Staking(StakingNext)
    \/ Publication(PublicationNext)
    \/ Messages(MessagingNext)
    \/ Migration(MigrationNext)

(* The timer of a connection runs out.                                     *)
FairSpec ==
    /\ Init /\ [][Next]_serviceVars
    /\ \A k \in Connections : WF_serviceVars(Messages(ConnectTimedOut(k)))

----------------------------------------------------------------------------
Once == {<<alice, bob>>}                \* the account changes once

Claim(profile, type, version) == [profile |-> profile, type |-> type, version |-> version]

Profile == Claim(TRUE, Nobody, Nobody)
Role == Claim(FALSE, "role", 1)

Token(data, sub) == [claimData |-> data, sub |-> sub]

SomeData == {Profile, Role}

(* For the account of the moment, for a certain account, for an asset.     *)
SomeTokens == {Token(Profile, Nobody), Token(Role, alice), Token(Role, heatPump)}

Tree == [n \in {"org", "app", "role"} |->
            CASE n = "org" -> {"app"} [] n = "app" -> {"role"} [] OTHER -> {}]

OwnersOfTree == [n \in {"org", "app", "role"} |-> IF n = "org" THEN alice ELSE bob]
=============================================================================
