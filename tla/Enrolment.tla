----------------------------- MODULE Enrolment -----------------------------
(***************************************************************************)
(* What ClaimsService promises of the enrolment of subjects to roles: the  *)
(* terms of a claim are fixed when it is recorded for the first time, and  *)
(* stay the same until it is deleted; a claim is requested, accepted and   *)
(* registered only for a subject who has already been accepted for all     *)
(* roles that the role requires; and nobody loses a role that he has been  *)
(* accepted or registered for.                                             *)
(*                                                                         *)
(* ClaimEnrolment implements this specification (see ClaimEnrolment!       *)
(* ImplementsEnrolment).  Each step here is one step of a shared ledger;   *)
(* there it is several awaits of a client, with those of others in between.*)
(***************************************************************************)
CONSTANTS
    Ids, Subjects, Roles,
    Requires,           \* the roles that each role requires
    NoClaim,            \* what is recorded under an id that no claim has
    Nobody

VARIABLES
    ledger,             \* the claims that are recorded, by id
    enrolled,           \* the roles that subjects have been accepted for
    onChain             \* the roles that subjects are registered for

vars == <<ledger, enrolled, onChain>>

(* Who is to have which role, how it is registered, who asked for it, and  *)
(* who agreed to its registration.  A claim also has who accepted it and   *)
(* how that is proved, which may be done again.                            *)
Terms == {"subject", "role", "types", "requester", "agreement"}

Recorded(i) == ledger[i] # NoClaim

Qualified(subject, role) == \A q \in Requires[role] : <<subject, q>> \in enrolled

Init ==
    /\ \A i \in Ids : ~Recorded(i)
    /\ enrolled = {}
    /\ onChain = {}

OnlyChanges(i) == ledger' = [ledger EXCEPT ![i] = ledger'[i]]

(* A claim for the chain comes with the agreement of its requester.        *)
Request(i) ==
    /\ ~Recorded(i) /\ Recorded(i)' /\ ~ledger'[i].isAccepted
    /\ OnlyChanges(i)
    /\ LET k == ledger'[i] IN
          /\ k.agreement = IF "OnChain" \in k.types THEN k.requester ELSE Nobody
          /\ Qualified(k.subject, k.role)
    /\ UNCHANGED <<enrolled, onChain>>

Enrol(i) ==
    LET k == ledger'[i] IN
    /\ Qualified(k.subject, k.role)
    /\ enrolled' = enrolled \cup {<<k.subject, k.role>>}

(* Accepting a claim changes none of its terms.                            *)
Accept(i) ==
    /\ Recorded(i) /\ Recorded(i)' /\ ledger'[i].isAccepted
    /\ OnlyChanges(i)
    /\ \A t \in Terms : ledger'[i][t] = ledger[i][t]
    /\ Enrol(i)
    /\ UNCHANGED onChain

(* A claim that nobody has requested, or that was deleted while it was     *)
(* issued, is recorded as accepted, without an agreement.                  *)
Grant(i) ==
    /\ ~Recorded(i) /\ Recorded(i)' /\ ledger'[i].isAccepted
    /\ OnlyChanges(i)
    /\ ledger'[i].agreement = Nobody
    /\ Enrol(i)
    /\ UNCHANGED onChain

Delete(i) ==
    /\ Recorded(i) /\ ~Recorded(i)'
    /\ OnlyChanges(i)
    /\ UNCHANGED <<enrolled, onChain>>

Register(subject, role) ==
    /\ onChain' = onChain \cup {<<subject, role>>}
    /\ Qualified(subject, role)
    /\ UNCHANGED <<ledger, enrolled>>

(* What leaves the ledger, or the registry on chain, as it is, is no step. *)
Next ==
    \/ ledger' # ledger /\ \E i \in Ids : Request(i) \/ Accept(i) \/ Grant(i) \/ Delete(i)
    \/ onChain' # onChain /\ \E s \in Subjects, r \in Roles : Register(s, r)

Spec == Init /\ [][Next]_vars
=============================================================================
