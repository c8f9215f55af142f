--------------------------- MODULE ClaimEnrolment ---------------------------
(***************************************************************************)
(* Enrolment of subjects to roles: ClaimsService                           *)
(* (modules/claims/claims.service.ts).  A subject requests a claim, an     *)
(* issuer signs it, for use off chain, on chain or both, registers it with *)
(* the claim manager contract if asked to, and records it in the cache     *)
(* server.                                                                 *)
(*                                                                         *)
(* Each operation awaits the wallet, the cache server and the chain in     *)
(* turn, any of which may fail; an action is the code between two awaits,  *)
(* and awaits with nothing read or sent between them count as one.         *)
(* Operations of several clients interleave, and the account of a client   *)
(* may change while one of its operations waits.  The cache server and the *)
(* contract are external.  Signatures are named by the account that signs. *)
(* rejectClaimRequest is left out: the mark it sets is for the user only.  *)
(***************************************************************************)
EXTENDS FiniteSets

CONSTANTS
    Clients,            \* instances of the library, with one operation each at a time
    Accounts,           \* accounts, and their DIDs
    AccountsOf,         \* the accounts that each client's user switches between
    Subjects,           \* who is enrolled, accounts and assets: bounds them
    MayAgree,           \* who may agree for each: the account itself, an asset's owner
    Nobody,             \* undefined
    Roles,
    Requires,           \* enrolment preconditions: the roles that each role requires
    Kinds,              \* the registration types that each role is requested for: bounds them
    Ids                 \* ids of claims: bounds how many there can be

Types == (SUBSET {"OffChain", "OnChain"}) \ {{}}

ASSUME NobodyAssumption == Nobody \notin Accounts \cup Subjects \cup Roles \cup Ids
ASSUME MayAgreeAssumption == MayAgree \in [Subjects -> SUBSET Accounts]
ASSUME AccountsOfAssumption == AccountsOf \in [Clients -> SUBSET Accounts]
ASSUME RequiresAssumption == Requires \in [Roles -> SUBSET Roles]
ASSUME KindsAssumption == Kinds \in [Roles -> SUBSET Types]

VARIABLES
    account,            \* the account of each client's SignerService
    op,                 \* the operation each client has under way
    claims,             \* cache server: the claims, by id
    onChain,            \* claim manager: the roles that subjects hold
    enrolled,           \* the roles that subjects have ever been accepted for (history)
    unrecorded          \* registered by an issuer that then failed to record it (history)

vars == <<account, op, claims, onChain, enrolled, unrecorded>>

(* What an operation has in its local variables: the message it builds,    *)
(* and in `registrar` the acceptedBy that it calls the contract with.      *)
(* `changed`: the account changed since acceptedBy was set (history).      *)
Idle == [at |-> "idle", id |-> Nobody, subject |-> Nobody, role |-> Nobody,
         types |-> {}, requester |-> Nobody, agreement |-> Nobody,
         publishOnChain |-> FALSE, acceptedBy |-> Nobody, proof |-> Nobody,
         registrar |-> Nobody, changed |-> FALSE]

NoClaim == [subject |-> Nobody, role |-> Nobody, types |-> {}, requester |-> Nobody,
            agreement |-> Nobody, isAccepted |-> FALSE, acceptedBy |-> Nobody,
            onChainProof |-> Nobody, changed |-> FALSE]

Busy(c) == op[c].at # "idle"

Known(i) == claims[i] # NoClaim

(* v4(): an id that nothing knows                                          *)
Fresh(i) == ~Known(i) /\ \A c \in Clients : op[c].id # i

Init ==
    /\ account \in [Clients -> Accounts] /\ \A c \in Clients : account[c] \in AccountsOf[c]
    /\ op = [c \in Clients |-> Idle]
    /\ claims = [i \in Ids |-> NoClaim]
    /\ onChain = {}
    /\ enrolled = {}
    /\ unrecorded = {}

Go(c, o) == op' = [op EXCEPT ![c] = o]

(* The operation goes on to its next await, with nothing recorded yet.     *)
Await(c, o) == Go(c, o) /\ UNCHANGED <<account, claims, onChain, enrolled, unrecorded>>

----------------------------------------------------------------------------
(* verifyEnrolmentPrerequisites: the roles that the cache server has       *)
(* accepted the subject for, when it is asked.                             *)

ClaimsOf(subject) == {claims[i] : i \in {j \in Ids : claims[j].subject = subject}}

enroledRoles(subject) == {k.role : k \in {l \in ClaimsOf(subject) : l.isAccepted}}

prerequisitesRequested(o) ==            \* mutant: does not ask for isAccepted
    Requires[o.role] \subseteq {k.role : k \in ClaimsOf(o.subject)}

prerequisitesMet(o) == Requires[o.role] \subseteq enroledRoles(o.subject)

----------------------------------------------------------------------------
(* createClaimRequest: the token is signed and the prerequisites checked,  *)
(* the agreement is signed if the claim is for the chain, and the request  *)
(* is posted.                                                              *)

createClaimRequest(c, subject, role, types) ==
    /\ ~Busy(c)
    /\ \E i \in Ids :
          /\ Fresh(i)
          /\ Await(c, [Idle EXCEPT !.at = "checkingRequest", !.id = i, !.subject = subject,
                                   !.role = role, !.types = types])

RequestUnchecked(c) ==                  \* mutant: the prerequisites are not asked for
    /\ op[c].at = "checkingRequest"
    /\ Await(c, [op[c] EXCEPT !.at = "postingRequest", !.requester = account[c],
                    !.agreement = IF "OnChain" \in op[c].types THEN account[c] ELSE Nobody])

(* The requester, and the signer of the agreement, are of that moment.     *)
RequestAllowed(c) ==
    /\ op[c].at = "checkingRequest"
    /\ prerequisitesMet(op[c])
    /\ Await(c, [op[c] EXCEPT !.at = "postingRequest", !.requester = account[c],
                    !.agreement = IF "OnChain" \in op[c].types THEN account[c] ELSE Nobody])

requestClaim(c) ==
    /\ op[c].at = "postingRequest"
    /\ claims' = [claims EXCEPT ![op[c].id] =
                     [NoClaim EXCEPT !.subject = op[c].subject, !.role = op[c].role,
                                     !.types = op[c].types, !.requester = op[c].requester,
                                     !.agreement = op[c].agreement]]
    /\ Go(c, Idle)
    /\ UNCHANGED <<account, onChain, enrolled, unrecorded>>

----------------------------------------------------------------------------
(* issueClaimRequest, called with a claim that the cache server returned,  *)
(* and issueClaim, which is for a subject that has not asked.              *)

issueClaimRequest(c, i, publishOnChain) ==
    /\ ~Busy(c)
    /\ Known(i)
    /\ Await(c, [Idle EXCEPT !.at = "checkingIssue", !.id = i,
                    !.subject = claims[i].subject, !.role = claims[i].role,
                    !.types = claims[i].types, !.requester = claims[i].requester,
                    !.agreement = claims[i].agreement,
                    !.publishOnChain = publishOnChain /\ "OnChain" \in claims[i].types])

issueClaimWithoutType(c, subject, role) ==      \* mutant: an issue of neither kind
    /\ ~Busy(c)
    /\ \E i \in Ids :
          /\ Fresh(i)
          /\ Await(c, [Idle EXCEPT !.at = "checkingIssue", !.id = i, !.subject = subject,
                                   !.role = role, !.requester = subject])

issueClaim(c, subject, role) ==
    /\ ~Busy(c)
    /\ \E i \in Ids :
          /\ Fresh(i)
          /\ Await(c, [Idle EXCEPT !.at = "checkingIssue", !.id = i, !.subject = subject,
                                   !.role = role, !.types = {"OffChain"},
                                   !.requester = subject])

IssueAllowedToRequester(c) ==           \* mutant: accepted by whoever requested it
    /\ op[c].at = "checkingIssue"
    /\ prerequisitesMet(op[c])
    /\ Await(c, IF "OffChain" \in op[c].types
                THEN [op[c] EXCEPT !.at = "signingToken", !.acceptedBy = op[c].requester]
                ELSE [op[c] EXCEPT !.at = "signingProof", !.acceptedBy = op[c].requester,
                                   !.proof = account[c]])

(* The message is given acceptedBy now; the proof for the chain is for the *)
(* account of the moment it is signed, after the token if there is one.    *)
IssueAllowed(c) ==
    /\ op[c].at = "checkingIssue"
    /\ prerequisitesMet(op[c])
    /\ Await(c, IF "OffChain" \in op[c].types
                THEN [op[c] EXCEPT !.at = "signingToken", !.acceptedBy = account[c]]
                ELSE [op[c] EXCEPT !.at = "signingProof", !.acceptedBy = account[c],
                                   !.proof = account[c]])

TokenSigned(c) ==
    /\ op[c].at = "signingToken"
    /\ Await(c, IF "OnChain" \in op[c].types
                THEN [op[c] EXCEPT !.at = "signingProof", !.proof = account[c]]
                ELSE [op[c] EXCEPT !.at = "postingIssue"])

(* The contract is called with the account of this moment as acceptedBy.   *)
ProofSigned(c) ==
    /\ op[c].at = "signingProof"
    /\ Await(c, IF op[c].publishOnChain
                THEN [op[c] EXCEPT !.at = "registering", !.registrar = account[c]]
                ELSE [op[c] EXCEPT !.at = "postingIssue"])

(* The message names the claim; a claim that the cache server does not     *)
(* know, or no longer knows, is created from what the message holds.       *)
Recorded(o) ==
    [(IF Known(o.id) THEN claims[o.id]
      ELSE [NoClaim EXCEPT !.subject = o.subject, !.role = o.role,
                           !.types = o.types, !.requester = o.requester])
        EXCEPT !.isAccepted = TRUE,
               !.acceptedBy = o.acceptedBy,
               !.onChainProof = IF o.proof = Nobody THEN @ ELSE o.proof,
               !.changed = o.changed]

postIssue(c) ==
    /\ op[c].at = "postingIssue"
    /\ claims' = [claims EXCEPT ![op[c].id] = Recorded(op[c])]
    /\ enrolled' = enrolled \cup {<<op[c].subject, op[c].role>>}
    /\ Go(c, Idle)
    /\ UNCHANGED <<account, onChain, unrecorded>>

----------------------------------------------------------------------------
(* registerOnchain, with a claim of the cache server or as a part of       *)
(* issueClaimRequest, and what the contract makes of it.                   *)

readyToBeRegisteredOnchain(k) ==
    /\ k.agreement # Nobody
    /\ k.onChainProof # Nobody
    /\ k.acceptedBy # Nobody

registerOnchain(c, i) ==
    /\ ~Busy(c)
    /\ readyToBeRegisteredOnchain(claims[i])
    /\ Await(c, [Idle EXCEPT !.at = "registeringOnly",
                    !.subject = claims[i].subject, !.role = claims[i].role,
                    !.types = claims[i].types, !.agreement = claims[i].agreement,
                    !.proof = claims[i].onChainProof, !.registrar = claims[i].acceptedBy])

Registering(c) == op[c].at \in {"registering", "registeringOnly"}

(* The agreement is of the subject, or of the owner of the asset that it   *)
(* is, and the issuer has signed the proof.                                *)
Verified(subject, agreement, proof, issuer) ==
    agreement \in MayAgree[subject] /\ proof = issuer

Accepts(o) == Verified(o.subject, o.agreement, o.proof, o.registrar)

Held(c) == <<op[c].subject, op[c].role>>

RegisteredAndDone(c) ==                 \* mutant: returns once it is on chain
    /\ Registering(c)
    /\ Accepts(op[c])
    /\ onChain' = onChain \cup {Held(c)}
    /\ Go(c, Idle)
    /\ UNCHANGED <<account, claims, enrolled, unrecorded>>

Registered(c) ==
    /\ Registering(c)
    /\ Accepts(op[c])
    /\ onChain' = onChain \cup {Held(c)}
    /\ Go(c, IF op[c].at = "registering" THEN [op[c] EXCEPT !.at = "postingIssue"] ELSE Idle)
    /\ UNCHANGED <<account, claims, enrolled, unrecorded>>

(* It is registered, but send() throws.                                    *)
RegisteredUnanswered(c) ==
    /\ Registering(c)
    /\ Accepts(op[c])
    /\ onChain' = onChain \cup {Held(c)}
    /\ unrecorded' = IF op[c].at = "registering" THEN unrecorded \cup {Held(c)} ELSE unrecorded
    /\ Go(c, Idle)
    /\ UNCHANGED <<account, claims, enrolled>>

----------------------------------------------------------------------------

(* A prerequisite is missing, the user refuses, the server or the network  *)
(* fails, the contract reverts, or the program ends.                       *)
Fail(c) ==
    /\ Busy(c)
    /\ unrecorded' = IF op[c].at = "postingIssue" /\ op[c].registrar # Nobody
                     THEN unrecorded \cup {Held(c)} ELSE unrecorded
    /\ Go(c, Idle)
    /\ UNCHANGED <<account, claims, onChain, enrolled>>

deleteClaim(i) ==
    /\ Known(i)
    /\ claims' = [claims EXCEPT ![i] = NoClaim]
    /\ UNCHANGED <<account, op, onChain, enrolled, unrecorded>>

(* SignerService takes another account.                                    *)
ChangeAccount(c) ==
    /\ \E a \in AccountsOf[c] \ {account[c]} : account' = [account EXCEPT ![c] = a]
    /\ Go(c, IF op[c].acceptedBy = Nobody THEN op[c] ELSE [op[c] EXCEPT !.changed = TRUE])
    /\ UNCHANGED <<claims, onChain, enrolled, unrecorded>>

RequestStep(c) ==
    \/ \E s \in Subjects, r \in Roles : \E t \in Kinds[r] : createClaimRequest(c, s, r, t)
    \/ RequestAllowed(c) \/ requestClaim(c)

IssueStep(c) ==
    \/ \E i \in Ids, p \in BOOLEAN : issueClaimRequest(c, i, p)
    \/ \E s \in Subjects, r \in Roles : issueClaim(c, s, r)
    \/ IssueAllowed(c) \/ TokenSigned(c) \/ ProofSigned(c) \/ postIssue(c)

RegisterStep(c) ==
    \/ \E i \in Ids : registerOnchain(c, i)
    \/ Registered(c) \/ RegisteredUnanswered(c)

Next ==
    \/ \E c \in Clients :
          RequestStep(c) \/ IssueStep(c) \/ RegisterStep(c) \/ Fail(c) \/ ChangeAccount(c)
    \/ \E i \in Ids : deleteClaim(i)

Spec == Init /\ [][Next]_vars

----------------------------------------------------------------------------
Maybe(S) == S \cup {Nobody}

Operation ==
    [at : {"checkingRequest", "postingRequest", "checkingIssue", "signingToken",
           "signingProof", "registering", "postingIssue", "registeringOnly"},
     id : Maybe(Ids), subject : Subjects, role : Roles, types : Types,
     requester : Maybe(Accounts \cup Subjects), agreement : Maybe(Accounts), publishOnChain : BOOLEAN,
     acceptedBy : Maybe(Accounts), proof : Maybe(Accounts), registrar : Maybe(Accounts),
     changed : BOOLEAN]

Claim ==
    [subject : Subjects, role : Roles, types : Types,
     requester : Maybe(Accounts \cup Subjects), agreement : Maybe(Accounts),
     isAccepted : BOOLEAN, acceptedBy : Maybe(Accounts), onChainProof : Maybe(Accounts),
     changed : BOOLEAN]

(* Every variable has its type: an operation under way and a claim of the  *)
(* cache server have a subject, a role and a registration type, and only   *)
(* registerOnchain has no id of a claim.                                   *)
TypeOK ==
    /\ account \in [Clients -> Accounts]
    /\ op \in [Clients -> Operation \cup {Idle}]
    /\ \A c \in Clients : Busy(c) /\ op[c].at # "registeringOnly" => op[c].id \in Ids
    /\ claims \in [Ids -> Claim \cup {NoClaim}]
    /\ onChain \subseteq Subjects \X Roles
    /\ enrolled \subseteq Subjects \X Roles
    /\ unrecorded \subseteq Subjects \X Roles

(* verifyEnrolmentPrerequisites asks once, awaits before the claim is      *)
(* issued: still nobody has been enrolled to a role, in the cache server   *)
(* or on chain, who was not enrolled before to all that the role requires, *)
(* whoever issued those, and whether they still exist or not.              *)
EnrolledMeetsPrerequisites ==
    \A h \in enrolled \cup onChain : \A q \in Requires[h[2]] : <<h[1], q>> \in enrolled

(* A role on chain has been recorded as accepted in the cache server, or   *)
(* will be by an issueClaimRequest that has just registered it, or one     *)
(* failed between the two.                                                 *)
RegistrationIsExplained ==
    \A h \in onChain :
        \/ h \in enrolled
        \/ h \in unrecorded
        \/ \E c \in Clients : Held(c) = h /\ op[c].at = "postingIssue"

(* What the contract registers was requested by one who may agree for the  *)
(* subject, whatever changes, is deleted or is issued again meanwhile; and *)
(* a claim that is ready and was requested so is refused only if its       *)
(* issuer changed his account while he issued it.                          *)
ReadyClaimRegisters ==
    \A i \in Ids :
        LET k == claims[i]
            accepted == Verified(k.subject, k.agreement, k.onChainProof, k.acceptedBy)
        IN  readyToBeRegisteredOnchain(k) =>
               /\ accepted => k.requester \in MayAgree[k.subject]
               /\ k.requester \in MayAgree[k.subject] /\ ~accepted => k.changed

(* "Issue a claim request by signing both off-chain and on-chain request   *)
(* and persisting result to the cache-server" (claims.service.ts, line     *)
(* 187): what is registered on chain is recorded, or about to be.  It is   *)
(* registered first, so that a failure in between leaves it unrecorded.    *)
RegisteredIsRecorded ==
    \A h \in onChain :
        \/ h \in enrolled
        \/ \E c \in Clients : Held(c) = h /\ op[c].at = "postingIssue"

Contract == INSTANCE Enrolment WITH ledger <- claims

(* Seen from the cache server and the contract, the operations of all      *)
(* clients are steps of Enrolment: a claim that is posted awaits after its *)
(* prerequisites were checked, perhaps deleted in between, neither replaces*)
(* another one nor changes its terms, and has its prerequisites enrolled.  *)
ImplementsEnrolment == Contract!Spec
=============================================================================
