------------------------ MODULE ClaimEnrolmentProofs ------------------------
(***************************************************************************)
(* Theorems of ClaimEnrolment, for any number of clients, accounts, roles  *)
(* and claims.                                                             *)
(***************************************************************************)
EXTENDS ClaimEnrolment, TLAPS

----------------------------------------------------------------------------
(* Types *)

(* An operation under way has the fields of one, and its client an account. *)
LEMMA BusyHasType ==
    ASSUME TypeOK, NEW c \in Clients, Busy(c)
    PROVE  /\ op[c] \in Operation
           /\ op[c].at # "registeringOnly" => op[c].id \in Ids
           /\ account[c] \in Accounts
BY DEF TypeOK, Busy, Idle

(* A claim that is known has the fields of one. *)
LEMMA KnownHasType ==
    ASSUME TypeOK, NEW i \in Ids, Known(i)
    PROVE  claims[i] \in Claim
BY DEF TypeOK, Known

(* What is held is a role of an account. *)
LEMMA HeldHasType ==
    ASSUME TypeOK, NEW c \in Clients, Busy(c)
    PROVE  Held(c) \in Subjects \X Roles
BY BusyHasType DEF Held, Operation

(* An operation may go on to any state that has its type. *)
LEMMA GoHasType ==
    ASSUME TypeOK, NEW c \in Clients, NEW o \in Operation \cup {Idle},
           o.at \notin {"idle", "registeringOnly"} => o.id \in Ids,
           Go(c, o)
    PROVE  /\ op' \in [Clients -> Operation \cup {Idle}]
           /\ (\A d \in Clients : Busy(d) /\ op[d].at # "registeringOnly" => op[d].id \in Ids)'
BY DEF TypeOK, Go, Busy

LEMMA AwaitHasType ==
    ASSUME TypeOK, NEW c \in Clients, NEW o \in Operation \cup {Idle},
           o.at \notin {"idle", "registeringOnly"} => o.id \in Ids,
           Await(c, o)
    PROVE  TypeOK'
<1>1. Go(c, o)
  BY DEF Await
<1>2. /\ op' \in [Clients -> Operation \cup {Idle}]
      /\ (\A d \in Clients : Busy(d) /\ op[d].at # "registeringOnly" => op[d].id \in Ids)'
  BY <1>1, GoHasType
<1>3. QED
  BY <1>2 DEF TypeOK, Await

LEMMA InitTypes == Init => TypeOK
BY DEF Init, TypeOK, Busy, Idle

LEMMA RequestTypes ==
    ASSUME TypeOK, NEW c \in Clients, RequestStep(c)
    PROVE  TypeOK'
<1>1. ASSUME NEW s \in Subjects, NEW r \in Roles, NEW t \in Kinds[r],
             createClaimRequest(c, s, r, t)
      PROVE  TypeOK'
  <2> DEFINE o(i) == [Idle EXCEPT !.at = "checkingRequest", !.id = i, !.subject = s,
                                  !.role = r, !.types = t]
  <2>1. PICK i \in Ids : Await(c, o(i))
    BY <1>1 DEF createClaimRequest
  <2>2. t \in Types /\ s \in Subjects
    BY KindsAssumption
  <2>3. o(i) \in Operation /\ o(i).id \in Ids
    BY <2>2 DEF Idle, Operation, Maybe
  <2>4. QED
    BY <2>1, <2>3, AwaitHasType
<1>2. CASE RequestAllowed(c)
  <2> DEFINE o == [op[c] EXCEPT !.at = "postingRequest", !.requester = account[c],
                    !.agreement = IF "OnChain" \in op[c].types THEN account[c] ELSE Nobody]
  <2>1. op[c] \in Operation /\ op[c].id \in Ids /\ account[c] \in Accounts
    BY <1>2, BusyHasType DEF RequestAllowed, Busy
  <2>2. o \in Operation /\ o.id \in Ids
    BY <2>1 DEF Operation, Maybe
  <2>3. QED
    BY <1>2, <2>2, AwaitHasType DEF RequestAllowed
<1>3. CASE requestClaim(c)
  <2> DEFINE k == [NoClaim EXCEPT !.subject = op[c].subject, !.role = op[c].role,
                                  !.types = op[c].types, !.requester = op[c].requester,
                                  !.agreement = op[c].agreement]
  <2>1. op[c] \in Operation
    BY <1>3, BusyHasType DEF requestClaim, Busy
  <2>2. k \in Claim
    BY <2>1 DEF Operation, NoClaim, Claim, Maybe
  <2>3. claims' = [claims EXCEPT ![op[c].id] = k] /\ Go(c, Idle)
    BY <1>3 DEF requestClaim
  <2>4. claims' \in [Ids -> Claim \cup {NoClaim}]
    BY <2>2, <2>3 DEF TypeOK
  <2>5. /\ op' \in [Clients -> Operation \cup {Idle}]
        /\ (\A d \in Clients : Busy(d) /\ op[d].at # "registeringOnly" => op[d].id \in Ids)'
    BY <2>3, GoHasType DEF Idle
  <2>6. QED
    BY <1>3, <2>4, <2>5 DEF requestClaim, TypeOK
<1>4. QED
  BY <1>1, <1>2, <1>3 DEF RequestStep

LEMMA RecordedHasType ==
    ASSUME TypeOK, NEW o \in Operation, o.id \in Ids
    PROVE  Recorded(o) \in Claim
<1> DEFINE k == IF Known(o.id) THEN claims[o.id]
                ELSE [NoClaim EXCEPT !.subject = o.subject, !.role = o.role,
                                     !.types = o.types, !.requester = o.requester]
<1>1. k \in Claim
  BY KnownHasType DEF Operation, NoClaim, Claim, Maybe
<1>2. Recorded(o) = [k EXCEPT !.isAccepted = TRUE, !.acceptedBy = o.acceptedBy,
                        !.onChainProof = IF o.proof = Nobody THEN @ ELSE o.proof,
                        !.changed = o.changed]
  BY DEF Recorded
<1> HIDE DEF k
<1>3. QED
  BY <1>1, <1>2 DEF Operation, Claim, Maybe

LEMMA IssueTypes ==
    ASSUME TypeOK, NEW c \in Clients, IssueStep(c)
    PROVE  TypeOK'
<1>1. ASSUME NEW i \in Ids, NEW p \in BOOLEAN, issueClaimRequest(c, i, p)
      PROVE  TypeOK'
  <2> DEFINE o == [Idle EXCEPT !.at = "checkingIssue", !.id = i,
                    !.subject = claims[i].subject, !.role = claims[i].role,
                    !.types = claims[i].types, !.requester = claims[i].requester,
                    !.agreement = claims[i].agreement,
                    !.publishOnChain = p /\ "OnChain" \in claims[i].types]
  <2>1. claims[i] \in Claim
    BY <1>1, KnownHasType DEF issueClaimRequest
  <2>2. o \in Operation /\ o.id \in Ids
    <3> DEFINE b == p /\ "OnChain" \in claims[i].types
    <3>1. b \in BOOLEAN
      OBVIOUS
    <3> HIDE DEF b
    <3>2. QED
      BY <2>1, <3>1 DEF Idle, Operation, Claim, Maybe, b
  <2>3. QED
    BY <1>1, <2>2, AwaitHasType DEF issueClaimRequest
<1>2. ASSUME NEW s \in Subjects, NEW r \in Roles, issueClaim(c, s, r)
      PROVE  TypeOK'
  <2> DEFINE o(i) == [Idle EXCEPT !.at = "checkingIssue", !.id = i, !.subject = s,
                                  !.role = r, !.types = {"OffChain"}, !.requester = s]
  <2>1. PICK i \in Ids : Await(c, o(i))
    BY <1>2 DEF issueClaim
  <2>2. s \in Subjects /\ {"OffChain"} \in Types
    <3>1. {"OffChain"} # {} /\ {"OffChain"} \in SUBSET {"OffChain", "OnChain"}
      OBVIOUS
    <3>2. QED
      BY <3>1 DEF Types
  <2>3. o(i) \in Operation /\ o(i).id \in Ids
    BY <2>2 DEF Idle, Operation, Maybe
  <2>4. QED
    BY <2>1, <2>3, AwaitHasType
<1>3. ASSUME NEW o, Await(c, o), Busy(c), op[c].at # "registeringOnly",
             op[c] \in Operation /\ op[c].id \in Ids /\ account[c] \in Accounts
                => o \in Operation /\ o.id \in Ids
      PROVE  TypeOK'
  BY <1>3, BusyHasType, AwaitHasType
<1>4. CASE IssueAllowed(c)
  <2> DEFINE o == IF "OffChain" \in op[c].types
                  THEN [op[c] EXCEPT !.at = "signingToken", !.acceptedBy = account[c]]
                  ELSE [op[c] EXCEPT !.at = "signingProof", !.acceptedBy = account[c],
                                     !.proof = account[c]]
  <2>1. op[c] \in Operation /\ op[c].id \in Ids /\ account[c] \in Accounts
           => o \in Operation /\ o.id \in Ids
    BY DEF Operation, Maybe
  <2>2. QED
    BY <1>3, <1>4, <2>1 DEF IssueAllowed, Busy
<1>5. CASE TokenSigned(c)
  <2> DEFINE o == IF "OnChain" \in op[c].types
                  THEN [op[c] EXCEPT !.at = "signingProof", !.proof = account[c]]
                  ELSE [op[c] EXCEPT !.at = "postingIssue"]
  <2>1. op[c] \in Operation /\ op[c].id \in Ids /\ account[c] \in Accounts
           => o \in Operation /\ o.id \in Ids
    BY DEF Operation, Maybe
  <2>2. QED
    BY <1>3, <1>5, <2>1 DEF TokenSigned, Busy
<1>6. CASE ProofSigned(c)
  <2> DEFINE o == IF op[c].publishOnChain
                  THEN [op[c] EXCEPT !.at = "registering", !.registrar = account[c]]
                  ELSE [op[c] EXCEPT !.at = "postingIssue"]
  <2>1. op[c] \in Operation /\ op[c].id \in Ids /\ account[c] \in Accounts
           => o \in Operation /\ o.id \in Ids
    BY DEF Operation, Maybe
  <2>2. QED
    BY <1>3, <1>6, <2>1 DEF ProofSigned, Busy
<1>7. CASE postIssue(c)
  <2>1. op[c] \in Operation /\ op[c].id \in Ids
    BY <1>7, BusyHasType DEF postIssue, Busy
  <2>2. claims' \in [Ids -> Claim \cup {NoClaim}]
    BY <1>7, <2>1, RecordedHasType DEF postIssue, TypeOK
  <2>3. /\ op' \in [Clients -> Operation \cup {Idle}]
        /\ (\A d \in Clients : Busy(d) /\ op[d].at # "registeringOnly" => op[d].id \in Ids)'
    BY <1>7, GoHasType DEF postIssue, Idle
  <2>4. enrolled' \subseteq Subjects \X Roles
    BY <1>7, <2>1 DEF postIssue, Operation, TypeOK
  <2>5. QED
    BY <1>7, <2>2, <2>3, <2>4 DEF postIssue, TypeOK
<1>8. QED
  BY <1>1, <1>2, <1>4, <1>5, <1>6, <1>7 DEF IssueStep

LEMMA RegisterTypes ==
    ASSUME TypeOK, NEW c \in Clients, RegisterStep(c)
    PROVE  TypeOK'
<1>1. ASSUME NEW i \in Ids, registerOnchain(c, i)
      PROVE  TypeOK'
  <2> DEFINE o == [Idle EXCEPT !.at = "registeringOnly",
                    !.subject = claims[i].subject, !.role = claims[i].role,
                    !.types = claims[i].types, !.agreement = claims[i].agreement,
                    !.proof = claims[i].onChainProof, !.registrar = claims[i].acceptedBy]
  <2>1. claims[i] \in Claim
    BY <1>1, KnownHasType DEF registerOnchain, readyToBeRegisteredOnchain, Known, NoClaim
  <2>2. o \in Operation /\ o.at = "registeringOnly"
    BY <2>1 DEF Idle, Operation, Claim, Maybe
  <2>3. QED
    BY <1>1, <2>2, AwaitHasType DEF registerOnchain
<1>2. ASSUME Registering(c)
      PROVE  /\ op[c] \in Operation
             /\ Held(c) \in Subjects \X Roles
             /\ op[c].at = "registering" => op[c].id \in Ids
  BY <1>2, BusyHasType, HeldHasType DEF Registering, Busy
<1>3. CASE Registered(c)
  <2> DEFINE o == IF op[c].at = "registering" THEN [op[c] EXCEPT !.at = "postingIssue"] ELSE Idle
  <2>1. o \in Operation \cup {Idle} /\ (o.at \notin {"idle", "registeringOnly"} => o.id \in Ids)
    BY <1>2, <1>3 DEF Registered, Operation, Idle
  <2>2. /\ op' \in [Clients -> Operation \cup {Idle}]
        /\ (\A d \in Clients : Busy(d) /\ op[d].at # "registeringOnly" => op[d].id \in Ids)'
    BY <1>3, <2>1, GoHasType DEF Registered
  <2>3. QED
    BY <1>2, <1>3, <2>2 DEF Registered, TypeOK
<1>4. CASE RegisteredUnanswered(c)
  <2>1. /\ op' \in [Clients -> Operation \cup {Idle}]
        /\ (\A d \in Clients : Busy(d) /\ op[d].at # "registeringOnly" => op[d].id \in Ids)'
    BY <1>4, GoHasType DEF RegisteredUnanswered, Idle
  <2>2. QED
    BY <1>2, <1>4, <2>1 DEF RegisteredUnanswered, TypeOK
<1>5. QED
  BY <1>1, <1>3, <1>4 DEF RegisterStep

LEMMA FailTypes ==
    ASSUME TypeOK, NEW c \in Clients, Fail(c)
    PROVE  TypeOK'
<1>1. /\ op' \in [Clients -> Operation \cup {Idle}]
      /\ (\A d \in Clients : Busy(d) /\ op[d].at # "registeringOnly" => op[d].id \in Ids)'
  BY GoHasType DEF Fail, Idle
<1>2. unrecorded' \subseteq Subjects \X Roles
  BY HeldHasType DEF Fail, TypeOK
<1>3. QED
  BY <1>1, <1>2 DEF Fail, TypeOK

LEMMA ChangeTypes ==
    ASSUME TypeOK, NEW c \in Clients, ChangeAccount(c)
    PROVE  TypeOK'
<1> DEFINE o == IF op[c].acceptedBy = Nobody THEN op[c] ELSE [op[c] EXCEPT !.changed = TRUE]
<1>1. account' \in [Clients -> Accounts]
  BY AccountsOfAssumption DEF ChangeAccount, TypeOK
<1>2. op[c] \in Operation => o \in Operation /\ o.at = op[c].at /\ o.id = op[c].id
  BY DEF Operation
<1>3. op[c] = Idle => o = Idle
  BY DEF Idle
<1>4. o \in Operation \cup {Idle} /\ (o.at \notin {"idle", "registeringOnly"} => o.id \in Ids)
  BY <1>2, <1>3 DEF TypeOK, Busy, Idle
<1>5. /\ op' \in [Clients -> Operation \cup {Idle}]
      /\ (\A d \in Clients : Busy(d) /\ op[d].at # "registeringOnly" => op[d].id \in Ids)'
  BY <1>4, GoHasType DEF ChangeAccount
<1>6. QED
  BY <1>1, <1>5 DEF ChangeAccount, TypeOK

LEMMA StepTypes == TypeOK /\ [Next]_vars => TypeOK'
<1> SUFFICES ASSUME TypeOK, [Next]_vars PROVE TypeOK'
  OBVIOUS
<1>1. ASSUME NEW i \in Ids, deleteClaim(i) PROVE TypeOK'
  BY <1>1 DEF deleteClaim, TypeOK, Busy
<1>2. CASE UNCHANGED vars
  BY <1>2 DEF vars, TypeOK, Busy
<1>3. QED
  BY <1>1, <1>2, RequestTypes, IssueTypes, RegisterTypes, FailTypes, ChangeTypes DEF Next

(* Every variable of ClaimEnrolment keeps its type. *)
THEOREM TypeCorrect == Spec => []TypeOK
  BY InitTypes, StepTypes, PTL DEF Spec

----------------------------------------------------------------------------
(* The inductive invariant *)

IssuingAt == {"signingToken", "signingProof", "registering", "postingIssue"}

Agree(x, y) == x.subject = y.subject /\ x.role = y.role /\ x.types = y.types

(* An operation that issues a claim has seen that the prerequisites are    *)
(* met; one that only registers it, that it was accepted.                  *)
Checked(o) ==
    /\ o.at \in IssuingAt => \A q \in Requires[o.role] : <<o.subject, q>> \in enrolled
    /\ o.at = "registeringOnly" => <<o.subject, o.role>> \in enrolled

(* Whose signatures an operation holds, of a client with account a.        *)
OpSigned(o, a) ==
    /\ o.at = "postingRequest" /\ o.agreement # Nobody => o.agreement = o.requester
    /\ o.at \in IssuingAt => o.acceptedBy # Nobody
    /\ o.acceptedBy # Nobody /\ ~o.changed => o.acceptedBy = a
    /\ o.at # "registeringOnly" /\ o.proof # Nobody
          => "OnChain" \in o.types /\ (o.changed \/ o.proof = o.acceptedBy)
    /\ o.at \in IssuingAt \ {"signingToken"} /\ "OnChain" \in o.types => o.proof # Nobody
    /\ o.at = "registering" => o.registrar # Nobody

OpInv == \A c \in Clients : Checked(op[c]) /\ OpSigned(op[c], account[c])

(* Operations with the same claim agree on what it is for, with each other *)
(* and with the cache server, even if it was deleted and is posted again.  *)
SameClaim ==
    \A c \in Clients : op[c].id \in Ids =>
        /\ \A d \in Clients : op[d].id = op[c].id => Agree(op[d], op[c])
        /\ Known(op[c].id) => Agree(claims[op[c].id], op[c])

(* Whose signatures a claim of the cache server holds.                     *)
ClaimSigned(k) ==
    /\ k.agreement # Nobody => k.agreement = k.requester
    /\ k.onChainProof # Nobody
          => /\ k.isAccepted
             /\ "OnChain" \in k.types
             /\ k.changed \/ k.onChainProof = k.acceptedBy

ClaimInv ==
    \A i \in Ids :
        /\ claims[i].isAccepted => <<claims[i].subject, claims[i].role>> \in enrolled
        /\ ClaimSigned(claims[i])

(* A role on chain is explained by the operation that registered it.       *)
ExplainInv ==
    \A h \in onChain :
        \/ h \in enrolled
        \/ h \in unrecorded
        \/ \E c \in Clients :
              Held(c) = h /\ op[c].at = "postingIssue" /\ op[c].registrar # Nobody

Inv == OpInv /\ SameClaim /\ ClaimInv /\ ExplainInv /\ EnrolledMeetsPrerequisites

IInv == TypeOK /\ Inv

----------------------------------------------------------------------------
(* Steps that only take an operation to its next await *)

(* What an operation may become for the invariant to hold.                 *)
Sound(c, o) ==
    /\ Checked(o)
    /\ OpSigned(o, account[c])
    /\ o.id \in Ids =>
          /\ \A d \in Clients \ {c} : op[d].id = o.id => Agree(op[d], o)
          /\ Known(o.id) => Agree(claims[o.id], o)

LEMMA AwaitKeeps ==
    ASSUME IInv, NEW c \in Clients, NEW o, Await(c, o), Sound(c, o), op[c].at # "postingIssue"
    PROVE  Inv'
<1>1. /\ op' = [op EXCEPT ![c] = o] /\ op \in [Clients -> Operation \cup {Idle}]
      /\ UNCHANGED <<account, claims, onChain, enrolled, unrecorded>>
  BY DEF Await, Go, IInv, TypeOK
<1>2. op'[c] = o /\ \A d \in Clients \ {c} : op'[d] = op[d]
  BY <1>1
<1> HIDE DEF Operation, Idle
<1>3. OpInv'
  <2> SUFFICES ASSUME NEW d \in Clients PROVE (Checked(op[d]) /\ OpSigned(op[d], account[d]))'
    BY DEF OpInv
  <2>1. CASE d = c
    BY <1>1, <1>2, <2>1 DEF Sound, Checked, OpSigned
  <2>2. CASE d # c
    BY <1>1, <1>2, <2>2 DEF IInv, Inv, OpInv, Checked, OpSigned
  <2>3. QED
    BY <2>1, <2>2
<1>4. SameClaim'
  BY <1>1, <1>2 DEF IInv, Inv, SameClaim, Sound, Agree, Known
<1>5. ClaimInv'
  BY <1>1 DEF IInv, Inv, ClaimInv, ClaimSigned
<1>6. ExplainInv'
  BY <1>1, <1>2 DEF IInv, Inv, ExplainInv, Held
<1>7. EnrolledMeetsPrerequisites'
  BY <1>1 DEF IInv, Inv, EnrolledMeetsPrerequisites
<1>8. QED
  BY <1>3, <1>4, <1>5, <1>6, <1>7 DEF Inv

(* An operation that stays with its claim stays in agreement with others.  *)
LEMMA SameClaimKept ==
    ASSUME IInv, NEW c \in Clients, NEW o,
           o.id = op[c].id, Agree(o, op[c]), Checked(o), OpSigned(o, account[c])
    PROVE  Sound(c, o)
BY DEF IInv, Inv, SameClaim, Sound, Agree

(* The prerequisites that are met are recorded.                            *)
LEMMA MetIsEnrolled ==
    ASSUME IInv, NEW o, prerequisitesMet(o)
    PROVE  \A q \in Requires[o.role] : <<o.subject, q>> \in enrolled
BY DEF IInv, Inv, ClaimInv, prerequisitesMet, enroledRoles, ClaimsOf

(* v4() gives an id that no operation and no claim has.                    *)
LEMMA FreshIsSound ==
    ASSUME IInv, NEW c \in Clients, NEW o, Fresh(o.id),
           o.at \in {"checkingRequest", "checkingIssue"},
           o.acceptedBy = Nobody, o.proof = Nobody
    PROVE  Sound(c, o)
BY DEF Sound, Fresh, Checked, OpSigned, IssuingAt

LEMMA RequestAwaits ==
    ASSUME IInv, NEW c \in Clients,
           \/ \E s \in Subjects, r \in Roles : \E t \in Kinds[r] : createClaimRequest(c, s, r, t)
           \/ RequestAllowed(c)
    PROVE  Inv'
<1>1. ASSUME NEW s \in Subjects, NEW r \in Roles, NEW t \in Kinds[r],
             createClaimRequest(c, s, r, t)
      PROVE  Inv'
  <2> DEFINE o(i) == [Idle EXCEPT !.at = "checkingRequest", !.id = i, !.subject = s,
                                  !.role = r, !.types = t]
  <2>1. PICK i \in Ids : Fresh(i) /\ Await(c, o(i))
    BY <1>1 DEF createClaimRequest
  <2>2. /\ o(i).at = "checkingRequest" /\ o(i).id = i
        /\ o(i).acceptedBy = Nobody /\ o(i).proof = Nobody
    BY DEF Idle
  <2>3. op[c].at # "postingIssue"
    BY <1>1 DEF createClaimRequest, Busy
  <2> HIDE DEF o
  <2>4. QED
    BY <2>1, <2>2, <2>3, FreshIsSound, AwaitKeeps
<1>2. CASE RequestAllowed(c)
  <2> DEFINE o == [op[c] EXCEPT !.at = "postingRequest", !.requester = account[c],
                    !.agreement = IF "OnChain" \in op[c].types THEN account[c] ELSE Nobody]
  <2>1. op[c] \in Operation
    BY <1>2, BusyHasType DEF RequestAllowed, Busy, IInv
  <2>2. /\ o.at = "postingRequest" /\ o.id = op[c].id /\ Agree(o, op[c])
        /\ o.requester = account[c] /\ o.agreement \in {account[c], Nobody}
        /\ o.acceptedBy = op[c].acceptedBy /\ o.proof = op[c].proof
        /\ o.changed = op[c].changed
    BY <2>1 DEF Operation, Agree
  <2>3. OpSigned(op[c], account[c]) /\ op[c].at = "checkingRequest" /\ Await(c, o)
    BY <1>2 DEF RequestAllowed, IInv, Inv, OpInv
  <2> HIDE DEF o
  <2>4. Checked(o) /\ OpSigned(o, account[c])
    BY <2>2, <2>3 DEF Checked, OpSigned, IssuingAt, Agree
  <2>5. QED
    BY <2>2, <2>3, <2>4, SameClaimKept, AwaitKeeps
<1>3. QED
  BY <1>1, <1>2

(* What stays of an operation that goes on issuing.                        *)
LEMMA IssueGoesOn ==
    ASSUME IInv, NEW c \in Clients, NEW o, Await(c, o),
           op[c].at # "postingIssue", o.at \in IssuingAt,
           o.id = op[c].id, Agree(o, op[c]),
           \A q \in Requires[op[c].role] : <<op[c].subject, q>> \in enrolled,
           OpSigned(o, account[c])
    PROVE  Inv'
<1>1. Checked(o)
  BY DEF Checked, Agree, IssuingAt
<1>2. QED
  BY <1>1, SameClaimKept, AwaitKeeps

LEMMA IssueAwaits ==
    ASSUME IInv, NEW c \in Clients,
           \/ \E i \in Ids, p \in BOOLEAN : issueClaimRequest(c, i, p)
           \/ \E s \in Subjects, r \in Roles : issueClaim(c, s, r)
           \/ IssueAllowed(c) \/ TokenSigned(c) \/ ProofSigned(c)
    PROVE  Inv'
<1>1. ASSUME NEW i \in Ids, NEW p \in BOOLEAN, issueClaimRequest(c, i, p)
      PROVE  Inv'
  <2> DEFINE o == [Idle EXCEPT !.at = "checkingIssue", !.id = i,
                    !.subject = claims[i].subject, !.role = claims[i].role,
                    !.types = claims[i].types, !.requester = claims[i].requester,
                    !.agreement = claims[i].agreement,
                    !.publishOnChain = p /\ "OnChain" \in claims[i].types]
  <2>1. /\ o.at = "checkingIssue" /\ o.id = i /\ Agree(o, claims[i])
        /\ o.acceptedBy = Nobody /\ o.proof = Nobody
    BY DEF Idle, Agree
  <2>2. Known(i) /\ Await(c, o) /\ op[c].at # "postingIssue"
    BY <1>1 DEF issueClaimRequest, Busy
  <2> HIDE DEF o
  <2>3. Sound(c, o)
    BY <2>1, <2>2 DEF Sound, Checked, OpSigned, IssuingAt, IInv, Inv, SameClaim, Agree
  <2>4. QED
    BY <2>2, <2>3, AwaitKeeps
<1>2. ASSUME NEW s \in Subjects, NEW r \in Roles, issueClaim(c, s, r)
      PROVE  Inv'
  <2> DEFINE o(i) == [Idle EXCEPT !.at = "checkingIssue", !.id = i, !.subject = s,
                                  !.role = r, !.types = {"OffChain"}, !.requester = s]
  <2>1. PICK i \in Ids : Fresh(i) /\ Await(c, o(i))
    BY <1>2 DEF issueClaim
  <2>2. /\ o(i).at = "checkingIssue" /\ o(i).id = i
        /\ o(i).acceptedBy = Nobody /\ o(i).proof = Nobody
    BY DEF Idle
  <2>3. op[c].at # "postingIssue"
    BY <1>2 DEF issueClaim, Busy
  <2> HIDE DEF o
  <2>4. QED
    BY <2>1, <2>2, <2>3, FreshIsSound, AwaitKeeps
<1>3. ASSUME Busy(c), op[c].at # "registeringOnly"
      PROVE  /\ op[c] \in Operation /\ account[c] \in Accounts
             /\ account[c] # Nobody
             /\ Checked(op[c]) /\ OpSigned(op[c], account[c])
             /\ op[c].types \in Types
  BY <1>3, BusyHasType, NobodyAssumption DEF IInv, Inv, OpInv, Operation
<1>4. CASE IssueAllowed(c)
  <2> DEFINE o == IF "OffChain" \in op[c].types
                  THEN [op[c] EXCEPT !.at = "signingToken", !.acceptedBy = account[c]]
                  ELSE [op[c] EXCEPT !.at = "signingProof", !.acceptedBy = account[c],
                                     !.proof = account[c]]
  <2>1. /\ o.at = (IF "OffChain" \in op[c].types THEN "signingToken" ELSE "signingProof")
        /\ o.id = op[c].id /\ Agree(o, op[c]) /\ o.changed = op[c].changed
        /\ o.acceptedBy = account[c]
        /\ o.proof = (IF "OffChain" \in op[c].types THEN op[c].proof ELSE account[c])
    BY <1>3, <1>4 DEF IssueAllowed, Busy, Operation, Agree
  <2>2. Await(c, o) /\ op[c].at = "checkingIssue" /\ prerequisitesMet(op[c])
    BY <1>4 DEF IssueAllowed
  <2>3. "OffChain" \notin op[c].types => "OnChain" \in op[c].types
    BY <1>3, <2>2 DEF Busy, Types
  <2>4. op[c].proof # Nobody => op[c].changed \/ op[c].proof = op[c].acceptedBy
    BY <1>3, <2>2 DEF Busy, OpSigned
  <2>5. \A q \in Requires[op[c].role] : <<op[c].subject, q>> \in enrolled
    BY <2>2, MetIsEnrolled
  <2> HIDE DEF o
  <2>6. OpSigned(o, account[c])
    BY <1>3, <2>1, <2>2, <2>3, <2>4 DEF Busy, OpSigned, IssuingAt, Agree
  <2>7. o.at \in IssuingAt
    BY <2>1 DEF IssuingAt
  <2>8. QED
    BY <2>1, <2>2, <2>5, <2>6, <2>7, IssueGoesOn
<1>5. CASE TokenSigned(c)
  <2> DEFINE o == IF "OnChain" \in op[c].types
                  THEN [op[c] EXCEPT !.at = "signingProof", !.proof = account[c]]
                  ELSE [op[c] EXCEPT !.at = "postingIssue"]
  <2>1. /\ o.at = (IF "OnChain" \in op[c].types THEN "signingProof" ELSE "postingIssue")
        /\ o.id = op[c].id /\ Agree(o, op[c]) /\ o.changed = op[c].changed
        /\ o.acceptedBy = op[c].acceptedBy
        /\ o.proof = (IF "OnChain" \in op[c].types THEN account[c] ELSE op[c].proof)
    BY <1>3, <1>5 DEF TokenSigned, Busy, Operation, Agree
  <2>2. Await(c, o) /\ op[c].at = "signingToken"
    BY <1>5 DEF TokenSigned
  <2> HIDE DEF o
  <2>3. OpSigned(o, account[c])
    BY <1>3, <2>1, <2>2 DEF Busy, OpSigned, IssuingAt, Agree
  <2>4. o.at \in IssuingAt /\ \A q \in Requires[op[c].role] : <<op[c].subject, q>> \in enrolled
    BY <1>3, <2>1, <2>2 DEF Busy, IssuingAt, Checked
  <2>5. QED
    BY <2>1, <2>2, <2>3, <2>4, IssueGoesOn
<1>6. CASE ProofSigned(c)
  <2> DEFINE o == IF op[c].publishOnChain
                  THEN [op[c] EXCEPT !.at = "registering", !.registrar = account[c]]
                  ELSE [op[c] EXCEPT !.at = "postingIssue"]
  <2>1. /\ o.at \in {"registering", "postingIssue"}
        /\ o.id = op[c].id /\ Agree(o, op[c]) /\ o.changed = op[c].changed
        /\ o.acceptedBy = op[c].acceptedBy /\ o.proof = op[c].proof
        /\ o.at = "registering" => o.registrar = account[c]
    BY <1>3, <1>6 DEF ProofSigned, Busy, Operation, Agree
  <2>2. Await(c, o) /\ op[c].at = "signingProof"
    BY <1>6 DEF ProofSigned
  <2> HIDE DEF o
  <2>3. OpSigned(o, account[c])
    BY <1>3, <2>1, <2>2 DEF Busy, OpSigned, IssuingAt, Agree
  <2>4. o.at \in IssuingAt /\ \A q \in Requires[op[c].role] : <<op[c].subject, q>> \in enrolled
    BY <1>3, <2>1, <2>2 DEF Busy, IssuingAt, Checked
  <2>5. QED
    BY <2>1, <2>2, <2>3, <2>4, IssueGoesOn
<1>7. QED
  BY <1>1, <1>2, <1>4, <1>5, <1>6

LEMMA RegisterAwaits ==
    ASSUME IInv, NEW c \in Clients, NEW i \in Ids, registerOnchain(c, i)
    PROVE  Inv'
<1> DEFINE o == [Idle EXCEPT !.at = "registeringOnly",
                    !.subject = claims[i].subject, !.role = claims[i].role,
                    !.types = claims[i].types, !.agreement = claims[i].agreement,
                    !.proof = claims[i].onChainProof, !.registrar = claims[i].acceptedBy]
<1>1. /\ o.at = "registeringOnly" /\ o.id = Nobody
      /\ o.subject = claims[i].subject /\ o.role = claims[i].role
      /\ o.acceptedBy = Nobody
  BY DEF Idle
<1>2. <<claims[i].subject, claims[i].role>> \in enrolled
  BY DEF registerOnchain, readyToBeRegisteredOnchain, IInv, Inv, ClaimInv, ClaimSigned
<1>3. Await(c, o) /\ op[c].at # "postingIssue"
  BY DEF registerOnchain, Busy
<1> HIDE DEF o
<1>4. Sound(c, o)
  BY <1>1, <1>2, NobodyAssumption DEF Sound, Checked, OpSigned, IssuingAt
<1>5. QED
  BY <1>3, <1>4, AwaitKeeps

----------------------------------------------------------------------------
(* Steps that change more than an operation *)

(* The end of an operation, or its next await, as seen from the others.    *)
LEMMA GoFacts ==
    ASSUME IInv, NEW c \in Clients, NEW o, Go(c, o)
    PROVE  op'[c] = o /\ \A d \in Clients \ {c} : op'[d] = op[d]
BY DEF Go, IInv, TypeOK

(* An operation that ends leaves nothing to agree about.                   *)
LEMMA IdleSigned ==
    ASSUME NEW a
    PROVE  Idle.id = Nobody /\ Idle.at = "idle" /\ OpSigned(Idle, a)
BY DEF Idle, OpSigned, IssuingAt

LEMMA IdleChecked == Checked(Idle)
BY DEF Idle, Checked, IssuingAt

(* A claim that is posted agrees with the operations that still have it.   *)
LEMMA PostKeepsAgreement ==
    ASSUME IInv, NEW c \in Clients, NEW k, Go(c, Idle), op[c].id \in Ids,
           claims' = [claims EXCEPT ![op[c].id] = k], Agree(k, op[c])
    PROVE  SameClaim'
<1>1. op'[c] = Idle /\ \A d \in Clients \ {c} : op'[d] = op[d]
  BY GoFacts
<1>2. claims'[op[c].id] = k /\ \A i \in Ids \ {op[c].id} : claims'[i] = claims[i]
  BY DEF IInv, TypeOK
<1>3. \A d \in Clients : op'[d].id \in Ids => op'[d] = op[d]
  BY <1>1, IdleSigned, NobodyAssumption
<1>4. \A d, e \in Clients : op'[d].id \in Ids /\ op'[e].id = op'[d].id => Agree(op'[e], op'[d])
  BY <1>3 DEF IInv, Inv, SameClaim
<1>5. ASSUME NEW d \in Clients, op'[d].id \in Ids, claims'[op'[d].id] # NoClaim
      PROVE  Agree(claims'[op'[d].id], op'[d])
  <2>1. op'[d] = op[d] /\ op[d].id \in Ids
    BY <1>3, <1>5
  <2>2. CASE op[d].id = op[c].id
    <3>1. Agree(op[d], op[c])
      BY <2>1, <2>2 DEF IInv, Inv, SameClaim
    <3>2. QED
      BY <1>2, <2>1, <2>2, <3>1 DEF Agree
  <2>3. CASE op[d].id # op[c].id
    <3>1. claims'[op[d].id] = claims[op[d].id]
      BY <1>2, <2>1, <2>3
    <3>2. QED
      BY <1>5, <2>1, <3>1 DEF IInv, Inv, SameClaim, Known
  <2>4. QED
    BY <2>2, <2>3
<1>6. QED
  BY <1>4, <1>5 DEF SameClaim, Known, Agree

LEMMA RequestPosted ==
    ASSUME IInv, NEW c \in Clients, requestClaim(c)
    PROVE  Inv'
<1> DEFINE k == [NoClaim EXCEPT !.subject = op[c].subject, !.role = op[c].role,
                                !.types = op[c].types, !.requester = op[c].requester,
                                !.agreement = op[c].agreement]
<1>1. op[c] \in Operation /\ op[c].id \in Ids /\ op[c].at = "postingRequest"
  BY BusyHasType DEF requestClaim, Busy, IInv
<1>2. /\ Agree(k, op[c]) /\ k.requester = op[c].requester /\ k.agreement = op[c].agreement
      /\ ~k.isAccepted /\ k.onChainProof = Nobody
  BY <1>1 DEF NoClaim, Operation, Agree
<1>3. Go(c, Idle) /\ UNCHANGED <<account, onChain, enrolled, unrecorded>>
  BY DEF requestClaim
<1>4. claims' = [claims EXCEPT ![op[c].id] = k] /\ claims \in [Ids -> Claim \cup {NoClaim}]
  BY DEF requestClaim, IInv, TypeOK
<1>5. claims'[op[c].id] = k /\ \A i \in Ids \ {op[c].id} : claims'[i] = claims[i]
  BY <1>1, <1>4
<1>6. op'[c] = Idle /\ \A d \in Clients \ {c} : op'[d] = op[d]
  BY <1>3, GoFacts
<1> HIDE DEF k
<1>7. OpInv'
  <2> SUFFICES ASSUME NEW d \in Clients PROVE (Checked(op[d]) /\ OpSigned(op[d], account[d]))'
    BY DEF OpInv
  <2>1. CASE d = c
    BY <1>6, <2>1 DEF Idle, Checked, OpSigned, IssuingAt
  <2>2. CASE d # c
    BY <1>3, <1>6, <2>2 DEF IInv, Inv, OpInv, Checked, OpSigned
  <2>3. QED
    BY <2>1, <2>2
<1>8. SameClaim'
  BY <1>1, <1>2, <1>3, <1>4, PostKeepsAgreement
<1>9. ClaimInv'
  <2>1. OpSigned(op[c], account[c])
    BY DEF IInv, Inv, OpInv
  <2>2. ClaimSigned(k)
    BY <1>1, <1>2, <2>1 DEF ClaimSigned, OpSigned
  <2>3. QED
    BY <1>2, <1>3, <1>5, <2>2 DEF IInv, Inv, ClaimInv, ClaimSigned
<1>10. ExplainInv'
  BY <1>1, <1>3, <1>6 DEF IInv, Inv, ExplainInv, Held
<1>11. EnrolledMeetsPrerequisites'
  BY <1>3 DEF IInv, Inv, EnrolledMeetsPrerequisites
<1>12. QED
  BY <1>7, <1>8, <1>9, <1>10, <1>11 DEF Inv

LEMMA IssuePosted ==
    ASSUME IInv, NEW c \in Clients, postIssue(c)
    PROVE  Inv'
<1> DEFINE k == Recorded(op[c])
<1>1. op[c] \in Operation /\ op[c].id \in Ids /\ op[c].at = "postingIssue"
  BY BusyHasType DEF postIssue, Busy, IInv
<1>2. Go(c, Idle) /\ UNCHANGED <<account, onChain, unrecorded>>
  BY DEF postIssue
<1>3. enrolled' = enrolled \cup {<<op[c].subject, op[c].role>>}
  BY DEF postIssue
<1>4. claims' = [claims EXCEPT ![op[c].id] = k] /\ claims \in [Ids -> Claim \cup {NoClaim}]
  BY DEF postIssue, IInv, TypeOK
<1>5. claims'[op[c].id] = k /\ \A i \in Ids \ {op[c].id} : claims'[i] = claims[i]
  BY <1>1, <1>4
<1>6. op'[c] = Idle /\ \A d \in Clients \ {c} : op'[d] = op[d]
  BY <1>2, GoFacts
<1>7. Checked(op[c]) /\ OpSigned(op[c], account[c])
  BY DEF IInv, Inv, OpInv
<1>8. /\ Agree(k, op[c]) /\ k.acceptedBy = op[c].acceptedBy /\ k.changed = op[c].changed
      /\ k.isAccepted
      /\ k.agreement # Nobody => k.agreement = k.requester
      /\ k.onChainProof # Nobody => k.onChainProof = op[c].proof /\ "OnChain" \in op[c].types
  <2> DEFINE b == IF Known(op[c].id) THEN claims[op[c].id]
                  ELSE [NoClaim EXCEPT !.subject = op[c].subject, !.role = op[c].role,
                                       !.types = op[c].types, !.requester = op[c].requester]
  <2>1. /\ b \in Claim /\ Agree(b, op[c])
        /\ b.agreement # Nobody => b.agreement = b.requester
        /\ b.onChainProof # Nobody => "OnChain" \in b.types
    <3>1. CASE Known(op[c].id)
      <4>1. b = claims[op[c].id] /\ b \in Claim /\ Agree(b, op[c]) /\ ClaimSigned(b)
        BY <1>1, <3>1, KnownHasType DEF IInv, Inv, SameClaim, ClaimInv
      <4>2. QED
        BY <4>1 DEF ClaimSigned
    <3>2. CASE ~Known(op[c].id)
      <4>1. b \in Claim /\ Agree(b, op[c]) /\ b.agreement = Nobody /\ b.onChainProof = Nobody
        BY <1>1, <3>2 DEF NoClaim, Operation, Claim, Maybe, Agree
      <4>2. QED
        BY <4>1
    <3>3. QED
      BY <3>1, <3>2
  <2>2. k = [b EXCEPT !.isAccepted = TRUE, !.acceptedBy = op[c].acceptedBy,
                !.onChainProof = IF op[c].proof = Nobody THEN @ ELSE op[c].proof,
                !.changed = op[c].changed]
    BY DEF Recorded
  <2> HIDE DEF b, k
  <2>3. /\ k.subject = b.subject /\ k.role = b.role /\ k.types = b.types
        /\ k.agreement = b.agreement /\ k.requester = b.requester
        /\ k.isAccepted /\ k.acceptedBy = op[c].acceptedBy /\ k.changed = op[c].changed
        /\ k.onChainProof = IF op[c].proof = Nobody THEN b.onChainProof ELSE op[c].proof
    BY <2>1, <2>2 DEF Claim
  <2>4. op[c].proof = Nobody => "OnChain" \notin op[c].types
    BY <1>1, <1>7 DEF OpSigned, IssuingAt
  <2>5. op[c].proof # Nobody => "OnChain" \in op[c].types
    BY <1>1, <1>7 DEF OpSigned
  <2>6. QED
    BY <2>1, <2>3, <2>4, <2>5 DEF Agree
<1> HIDE DEF k
<1>9. OpInv'
  <2> SUFFICES ASSUME NEW d \in Clients PROVE (Checked(op[d]) /\ OpSigned(op[d], account[d]))'
    BY DEF OpInv
  <2>1. CASE d = c
    BY <1>6, <2>1 DEF Idle, Checked, OpSigned, IssuingAt
  <2>2. CASE d # c
    BY <1>2, <1>3, <1>6, <2>2 DEF IInv, Inv, OpInv, Checked, OpSigned
  <2>3. QED
    BY <2>1, <2>2
<1>10. SameClaim'
  BY <1>1, <1>2, <1>4, <1>8, PostKeepsAgreement
<1>11. ClaimInv'
  <2>1. ClaimSigned(k)
    BY <1>1, <1>7, <1>8 DEF ClaimSigned, OpSigned, Agree
  <2>2. QED
    BY <1>3, <1>5, <1>8, <2>1 DEF IInv, Inv, ClaimInv, ClaimSigned, Agree
<1>12. ExplainInv'
  <2> SUFFICES ASSUME NEW h \in onChain
               PROVE  \/ h \in enrolled' \/ h \in unrecorded
                      \/ \E d \in Clients : Held(d)' = h /\ op'[d].at = "postingIssue"
                                            /\ op'[d].registrar # Nobody
    BY <1>2 DEF ExplainInv
  <2>1. CASE h = Held(c)
    BY <1>3, <2>1 DEF Held
  <2>2. CASE h # Held(c)
    BY <1>3, <1>6, <2>2 DEF IInv, Inv, ExplainInv, Held
  <2>3. QED
    BY <2>1, <2>2
<1>13. EnrolledMeetsPrerequisites'
  <2>1. \A q \in Requires[op[c].role] : <<op[c].subject, q>> \in enrolled
    BY <1>1, <1>7 DEF Checked, IssuingAt
  <2> SUFFICES ASSUME NEW h \in enrolled' \cup onChain', NEW q \in Requires[h[2]]
               PROVE  <<h[1], q>> \in enrolled'
    BY DEF EnrolledMeetsPrerequisites
  <2>2. CASE h \in enrolled \cup onChain
    BY <1>3, <2>2 DEF IInv, Inv, EnrolledMeetsPrerequisites
  <2>3. CASE h = <<op[c].subject, op[c].role>>
    <3>1. h[1] = op[c].subject /\ h[2] = op[c].role
      BY <2>3
    <3>2. QED
      BY <1>3, <2>1, <3>1
  <2>4. QED
    BY <1>2, <1>3, <2>2, <2>3
<1>14. QED
  BY <1>9, <1>10, <1>11, <1>12, <1>13 DEF Inv

(* What the contract has registered may be explained by its operation.     *)
LEMMA EndKeepsOthers ==
    ASSUME IInv, NEW c \in Clients, NEW o, Go(c, o), Sound(c, o),
           UNCHANGED <<account, claims, enrolled>>
    PROVE  (OpInv /\ SameClaim /\ ClaimInv)'
<1>1. op'[c] = o /\ \A d \in Clients \ {c} : op'[d] = op[d]
  BY GoFacts
<1>2. OpInv'
  <2> SUFFICES ASSUME NEW d \in Clients PROVE (Checked(op[d]) /\ OpSigned(op[d], account[d]))'
    BY DEF OpInv
  <2>1. CASE d = c
    BY <1>1, <2>1 DEF Sound, Checked, OpSigned
  <2>2. CASE d # c
    BY <1>1, <2>2 DEF IInv, Inv, OpInv, Checked, OpSigned
  <2>3. QED
    BY <2>1, <2>2
<1>3. SameClaim'
  BY <1>1 DEF IInv, Inv, SameClaim, Sound, Agree, Known
<1>4. ClaimInv'
  BY DEF IInv, Inv, ClaimInv, ClaimSigned
<1>5. QED
  BY <1>2, <1>3, <1>4

LEMMA IdleSound ==
    ASSUME NEW c \in Clients
    PROVE  Sound(c, Idle)
BY IdleSigned, IdleChecked, NobodyAssumption DEF Sound

(* What is being registered meets the prerequisites.                       *)
LEMMA HeldMeets ==
    ASSUME IInv, NEW c \in Clients, Registering(c)
    PROVE  \A q \in Requires[Held(c)[2]] : <<Held(c)[1], q>> \in enrolled
<1>1. Held(c)[1] = op[c].subject /\ Held(c)[2] = op[c].role
  BY DEF Held
<1>2. Checked(op[c])
  BY DEF IInv, Inv, OpInv
<1>3. CASE op[c].at = "registering"
  BY <1>1, <1>2, <1>3 DEF Checked, IssuingAt
<1>4. CASE op[c].at = "registeringOnly"
  BY <1>1, <1>2, <1>4 DEF Checked, Held, IInv, Inv, EnrolledMeetsPrerequisites
<1>5. QED
  BY <1>3, <1>4 DEF Registering

LEMMA Registration ==
    ASSUME IInv, NEW c \in Clients, Registered(c) \/ RegisteredUnanswered(c)
    PROVE  Inv'
<1>1. /\ Registering(c) /\ op[c].at # "postingIssue"
      /\ onChain' = onChain \cup {Held(c)}
      /\ UNCHANGED <<account, claims, enrolled>>
  BY DEF Registered, RegisteredUnanswered, Registering
<1>2. Checked(op[c]) /\ OpSigned(op[c], account[c])
  BY DEF IInv, Inv, OpInv
<1>3. EnrolledMeetsPrerequisites'
  <2> SUFFICES ASSUME NEW h \in enrolled' \cup onChain', NEW q \in Requires[h[2]]
               PROVE  <<h[1], q>> \in enrolled'
    BY DEF EnrolledMeetsPrerequisites
  <2>1. CASE h \in enrolled \cup onChain
    BY <1>1, <2>1 DEF IInv, Inv, EnrolledMeetsPrerequisites
  <2>2. CASE h = Held(c)
    BY <1>1, <2>2, HeldMeets
  <2>3. QED
    BY <1>1, <2>1, <2>2
<1>4. ASSUME op[c].at = "registeringOnly" PROVE Held(c) \in enrolled
  BY <1>2, <1>4 DEF Checked, Held
<1>5. CASE Registered(c) /\ op[c].at = "registering"
  <2> DEFINE o == [op[c] EXCEPT !.at = "postingIssue"]
  <2>1. op[c] \in Operation
    BY <1>5, BusyHasType DEF Busy, IInv
  <2>2. /\ o.at = "postingIssue" /\ o.id = op[c].id /\ Agree(o, op[c])
        /\ o.acceptedBy = op[c].acceptedBy /\ o.proof = op[c].proof
        /\ o.changed = op[c].changed /\ o.registrar = op[c].registrar
    BY <2>1 DEF Operation, Agree
  <2>3. Go(c, o) /\ UNCHANGED unrecorded
    BY <1>5 DEF Registered
  <2> HIDE DEF o
  <2>4. Checked(o) /\ OpSigned(o, account[c]) /\ o.registrar # Nobody
    BY <1>2, <1>5, <2>2 DEF Checked, OpSigned, IssuingAt, Agree
  <2>5. (OpInv /\ SameClaim /\ ClaimInv)'
    BY <1>1, <2>2, <2>3, <2>4, SameClaimKept, EndKeepsOthers
  <2>6. op'[c] = o /\ \A d \in Clients \ {c} : op'[d] = op[d]
    BY <2>3, GoFacts
  <2>7. ExplainInv'
    <3>1. Held(c)' = Held(c) /\ op'[c].at = "postingIssue" /\ op'[c].registrar # Nobody
      BY <2>2, <2>4, <2>6 DEF Held, Agree
    <3>2. QED
      BY <1>1, <2>3, <2>6, <3>1 DEF IInv, Inv, ExplainInv, Held
  <2>8. QED
    BY <1>3, <2>5, <2>7 DEF Inv
<1>6. CASE (Registered(c) /\ op[c].at # "registering") \/ RegisteredUnanswered(c)
  <2>1. Go(c, Idle)
    BY <1>6 DEF Registered, RegisteredUnanswered
  <2>2. (OpInv /\ SameClaim /\ ClaimInv)'
    BY <1>1, <2>1, IdleSound, EndKeepsOthers
  <2>3. \A d \in Clients \ {c} : op'[d] = op[d]
    BY <2>1, GoFacts
  <2>4. Held(c) \in enrolled \/ Held(c) \in unrecorded'
    BY <1>1, <1>4, <1>6 DEF Registered, RegisteredUnanswered, Registering
  <2>5. unrecorded \subseteq unrecorded'
    BY <1>6 DEF Registered, RegisteredUnanswered
  <2>6. ExplainInv'
    BY <1>1, <2>3, <2>4, <2>5 DEF IInv, Inv, ExplainInv, Held
  <2>7. QED
    BY <1>3, <2>2, <2>6 DEF Inv
<1>7. QED
  BY <1>5, <1>6

(* An operation that fails after it has registered says so.                *)
LEMMA Failure ==
    ASSUME IInv, NEW c \in Clients, Fail(c)
    PROVE  Inv'
<1>1. Go(c, Idle) /\ UNCHANGED <<account, claims, onChain, enrolled>>
  BY DEF Fail
<1>2. (OpInv /\ SameClaim /\ ClaimInv)'
  BY <1>1, IdleSound, EndKeepsOthers
<1>3. \A d \in Clients \ {c} : op'[d] = op[d]
  BY <1>1, GoFacts
<1>4. ExplainInv'
  <2>1. unrecorded \subseteq unrecorded'
    BY DEF Fail
  <2>2. op[c].at = "postingIssue" /\ op[c].registrar # Nobody => Held(c) \in unrecorded'
    BY DEF Fail
  <2>3. QED
    BY <1>1, <1>3, <2>1, <2>2 DEF IInv, Inv, ExplainInv, Held
<1>5. EnrolledMeetsPrerequisites'
  BY <1>1 DEF IInv, Inv, EnrolledMeetsPrerequisites
<1>6. QED
  BY <1>2, <1>4, <1>5 DEF Inv

LEMMA Deletion ==
    ASSUME IInv, NEW i \in Ids, deleteClaim(i)
    PROVE  Inv'
<1>1. UNCHANGED <<account, op, onChain, enrolled, unrecorded>>
  BY DEF deleteClaim
<1>2. claims'[i] = NoClaim /\ \A j \in Ids \ {i} : claims'[j] = claims[j]
  BY DEF deleteClaim, IInv, TypeOK
<1>3. OpInv'
  BY <1>1 DEF IInv, Inv, OpInv, Checked, OpSigned
<1>4. SameClaim'
  BY <1>1, <1>2 DEF IInv, Inv, SameClaim, Agree, Known
<1>5. ClaimInv'
  <2>1. ~NoClaim.isAccepted /\ NoClaim.agreement = Nobody /\ NoClaim.onChainProof = Nobody
    BY DEF NoClaim
  <2>2. QED
    BY <1>1, <1>2, <2>1 DEF IInv, Inv, ClaimInv, ClaimSigned
<1>6. ExplainInv' /\ EnrolledMeetsPrerequisites'
  BY <1>1 DEF IInv, Inv, ExplainInv, EnrolledMeetsPrerequisites, Held
<1>7. QED
  BY <1>3, <1>4, <1>5, <1>6 DEF Inv

LEMMA AccountChange ==
    ASSUME IInv, NEW c \in Clients, ChangeAccount(c)
    PROVE  Inv'
<1> DEFINE o == IF op[c].acceptedBy = Nobody THEN op[c] ELSE [op[c] EXCEPT !.changed = TRUE]
<1>1. Go(c, o) /\ UNCHANGED <<claims, onChain, enrolled, unrecorded>>
  BY DEF ChangeAccount
<1>2. \A d \in Clients \ {c} : account'[d] = account[d]
  BY DEF ChangeAccount, IInv, TypeOK
<1>3. /\ o.at = op[c].at /\ o.id = op[c].id /\ Agree(o, op[c])
      /\ o.requester = op[c].requester /\ o.agreement = op[c].agreement
      /\ o.acceptedBy = op[c].acceptedBy /\ o.proof = op[c].proof
      /\ o.registrar = op[c].registrar
      /\ op[c].acceptedBy = Nobody => o.changed = op[c].changed
      /\ op[c].acceptedBy # Nobody => o.changed
  <2>1. CASE op[c] = Idle
    BY <2>1 DEF Idle, Agree
  <2>2. CASE op[c] \in Operation
    <3>1. CASE op[c].acceptedBy = Nobody
      BY <2>2, <3>1 DEF Operation, Agree
    <3>2. CASE op[c].acceptedBy # Nobody
      BY <2>2, <3>2 DEF Operation, Agree
    <3>3. QED
      BY <3>1, <3>2
  <2>3. QED
    BY <2>1, <2>2 DEF IInv, TypeOK
<1>4. op'[c] = o /\ \A d \in Clients \ {c} : op'[d] = op[d]
  BY <1>1, GoFacts
<1> HIDE DEF o
<1>5. OpInv'
  <2> SUFFICES ASSUME NEW d \in Clients PROVE (Checked(op[d]) /\ OpSigned(op[d], account[d]))'
    BY DEF OpInv
  <2>1. CASE d = c
    <3>1. Checked(op[c]) /\ OpSigned(op[c], account[c])
      BY DEF IInv, Inv, OpInv
    <3>2. QED
      BY <1>1, <1>3, <1>4, <2>1, <3>1 DEF Checked, OpSigned, Agree
  <2>2. CASE d # c
    BY <1>1, <1>2, <1>4, <2>2 DEF IInv, Inv, OpInv, Checked, OpSigned
  <2>3. QED
    BY <2>1, <2>2
<1>6. \A d \in Clients : op'[d].id = op[d].id /\ Agree(op'[d], op[d])
  BY <1>3, <1>4 DEF Agree
<1>7. SameClaim'
  BY <1>1, <1>6 DEF IInv, Inv, SameClaim, Agree, Known
<1>8. ClaimInv' /\ EnrolledMeetsPrerequisites'
  BY <1>1 DEF IInv, Inv, ClaimInv, ClaimSigned, EnrolledMeetsPrerequisites
<1>9. ExplainInv'
  <2>1. \A d \in Clients : /\ Held(d)' = Held(d)
                           /\ op'[d].at = op[d].at
                           /\ op'[d].registrar = op[d].registrar
    BY <1>3, <1>4 DEF Held, Agree
  <2>2. QED
    BY <1>1, <2>1 DEF IInv, Inv, ExplainInv
<1>10. QED
  BY <1>5, <1>7, <1>8, <1>9 DEF Inv

----------------------------------------------------------------------------
(* Theorems *)

LEMMA InitInv == Init => IInv
<1> SUFFICES ASSUME Init PROVE Inv
  BY InitTypes DEF IInv
<1>1. OpInv
  BY IdleSigned, IdleChecked DEF Init, OpInv
<1>2. SameClaim
  BY IdleSigned, NobodyAssumption DEF Init, SameClaim
<1>3. ClaimInv
  BY DEF Init, ClaimInv, ClaimSigned, NoClaim
<1>4. ExplainInv /\ EnrolledMeetsPrerequisites
  BY DEF Init, ExplainInv, EnrolledMeetsPrerequisites
<1>5. QED
  BY <1>1, <1>2, <1>3, <1>4 DEF Inv

LEMMA StepInv == IInv /\ [Next]_vars => IInv'
<1> SUFFICES ASSUME IInv, [Next]_vars PROVE Inv'
  BY StepTypes DEF IInv
<1>1. CASE UNCHANGED vars
  BY <1>1 DEF vars, IInv, Inv, OpInv, Checked, OpSigned, SameClaim, Agree, Known, ClaimInv,
              ClaimSigned, ExplainInv, Held, EnrolledMeetsPrerequisites
<1>2. ASSUME NEW c \in Clients, RequestStep(c) PROVE Inv'
  BY <1>2, RequestAwaits, RequestPosted DEF RequestStep
<1>3. ASSUME NEW c \in Clients, IssueStep(c) PROVE Inv'
  BY <1>3, IssueAwaits, IssuePosted DEF IssueStep
<1>4. ASSUME NEW c \in Clients, RegisterStep(c) PROVE Inv'
  BY <1>4, RegisterAwaits, Registration DEF RegisterStep
<1>5. QED
  BY <1>1, <1>2, <1>3, <1>4, Failure, Deletion, AccountChange DEF Next

LEMMA Invariance == Spec => []IInv
  BY InitInv, StepInv, PTL DEF Spec

(* Nobody is enrolled, in the cache server or on chain, before the roles   *)
(* that his role requires, for any number of clients and any Requires.     *)
THEOREM PrerequisitesFirst == Spec => []EnrolledMeetsPrerequisites
<1>1. IInv => EnrolledMeetsPrerequisites
  BY DEF IInv, Inv
<1>2. QED
  BY <1>1, Invariance, PTL

(* A role is on chain without a record in the cache server only while or   *)
(* because the operation that registered it has not recorded it.           *)
THEOREM RegistrationsExplained == Spec => []RegistrationIsExplained
<1>1. IInv => RegistrationIsExplained
  BY DEF IInv, Inv, ExplainInv, RegistrationIsExplained
<1>2. QED
  BY <1>1, Invariance, PTL

(* Whoever changes his account, deletes or issues again: what the contract *)
(* accepts of a claim that is ready was requested by one who may agree for *)
(* its subject, and such a claim is refused only if its issuer changed his *)
(* account while he issued it.                                             *)
THEOREM ReadyClaimsRegister == Spec => []ReadyClaimRegisters
<1>1. IInv => ReadyClaimRegisters
  BY DEF IInv, Inv, ClaimInv, ClaimSigned, ReadyClaimRegisters, readyToBeRegisteredOnchain,
         Verified
<1>2. QED
  BY <1>1, Invariance, PTL

----------------------------------------------------------------------------
(* The refinement of Enrolment.  It also needs what a request under way    *)
(* relies on: nothing else has its id, and its prerequisites are enrolled  *)
(* by the time it is posted, in one step or after many awaits.             *)

Asking == {"checkingRequest", "postingRequest"}

Asked(o) ==
    o.at = "postingRequest" =>
        /\ o.agreement = IF "OnChain" \in o.types THEN o.requester ELSE Nobody
        /\ \A q \in Requires[o.role] : <<o.subject, q>> \in enrolled

OwnId(c) ==
    op[c].at \in Asking =>
        /\ claims[op[c].id] = NoClaim
        /\ \A d \in Clients \ {c} : op[d].id # op[c].id

AskInv == \A c \in Clients : OwnId(c) /\ Asked(op[c])

LEMMA AskingHasId ==
    ASSUME IInv, NEW c \in Clients, op[c].at \in Asking
    PROVE  op[c].id \in Ids /\ op[c].id # Nobody
BY BusyHasType, NobodyAssumption DEF IInv, Asking, Busy

(* An operation goes on, or ends, and no claim that another one requests   *)
(* becomes known.                                                          *)
LEMMA GoAsks ==
    ASSUME IInv, AskInv, NEW c \in Clients, NEW o, Go(c, o), enrolled \subseteq enrolled',
           Asked(o),
           o.at \in Asking => /\ claims'[o.id] = NoClaim
                              /\ \A d \in Clients \ {c} : op[d].id # o.id,
           \A d \in Clients \ {c} : op[d].at \in Asking =>
                /\ op[d].id # o.id
                /\ claims'[op[d].id] = NoClaim
    PROVE  AskInv'
<1>1. op'[c] = o /\ \A d \in Clients \ {c} : op'[d] = op[d]
  BY GoFacts
<1>2. \A d \in Clients : Asked(op[d])'
  BY <1>1 DEF AskInv, Asked
<1>3. ASSUME NEW d \in Clients PROVE OwnId(d)'
  <2>1. CASE d = c
    BY <1>1, <2>1 DEF OwnId
  <2>2. CASE d # c
    BY <1>1, <2>2 DEF AskInv, OwnId
  <2>3. QED
    BY <2>1, <2>2
<1>4. QED
  BY <1>2, <1>3 DEF AskInv

(* It keeps its id or has none any more, and requests nothing.             *)
LEMMA IdKept ==
    ASSUME IInv, AskInv, NEW c \in Clients, NEW o, Go(c, o), enrolled \subseteq enrolled',
           o.at \notin Asking, o.id \in {op[c].id, Nobody},
           \A d \in Clients \ {c} : op[d].at \in Asking => claims'[op[d].id] = claims[op[d].id]
    PROVE  AskInv'
<1>1. Asked(o)
  BY DEF Asked, Asking
<1>2. ASSUME NEW d \in Clients \ {c}, op[d].at \in Asking
      PROVE  op[d].id # o.id /\ claims'[op[d].id] = NoClaim
  <2>1. OwnId(d) /\ op[d].id # Nobody
    BY <1>2, AskingHasId DEF AskInv
  <2>2. QED
    BY <1>2, <2>1 DEF OwnId
<1>3. QED
  BY <1>1, <1>2, GoAsks

(* So does an operation that is at its start.                              *)
LEMMA NewId ==
    ASSUME IInv, AskInv, NEW c \in Clients, NEW o, Await(c, o), Asked(o),
           \/ Fresh(o.id) /\ o.id \in Ids
           \/ Known(o.id) /\ o.at \notin Asking
    PROVE  AskInv'
<1>1. Go(c, o) /\ UNCHANGED <<claims, enrolled>>
  BY DEF Await
<1>2. CASE Fresh(o.id)
  BY <1>1, <1>2, GoAsks DEF Fresh, Known, AskInv, OwnId
<1>3. CASE Known(o.id) /\ o.at \notin Asking
  BY <1>1, <1>3, GoAsks DEF Known, AskInv, OwnId
<1>4. QED
  BY <1>2, <1>3

LEMMA RequestAsks ==
    ASSUME IInv, AskInv, NEW c \in Clients, RequestStep(c)
    PROVE  AskInv'
<1>1. ASSUME NEW s \in Subjects, NEW r \in Roles, NEW t \in Kinds[r],
             createClaimRequest(c, s, r, t)
      PROVE  AskInv'
  <2> DEFINE o(i) == [Idle EXCEPT !.at = "checkingRequest", !.id = i, !.subject = s,
                                  !.role = r, !.types = t]
  <2>1. PICK i \in Ids : Fresh(i) /\ Await(c, o(i))
    BY <1>1 DEF createClaimRequest
  <2>2. o(i).at = "checkingRequest" /\ o(i).id = i
    BY DEF Idle
  <2> HIDE DEF o
  <2>3. QED
    BY <2>1, <2>2, NewId DEF Asked
<1>2. CASE RequestAllowed(c)
  <2> DEFINE o == [op[c] EXCEPT !.at = "postingRequest", !.requester = account[c],
                    !.agreement = IF "OnChain" \in op[c].types THEN account[c] ELSE Nobody]
  <2>1. op[c] \in Operation
    BY <1>2, BusyHasType DEF RequestAllowed, Busy, IInv
  <2>2. /\ o.at = "postingRequest" /\ o.id = op[c].id
        /\ o.subject = op[c].subject /\ o.role = op[c].role
        /\ o.agreement = IF "OnChain" \in o.types THEN o.requester ELSE Nobody
    BY <2>1 DEF Operation
  <2>3. op[c].at \in Asking /\ prerequisitesMet(op[c]) /\ Await(c, o)
    BY <1>2 DEF RequestAllowed, Asking
  <2> HIDE DEF o
  <2>4. Asked(o)
    BY <2>2, <2>3, MetIsEnrolled DEF Asked
  <2>5. Go(c, o) /\ UNCHANGED <<claims, enrolled>>
    BY <2>3 DEF Await
  <2>6. QED
    BY <2>2, <2>3, <2>4, <2>5, GoAsks DEF AskInv, OwnId
<1>3. CASE requestClaim(c)
  <2>1. op[c].id \in Ids /\ op[c].at \in Asking
    BY <1>3, AskingHasId DEF requestClaim, Asking
  <2>2. Go(c, Idle) /\ UNCHANGED enrolled
    BY <1>3 DEF requestClaim
  <2>3. \A i \in Ids \ {op[c].id} : claims'[i] = claims[i]
    BY <1>3 DEF requestClaim, IInv, TypeOK
  <2>4. \A d \in Clients \ {c} : op[d].at \in Asking => claims'[op[d].id] = claims[op[d].id]
    BY <2>1, <2>3, AskingHasId DEF AskInv, OwnId
  <2>5. QED
    BY <2>2, <2>4, IdleSigned, IdKept DEF Asking
<1>4. QED
  BY <1>1, <1>2, <1>3 DEF RequestStep

LEMMA IssueAsks ==
    ASSUME IInv, AskInv, NEW c \in Clients, IssueStep(c)
    PROVE  AskInv'
<1>1. ASSUME NEW i \in Ids, NEW p \in BOOLEAN, issueClaimRequest(c, i, p)
      PROVE  AskInv'
  <2> DEFINE o == [Idle EXCEPT !.at = "checkingIssue", !.id = i,
                    !.subject = claims[i].subject, !.role = claims[i].role,
                    !.types = claims[i].types, !.requester = claims[i].requester,
                    !.agreement = claims[i].agreement,
                    !.publishOnChain = p /\ "OnChain" \in claims[i].types]
  <2>1. o.at = "checkingIssue" /\ o.id = i
    BY DEF Idle
  <2>2. Known(i) /\ Await(c, o)
    BY <1>1 DEF issueClaimRequest
  <2> HIDE DEF o
  <2>3. QED
    BY <2>1, <2>2, NewId DEF Asked, Asking
<1>2. ASSUME NEW s \in Subjects, NEW r \in Roles, issueClaim(c, s, r)
      PROVE  AskInv'
  <2> DEFINE o(i) == [Idle EXCEPT !.at = "checkingIssue", !.id = i, !.subject = s,
                                  !.role = r, !.types = {"OffChain"}, !.requester = s]
  <2>1. PICK i \in Ids : Fresh(i) /\ Await(c, o(i))
    BY <1>2 DEF issueClaim
  <2>2. o(i).at = "checkingIssue" /\ o(i).id = i
    BY DEF Idle
  <2> HIDE DEF o
  <2>3. QED
    BY <2>1, <2>2, NewId DEF Asked
<1>3. ASSUME NEW o, Await(c, o), Busy(c), op[c] \in Operation => o.at \notin Asking /\ o.id = op[c].id
      PROVE  AskInv'
  <2>1. Go(c, o) /\ UNCHANGED <<claims, enrolled>> /\ op[c] \in Operation
    BY <1>3, BusyHasType DEF Await, IInv
  <2>2. QED
    BY <1>3, <2>1, IdKept
<1>4. CASE IssueAllowed(c)
  <2> DEFINE o == IF "OffChain" \in op[c].types
                  THEN [op[c] EXCEPT !.at = "signingToken", !.acceptedBy = account[c]]
                  ELSE [op[c] EXCEPT !.at = "signingProof", !.acceptedBy = account[c],
                                     !.proof = account[c]]
  <2>1. op[c] \in Operation => o.at \notin Asking /\ o.id = op[c].id
    BY DEF Operation, Asking
  <2>2. QED
    BY <1>3, <1>4, <2>1 DEF IssueAllowed, Busy
<1>5. CASE TokenSigned(c)
  <2> DEFINE o == IF "OnChain" \in op[c].types
                  THEN [op[c] EXCEPT !.at = "signingProof", !.proof = account[c]]
                  ELSE [op[c] EXCEPT !.at = "postingIssue"]
  <2>1. op[c] \in Operation => o.at \notin Asking /\ o.id = op[c].id
    BY DEF Operation, Asking
  <2>2. QED
    BY <1>3, <1>5, <2>1 DEF TokenSigned, Busy
<1>6. CASE ProofSigned(c)
  <2> DEFINE o == IF op[c].publishOnChain
                  THEN [op[c] EXCEPT !.at = "registering", !.registrar = account[c]]
                  ELSE [op[c] EXCEPT !.at = "postingIssue"]
  <2>1. op[c] \in Operation => o.at \notin Asking /\ o.id = op[c].id
    BY DEF Operation, Asking
  <2>2. QED
    BY <1>3, <1>6, <2>1 DEF ProofSigned, Busy
<1>7. CASE postIssue(c)
  <2>1. Go(c, Idle) /\ enrolled \subseteq enrolled' /\ op[c].at = "postingIssue"
    BY <1>7 DEF postIssue
  <2>2. \A i \in Ids \ {op[c].id} : claims'[i] = claims[i]
    BY <1>7 DEF postIssue, IInv, TypeOK
  <2>3. \A d \in Clients \ {c} : op[d].at \in Asking => claims'[op[d].id] = claims[op[d].id]
    BY <2>2, AskingHasId DEF AskInv, OwnId
  <2>4. QED
    BY <2>1, <2>3, IdleSigned, IdKept DEF Asking
<1>8. QED
  BY <1>1, <1>2, <1>4, <1>5, <1>6, <1>7 DEF IssueStep

LEMMA RegisterAsks ==
    ASSUME IInv, AskInv, NEW c \in Clients, RegisterStep(c)
    PROVE  AskInv'
<1>1. ASSUME NEW i \in Ids, registerOnchain(c, i)
      PROVE  AskInv'
  <2> DEFINE o == [Idle EXCEPT !.at = "registeringOnly",
                    !.subject = claims[i].subject, !.role = claims[i].role,
                    !.types = claims[i].types, !.agreement = claims[i].agreement,
                    !.proof = claims[i].onChainProof, !.registrar = claims[i].acceptedBy]
  <2>1. o.at \notin Asking /\ o.id = Nobody
    BY DEF Idle, Asking
  <2>2. Go(c, o) /\ UNCHANGED <<claims, enrolled>>
    BY <1>1 DEF registerOnchain, Await
  <2> HIDE DEF o
  <2>3. QED
    BY <2>1, <2>2, IdKept
<1>2. CASE Registered(c)
  <2> DEFINE o == IF op[c].at = "registering" THEN [op[c] EXCEPT !.at = "postingIssue"] ELSE Idle
  <2>1. op[c] \in Operation
    BY <1>2, BusyHasType DEF Registered, Registering, Busy, IInv
  <2>2. o.at \notin Asking /\ o.id \in {op[c].id, Nobody}
    BY <2>1 DEF Operation, Idle, Asking
  <2>3. Go(c, o) /\ UNCHANGED <<claims, enrolled>>
    BY <1>2 DEF Registered
  <2> HIDE DEF o
  <2>4. QED
    BY <2>2, <2>3, IdKept
<1>3. CASE RegisteredUnanswered(c)
  BY <1>3, IdleSigned, IdKept DEF RegisteredUnanswered, Asking
<1>4. QED
  BY <1>1, <1>2, <1>3 DEF RegisterStep

LEMMA ChangeAsks ==
    ASSUME IInv, AskInv, NEW c \in Clients, ChangeAccount(c)
    PROVE  AskInv'
<1> DEFINE o == IF op[c].acceptedBy = Nobody THEN op[c] ELSE [op[c] EXCEPT !.changed = TRUE]
<1>1. Go(c, o) /\ UNCHANGED <<claims, enrolled>>
  BY DEF ChangeAccount
<1>2. /\ o.at = op[c].at /\ o.id = op[c].id /\ o.subject = op[c].subject /\ o.role = op[c].role
      /\ o.types = op[c].types /\ o.requester = op[c].requester /\ o.agreement = op[c].agreement
  <2>1. CASE op[c] = Idle
    BY <2>1 DEF Idle
  <2>2. CASE op[c] \in Operation
    BY <2>2 DEF Operation
  <2>3. QED
    BY <2>1, <2>2 DEF IInv, TypeOK
<1> HIDE DEF o
<1>3. Asked(o)
  BY <1>2 DEF AskInv, Asked
<1>4. QED
  BY <1>1, <1>2, <1>3, GoAsks DEF AskInv, OwnId

LEMMA StepAsks == IInv /\ AskInv /\ [Next]_vars => AskInv'
<1> SUFFICES ASSUME IInv, AskInv, [Next]_vars PROVE AskInv'
  OBVIOUS
<1>1. ASSUME NEW c \in Clients, Fail(c) PROVE AskInv'
  BY <1>1, IdleSigned, IdKept DEF Fail, Asking
<1>2. ASSUME NEW i \in Ids, deleteClaim(i) PROVE AskInv'
  <2>1. \A j \in Ids : claims[j] = NoClaim => claims'[j] = NoClaim
    BY <1>2 DEF deleteClaim, IInv, TypeOK
  <2>2. UNCHANGED <<op, enrolled>>
    BY <1>2 DEF deleteClaim
  <2>3. QED
    BY <2>1, <2>2, AskingHasId DEF AskInv, OwnId, Asked
<1>3. CASE UNCHANGED vars
  BY <1>3 DEF vars, AskInv, OwnId, Asked
<1>4. QED
  BY <1>1, <1>2, <1>3, RequestAsks, IssueAsks, RegisterAsks, ChangeAsks DEF Next

(* Posting a request records it, and replaces nothing.                     *)
LEMMA PostedIsRequest ==
    ASSUME IInv, AskInv, NEW c \in Clients, requestClaim(c), NEW i, i = op[c].id
    PROVE  Contract!Request(i)
<1> DEFINE k == [NoClaim EXCEPT !.subject = op[c].subject, !.role = op[c].role,
                                !.types = op[c].types, !.requester = op[c].requester,
                                !.agreement = op[c].agreement]
<1>1. op[c] \in Operation /\ i \in Ids /\ op[c].at = "postingRequest"
  BY BusyHasType DEF requestClaim, Busy, IInv
<1>2. /\ k.subject = op[c].subject /\ k.role = op[c].role /\ k.types = op[c].types
      /\ k.requester = op[c].requester /\ k.agreement = op[c].agreement
      /\ ~k.isAccepted /\ k # NoClaim
  <2>1. k.subject = op[c].subject /\ op[c].subject # Nobody
    BY <1>1, NobodyAssumption DEF NoClaim, Operation
  <2>2. k # NoClaim
    BY <2>1 DEF NoClaim
  <2>3. QED
    BY <1>1, <2>2 DEF NoClaim, Operation
<1>3. OwnId(c) /\ Asked(op[c])
  BY DEF AskInv
<1>4. claims[i] = NoClaim
  BY <1>1, <1>3 DEF OwnId, Asking
<1>5. claims' = [claims EXCEPT ![i] = k] /\ claims \in [Ids -> Claim \cup {NoClaim}]
  BY DEF requestClaim, IInv, TypeOK
<1>6. claims'[i] = k /\ UNCHANGED <<enrolled, onChain>>
  BY <1>1, <1>5 DEF requestClaim
<1> HIDE DEF k
<1>7. Contract!OnlyChanges(i)
  BY <1>5, <1>6 DEF Contract!OnlyChanges
<1>8. /\ k.agreement = IF "OnChain" \in k.types THEN k.requester ELSE Nobody
      /\ \A q \in Requires[k.role] : <<k.subject, q>> \in enrolled
  BY <1>1, <1>2, <1>3 DEF Asked
<1>9. QED
  BY <1>2, <1>4, <1>6, <1>7, <1>8 DEF Contract!Request, Contract!Recorded, Contract!Qualified

(* Posting an issue accepts the claim that it was computed from, under the *)
(* terms that it still has, or grants it anew.                             *)
LEMMA PostedIsAccepted ==
    ASSUME IInv, NEW c \in Clients, postIssue(c), NEW i, i = op[c].id
    PROVE  /\ Contract!Accept(i) \/ Contract!Grant(i)
           /\ claims' = claims => UNCHANGED <<enrolled, onChain>>
<1> DEFINE b == IF Known(i) THEN claims[i]
                ELSE [NoClaim EXCEPT !.subject = op[c].subject, !.role = op[c].role,
                                     !.types = op[c].types, !.requester = op[c].requester]
           k == Recorded(op[c])
<1>1. op[c] \in Operation /\ i \in Ids /\ op[c].at = "postingIssue"
  BY BusyHasType DEF postIssue, Busy, IInv
<1>2. b \in Claim /\ Agree(b, op[c]) /\ (~Known(i) => b.agreement = Nobody)
  <2>1. CASE Known(i)
    BY <1>1, <2>1, KnownHasType DEF IInv, Inv, SameClaim
  <2>2. CASE ~Known(i)
    BY <1>1, <2>2 DEF NoClaim, Operation, Claim, Maybe, Agree
  <2>3. QED
    BY <2>1, <2>2
<1>3. k = [b EXCEPT !.isAccepted = TRUE, !.acceptedBy = op[c].acceptedBy,
              !.onChainProof = IF op[c].proof = Nobody THEN @ ELSE op[c].proof,
              !.changed = op[c].changed]
  BY DEF Recorded
<1>4. Known(i) => b = claims[i]
  OBVIOUS
<1>5. k # NoClaim
  <2>1. k \in Claim
    BY <1>1, RecordedHasType DEF IInv
  <2>2. QED
    BY <2>1, NobodyAssumption DEF Claim, NoClaim
<1> HIDE DEF b, k
<1>6. /\ k.subject = b.subject /\ k.role = b.role /\ k.types = b.types
      /\ k.requester = b.requester /\ k.agreement = b.agreement /\ k.isAccepted
  BY <1>2, <1>3 DEF Claim
<1>7. /\ claims' = [claims EXCEPT ![i] = k] /\ claims \in [Ids -> Claim \cup {NoClaim}]
      /\ UNCHANGED onChain /\ enrolled' = enrolled \cup {<<op[c].subject, op[c].role>>}
  BY DEF postIssue, IInv, TypeOK, k
<1>8. claims'[i] = k
  BY <1>1, <1>7
<1>9. Contract!OnlyChanges(i)
  BY <1>7, <1>8 DEF Contract!OnlyChanges
<1>10. Contract!Enrol(i)
  <2>1. k.subject = op[c].subject /\ k.role = op[c].role
    BY <1>2, <1>6 DEF Agree
  <2>2. Checked(op[c])
    BY DEF IInv, Inv, OpInv
  <2>3. \A q \in Requires[op[c].role] : <<op[c].subject, q>> \in enrolled
    BY <1>1, <2>2 DEF Checked, IssuingAt
  <2>4. QED
    BY <1>7, <1>8, <2>1, <2>3 DEF Contract!Enrol, Contract!Qualified
<1>11. ASSUME Known(i) PROVE Contract!Accept(i)
  <2>1. \A t \in Contract!Terms : claims'[i][t] = claims[i][t]
    BY <1>4, <1>6, <1>8, <1>11 DEF Contract!Terms
  <2>2. QED
    BY <1>5, <1>6, <1>7, <1>8, <1>9, <1>10, <1>11, <2>1
       DEF Contract!Accept, Contract!Recorded, Known
<1>12. ASSUME ~Known(i) PROVE Contract!Grant(i)
  BY <1>2, <1>5, <1>6, <1>7, <1>8, <1>9, <1>10, <1>12
     DEF Contract!Grant, Contract!Recorded, Known
<1>13. ASSUME claims' = claims PROVE UNCHANGED <<enrolled, onChain>>
  <2>1. claims[i] = k
    BY <1>8, <1>13
  <2>2. claims[i].isAccepted /\ claims[i].subject = op[c].subject /\ claims[i].role = op[c].role
    BY <1>2, <1>6, <2>1 DEF Agree
  <2>3. <<op[c].subject, op[c].role>> \in enrolled
    BY <1>1, <2>2 DEF IInv, Inv, ClaimInv
  <2>4. QED
    BY <1>7, <2>3
<1>14. QED
  BY <1>11, <1>12, <1>13

(* What the contract registers has its prerequisites enrolled.             *)
LEMMA RegisteredIsRegister ==
    ASSUME IInv, NEW c \in Clients, Registered(c) \/ RegisteredUnanswered(c)
    PROVE  Contract!Register(op[c].subject, op[c].role) /\ op[c].subject \in Subjects
                                                        /\ op[c].role \in Roles
<1>1. /\ Registering(c) /\ onChain' = onChain \cup {Held(c)}
      /\ UNCHANGED <<claims, enrolled>>
  BY DEF Registered, RegisteredUnanswered
<1>2. op[c] \in Operation
  BY <1>1, BusyHasType DEF Registering, Busy, IInv
<1>3. Held(c)[1] = op[c].subject /\ Held(c)[2] = op[c].role
  BY DEF Held
<1>4. \A q \in Requires[op[c].role] : <<op[c].subject, q>> \in enrolled
  BY <1>1, <1>3, HeldMeets
<1>5. QED
  BY <1>1, <1>2, <1>4 DEF Contract!Register, Contract!Qualified, Held, Operation

(* All other awaits and failures are stutters.                             *)
LEMMA OthersStutter ==
    ASSUME NEW c \in Clients,
           \/ \E s \in Subjects, r \in Roles : \E t \in Kinds[r] : createClaimRequest(c, s, r, t)
           \/ RequestAllowed(c)
           \/ \E i \in Ids, p \in BOOLEAN : issueClaimRequest(c, i, p)
           \/ \E s \in Subjects, r \in Roles : issueClaim(c, s, r)
           \/ IssueAllowed(c) \/ TokenSigned(c) \/ ProofSigned(c)
           \/ \E i \in Ids : registerOnchain(c, i)
           \/ Fail(c) \/ ChangeAccount(c)
    PROVE  UNCHANGED <<claims, enrolled, onChain>>
<1>1. ASSUME NEW o, Await(c, o) PROVE UNCHANGED <<claims, enrolled, onChain>>
  BY <1>1 DEF Await
<1>2. CASE \E s \in Subjects, r \in Roles : \E t \in Kinds[r] : createClaimRequest(c, s, r, t)
  BY <1>1, <1>2 DEF createClaimRequest
<1>3. CASE RequestAllowed(c)
  BY <1>1, <1>3 DEF RequestAllowed
<1>4. CASE \E i \in Ids, p \in BOOLEAN : issueClaimRequest(c, i, p)
  BY <1>1, <1>4 DEF issueClaimRequest
<1>5. CASE \E s \in Subjects, r \in Roles : issueClaim(c, s, r)
  BY <1>1, <1>5 DEF issueClaim
<1>6. CASE IssueAllowed(c) \/ TokenSigned(c) \/ ProofSigned(c)
  BY <1>1, <1>6 DEF IssueAllowed, TokenSigned, ProofSigned
<1>7. CASE \E i \in Ids : registerOnchain(c, i)
  BY <1>1, <1>7 DEF registerOnchain
<1>8. CASE Fail(c) \/ ChangeAccount(c)
  BY <1>8 DEF Fail, ChangeAccount
<1>9. QED
  BY <1>2, <1>3, <1>4, <1>5, <1>6, <1>7, <1>8

LEMMA StepImplements ==
    ASSUME IInv, AskInv, [Next]_vars
    PROVE  [Contract!Next]_(Contract!vars)
<1>1. ASSUME NEW c \in Clients, requestClaim(c) PROVE [Contract!Next]_(Contract!vars)
  <2>1. PICK i \in Ids : i = op[c].id
    BY <1>1, AskingHasId DEF requestClaim, Asking
  <2>2. QED
    BY <1>1, <2>1, PostedIsRequest DEF Contract!Next, Contract!Request, Contract!Recorded
<1>2. ASSUME NEW c \in Clients, postIssue(c) PROVE [Contract!Next]_(Contract!vars)
  <2>1. PICK i \in Ids : i = op[c].id
    BY <1>2, BusyHasType DEF postIssue, Busy, IInv
  <2>2. QED
    BY <1>2, <2>1, PostedIsAccepted DEF Contract!Next, Contract!vars
<1>3. ASSUME NEW c \in Clients, Registered(c) \/ RegisteredUnanswered(c)
      PROVE  [Contract!Next]_(Contract!vars)
  BY <1>3, RegisteredIsRegister DEF Contract!Next, Contract!Register, Contract!vars
<1>4. ASSUME NEW i \in Ids, deleteClaim(i) PROVE [Contract!Next]_(Contract!vars)
  <2>1. /\ claims' = [claims EXCEPT ![i] = NoClaim] /\ claims'[i] = NoClaim
        /\ claims[i] # NoClaim /\ UNCHANGED <<enrolled, onChain>>
    BY <1>4 DEF deleteClaim, Known, IInv, TypeOK
  <2>2. Contract!Delete(i)
    BY <2>1 DEF Contract!Delete, Contract!Recorded, Contract!OnlyChanges
  <2>3. QED
    BY <2>1, <2>2 DEF Contract!Next
<1>5. CASE UNCHANGED vars
  BY <1>5 DEF vars, Contract!vars
<1>6. QED
  BY <1>1, <1>2, <1>3, <1>4, <1>5, OthersStutter
     DEF Next, RequestStep, IssueStep, RegisterStep, Contract!vars

(* ClaimEnrolment implements Enrolment: whatever the interleaving of its   *)
(* awaits, failures and deletions, the cache server and the contract see   *)
(* claims whose terms are never changed, and no role without those that it *)
(* requires.                                                               *)
THEOREM Implementation == Spec => ImplementsEnrolment
<1>1. Init => Contract!Init
  BY DEF Init, Contract!Init, Contract!Recorded
<1>2. Init => AskInv
  BY IdleSigned DEF Init, AskInv, OwnId, Asked, Asking
<1>3. IInv /\ AskInv /\ [Next]_vars => [Contract!Next]_(Contract!vars)
  BY StepImplements
<1>4. QED
  BY <1>1, <1>2, <1>3, Invariance, StepAsks, PTL DEF Spec, ImplementsEnrolment, Contract!Spec
=============================================================================
