-------------------------- MODULE ClaimPublication --------------------------
(***************************************************************************)
(* Publication of claims in DID documents: publishPublicClaim and          *)
(* getClaimId (modules/claims/claims.service.ts), getDidDocument and       *)
(* updateDocument (modules/didRegistry/didRegistry.service.ts), and the    *)
(* assets (modules/assets/assets.service.ts), which have documents that    *)
(* their owners write.                                                     *)
(*                                                                         *)
(* Calls of one instance of the library overlap: each reads a document,    *)
(* and writes one later, which may be another.  Meanwhile the account of   *)
(* the user may change, in SignerService first, then in AssetsService,     *)
(* then in DidRegistry.  Contracts, IPFS and the index that the cache      *)
(* server answers from are external.                                       *)
(***************************************************************************)
EXTENDS Account, Naturals

CONSTANTS
    Assets,             \* assets there may be: bounds them
    Data,               \* claimData of tokens: profile, claimType, claimTypeVersion
    Tokens,             \* the tokens that are published: bounds them
    Ids                 \* ids of services: bounds how many there can be

(* An account, or an asset, names its DID and its document.                *)
Subjects == Accounts \cup Assets

ASSUME PublicationNames ==
    /\ Accounts \cap Assets = {}
    /\ Nobody \notin Assets \cup Ids \cup Data
(* A claim is a profile or has a type, as all those are that the           *)
(* repository publishes.  ClaimData would allow both in one: such a claim  *)
(* could take the id of a versioned one.                                   *)
ASSUME PublicationData ==
    /\ \A d \in Data : d.profile \in BOOLEAN /\ (d.profile => d.type = Nobody /\ d.version = Nobody)
    /\ \A d, e \in Data :
          d.profile = e.profile /\ d.type = e.type /\ d.version = e.version => d = e
    /\ Tokens \subseteq [claimData : Data, sub : Subjects \cup {Nobody}]

VARIABLES
    assetsOwner,        \* AssetsService: _owner and _did
    registryDid,        \* DidRegistry: _did, _document and _identityOwner
    publication,        \* the operations under way
    documents,          \* DID contracts: the services of each document, by id
    documentIndex,      \* those of accounts, as the cache server knows them
    owner,              \* asset contracts
    offeredTo,
    ownerIndex          \* the owners as the cache server knows them

accountVars == <<account, assetsOwner, registryDid>>
documentVars == <<documents, documentIndex>>
assetVars == <<owner, offeredTo, ownerIndex>>
publicationVars == <<accountVars, publication, documentVars, assetVars>>

NoService == [data |-> Nobody, subject |-> Nobody]

Resting == [at |-> "resting", data |-> Nobody, subject |-> Nobody, read |-> Nobody,
            id |-> Nobody, target |-> Nobody, sender |-> Nobody]

PublicationInit ==
    /\ AccountInit
    /\ assetsOwner = FirstAccount
    /\ registryDid = FirstAccount
    /\ publication = [k \in Calls |-> Resting]
    /\ documents = [s \in Subjects |-> [i \in Ids |-> NoService]]
    /\ documentIndex = [a \in Accounts |-> [i \in Ids |-> NoService]]
    /\ owner = [a \in Assets |-> Nobody]
    /\ offeredTo = [a \in Assets |-> Nobody]
    /\ ownerIndex = [a \in Assets |-> Nobody]

Step(k, o) == publication' = [publication EXCEPT ![k] = o]

(* The operation goes on to its next await, with nothing written yet.      *)
Continue(k, o) == Step(k, o) /\ UNCHANGED <<accountVars, documentVars, assetVars>>

----------------------------------------------------------------------------
(* getClaimId(): the id of the first service that matches, in whatever     *)
(* order the document has them, if it is of the claim; or else a new one.  *)

Matches(s, data) ==
    /\ s # NoService
    /\ \/ s.data.profile
       \/ s.data.type = data.type /\ s.data.version = data.version

IsOfType(s, data) == data.profile \/ data.type # Nobody         \* mutant: version not compared

IsOf(s, data) ==
    \/ data.profile
    \/ data.type # Nobody /\ data.version = s.data.version

New(i) ==
    /\ \A s \in Subjects : documents[s][i] = NoService
    /\ \A a \in Accounts : documentIndex[a][i] = NoService
    /\ \A k \in Calls : publication[k].id # i

getClaimId(document, data, i) ==
    LET matching == {j \in Ids : Matches(document[j], data)}
    IN  \/ i \in matching /\ IsOf(document[i], data)
        \/ New(i) /\ (matching = {} \/ \E j \in matching : ~IsOf(document[j], data))

----------------------------------------------------------------------------
(* publishPublicClaim().  The subject of a token without one is the        *)
(* account of now; the token is verified and saved.                        *)
publishOfNobody(k, token) ==    \* mutant: no subject unless the token has one
    /\ publication[k].at = "resting"
    /\ Continue(k, [Resting EXCEPT !.at = "verifying", !.data = token.claimData,
                        !.subject = token.sub])

publishPublicClaim(k, token) ==
    /\ publication[k].at = "resting"
    /\ Continue(k, [Resting EXCEPT !.at = "verifying", !.data = token.claimData,
                        !.subject = IF token.sub = Nobody THEN account ELSE token.sub])

(* getClaimId() reads the document of DidRegistry, whoever the subject is. *)
Saved(k) ==
    /\ publication[k].at = "verifying"
    /\ Continue(k, [publication[k] EXCEPT !.at = "reading", !.read = registryDid])

updateOwnDocument(o) ==         \* mutant: whoever the subject is
    [o EXCEPT !.at = "updating", !.target = registryDid, !.sender = registryDid]

(* updateDocument(): DidRegistry's own document, if the subject is the     *)
(* account of now; or else that of an asset, if it turns out to be owned.  *)
updateDocument(o) ==
    IF o.subject = account
    THEN [o EXCEPT !.at = "updating", !.target = registryDid, !.sender = registryDid]
    ELSE [o EXCEPT !.at = "askingOwned", !.sender = assetsOwner]

(* The cache server answers, or the contract is read because it did not.   *)
DocumentRead(k) ==
    LET o == publication[k]
    IN  /\ o.at = "reading"
        /\ \E document \in {documentIndex[o.read], documents[o.read]}, i \in Ids :
              /\ getClaimId(document, o.data, i)
              /\ Continue(k, updateDocument([o EXCEPT !.id = i]))

(* getOwnedAssets(): what the index has for AssetsService's account.       *)
OwnedAnswered(k) ==
    LET o == publication[k]
    IN  /\ o.at = "askingOwned"
        /\ o.subject \in Assets /\ ownerIndex[o.subject] = o.sender
        /\ Continue(k, [o EXCEPT !.at = "updating", !.target = o.subject,
                                 !.sender = registryDid])

(* The contracts let an account write its document, and an asset's owner   *)
(* that of the asset.                                                      *)
Controls(a, s) == IF s \in Assets THEN owner[s] = a ELSE s = a

DocumentUpdated(k) ==
    LET o == publication[k]
    IN  /\ o.at = "updating"
        /\ Controls(o.sender, o.target)
        /\ documents' = [documents EXCEPT ![o.target][o.id] =
                            [data |-> o.data, subject |-> o.subject]]
        /\ Step(k, Resting)
        /\ UNCHANGED <<accountVars, documentIndex, assetVars>>

(* Whatever is awaited fails, the transaction reverts, or the subject is   *)
(* no asset of the account (CAN_NOT_UPDATE_NOT_CONTROLLED_DOCUMENT).       *)
OperationFails(k) == publication[k].at # "resting" /\ Continue(k, Resting)

----------------------------------------------------------------------------
(* One transaction each, of the account of now; but registerAsset() makes  *)
(* AssetsService's account the owner.  Afterwards it asks the cache server *)
(* for the asset for a while, and returns whether or not it is known.      *)
registerAsset(a) ==
    /\ owner[a] = Nobody
    /\ owner' = [owner EXCEPT ![a] = assetsOwner]
    /\ UNCHANGED <<accountVars, publication, documentVars, offeredTo, ownerIndex>>

OfferOf(a, to) ==
    /\ offeredTo' = [offeredTo EXCEPT ![a] = to]
    /\ UNCHANGED <<accountVars, publication, documentVars, ownerIndex>>

offerAsset(a, to) == owner[a] = account /\ OfferOf(a, to) /\ UNCHANGED owner

cancelAssetOffer(a) ==
    owner[a] = account /\ offeredTo[a] # Nobody /\ OfferOf(a, Nobody) /\ UNCHANGED owner

rejectAssetOffer(a) ==
    offeredTo[a] = account /\ OfferOf(a, Nobody) /\ UNCHANGED owner

acceptAssetOffer(a) ==
    /\ offeredTo[a] = account
    /\ owner' = [owner EXCEPT ![a] = account]
    /\ OfferOf(a, Nobody)

----------------------------------------------------------------------------
(* The account changes: SignerService, and the initializers after it, whose *)
(* own awaits are in SignerSession.                                        *)

AccountChanges ==
    /\ ChangeAccount
    /\ UNCHANGED <<assetsOwner, registryDid, publication, documentVars, assetVars>>

InitAssets ==
    /\ assetsOwner' = account
    /\ UNCHANGED <<account, registryDid, publication, documentVars, assetVars>>

InitDidRegistry ==
    /\ registryDid' = account
    /\ UNCHANGED <<account, assetsOwner, publication, documentVars, assetVars>>

ReindexDocument(a) ==
    /\ documentIndex' = [documentIndex EXCEPT ![a] = documents[a]]
    /\ UNCHANGED <<accountVars, publication, documents, assetVars>>

ReindexAsset(a) ==
    /\ ownerIndex' = [ownerIndex EXCEPT ![a] = owner[a]]
    /\ UNCHANGED <<accountVars, publication, documentVars, owner, offeredTo>>

----------------------------------------------------------------------------
PublishStep(k) ==
    \/ \E token \in Tokens : publishPublicClaim(k, token)
    \/ Saved(k) \/ DocumentRead(k) \/ OwnedAnswered(k) \/ DocumentUpdated(k)
    \/ OperationFails(k)

AssetStep(a) ==
    \/ registerAsset(a)
    \/ \E to \in Accounts : offerAsset(a, to)
    \/ cancelAssetOffer(a) \/ rejectAssetOffer(a) \/ acceptAssetOffer(a)
    \/ ReindexAsset(a)

PublicationNext ==
    \/ \E k \in Calls : PublishStep(k)
    \/ \E a \in Assets : AssetStep(a)
    \/ \E a \in Accounts : ReindexDocument(a)
    \/ AccountChanges \/ InitAssets \/ InitDidRegistry

PublicationSpec == PublicationInit /\ [][PublicationNext]_publicationVars

----------------------------------------------------------------------------
Services == [data : Data \cup {Nobody}, subject : Subjects \cup {Nobody}]

Publications ==
    [at : {"resting", "verifying", "reading", "askingOwned", "updating"},
     data : Data \cup {Nobody}, subject : Subjects \cup {Nobody}, read : Accounts \cup {Nobody},
     id : Ids \cup {Nobody}, target : Subjects \cup {Nobody},
     sender : Accounts \cup {Nobody}]

PublicationTypeOK ==
    /\ account \in Accounts /\ assetsOwner \in Accounts /\ registryDid \in Accounts
    /\ publication \in [Calls -> Publications]
    /\ \A k \in Calls : publication[k].at # "resting" => publication[k].subject \in Subjects
    /\ documents \in [Subjects -> [Ids -> Services]]
    /\ documentIndex \in [Accounts -> [Ids -> Services]]
    /\ owner \in [Assets -> Accounts \cup {Nobody}]
    /\ offeredTo \in [Assets -> Accounts \cup {Nobody}]
    /\ ownerIndex \in [Assets -> Accounts \cup {Nobody}]

(* The id for an asset's document comes from the account's own, so several *)
(* documents may have the same id.  However publications overlap, and      *)
(* whatever the index has missed, the id of a claim of a role in a version *)
(* stays with it in all documents: no other claim ever takes its place.    *)
(* (An unversioned claim and a profile do overwrite each other.)           *)
Versioned(s) == s # NoService /\ s.data.type # Nobody /\ s.data.version # Nobody

VersionedClaimKeepsId ==
    [][\A s, t \in Subjects, i \in Ids :
          Versioned(documents[s][i]) /\ documents'[t][i] # NoService =>
              documents'[t][i].data = documents[s][i].data]_documents

(* A claim is written in the document of its subject, also when the        *)
(* account changes under the publication; but while DidRegistry lags       *)
(* behind, that of one account may go to another's.  A claim of an asset   *)
(* is in the asset's document only, and no other claim is there.           *)
WrittenForSubject ==
    \A s \in Subjects, i \in Ids :
        documents[s][i] # NoService =>
            \/ documents[s][i].subject = s
            \/ {documents[s][i].subject, s} \subseteq Accounts
=============================================================================
