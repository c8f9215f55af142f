----------------------- MODULE ClaimPublicationProofs -----------------------
(***************************************************************************)
(* ClaimPublication for any accounts, assets, claims and calls: the types, *)
(* whose document a claim is written in, and that the id of a versioned    *)
(* claim is never taken from it.                                           *)
(***************************************************************************)
EXTENDS ClaimPublication, TLAPS

USE AccountNames, PublicationNames

(* A service of a document, or of the index, and what a call knows.        *)
SoundService(s) == s = NoService \/ s.data \in Data

SoundCall(o) ==
    /\ o.at # "resting" => o.data \in Data /\ o.subject \in Subjects
    /\ o.at \in {"resting", "verifying"} => o.id = Nobody
    /\ o.at = "reading" => o.id = Nobody /\ o.read \in Accounts
    /\ o.at \in {"askingOwned", "updating"} => o.id \in Ids
    /\ o.at = "updating" =>
          /\ o.target \in Subjects
          /\ o.target = o.subject \/ {o.target, o.subject} \subseteq Accounts

Sound ==
    /\ \A s \in Subjects, i \in Ids : SoundService(documents[s][i])
    /\ \A a \in Accounts, i \in Ids : SoundService(documentIndex[a][i])
    /\ \A k \in Calls : SoundCall(publication[k])

TInv == PublicationTypeOK /\ Sound /\ WrittenForSubject

LEMMA RestingIsSound == Resting \in Publications /\ SoundCall(Resting)
<1>1. Resting \in Publications
  BY DEF Resting, Publications
<1>2. Resting.at = "resting" /\ Resting.id = Nobody
  BY DEF Resting
<1>3. QED
  BY <1>1, <1>2 DEF SoundCall

LEMMA InitTypes == PublicationInit => TInv
<1> SUFFICES ASSUME PublicationInit PROVE TInv
  OBVIOUS
<1>1. NoService \in Services
  BY DEF NoService, Services
<1>2. PublicationTypeOK
  BY <1>1, RestingIsSound DEF PublicationInit, AccountInit, PublicationTypeOK, Resting
<1>3. Sound
  BY RestingIsSound DEF PublicationInit, Sound, SoundService
<1>4. WrittenForSubject
  BY DEF PublicationInit, WrittenForSubject
<1>5. QED
  BY <1>2, <1>3, <1>4 DEF TInv

(* A step that only takes a call to its next await.                        *)
LEMMA ContinueTypes ==
    ASSUME TInv, NEW k \in Calls, NEW o \in Publications, SoundCall(o),
           o.at # "resting" => o.subject \in Subjects,
           Continue(k, o)
    PROVE  TInv'
<1>1. PublicationTypeOK'
  BY DEF Continue, Step, accountVars, documentVars, assetVars, PublicationTypeOK, TInv
<1>2. Sound'
  BY DEF Continue, Step, documentVars, PublicationTypeOK, TInv, Sound, SoundCall, SoundService
<1>3. WrittenForSubject'
  BY DEF Continue, documentVars, TInv, WrittenForSubject
<1>4. QED
  BY <1>1, <1>2, <1>3 DEF TInv

(* Changes of the account, and of who owns an asset: documents, calls and  *)
(* the index of documents stay.                                            *)
LEMMA OthersKeep ==
    ASSUME TInv, PublicationTypeOK', UNCHANGED <<publication, documents, documentIndex>>
    PROVE  TInv'
BY DEF TInv, Sound, SoundCall, SoundService, WrittenForSubject

(* What updateDocument makes of a call that has got its id.                *)
LEMMA UpdateTypes ==
    ASSUME TInv, NEW o \in Publications, SoundCall(o), o.at = "reading", NEW i \in Ids
    PROVE  LET u == updateDocument([o EXCEPT !.id = i])
           IN  /\ u \in Publications /\ SoundCall(u)
               /\ u.data = o.data /\ u.id = i /\ u.subject = o.subject
               /\ u.at # "resting"
<1> DEFINE c == [o EXCEPT !.id = i]
           u == updateDocument(c)
<1>1. /\ account \in Accounts /\ assetsOwner \in Accounts /\ registryDid \in Accounts
      /\ o.subject \in Subjects /\ o.data \in Data
  BY DEF TInv, PublicationTypeOK, SoundCall
<1>2. c \in Publications /\ c.subject = o.subject /\ c.data = o.data /\ c.id = i
  BY DEF Publications
<1>3. CASE o.subject = account
  <2>1. u = [c EXCEPT !.at = "updating", !.target = registryDid, !.sender = registryDid]
    BY <1>2, <1>3 DEF updateDocument
  <2>2. /\ u \in Publications /\ u.at = "updating" /\ u.target = registryDid
        /\ u.subject = o.subject /\ u.data = o.data /\ u.id = i
    BY <1>1, <1>2, <2>1 DEF Publications, Subjects
  <2>3. QED
    BY <1>1, <1>3, <2>2 DEF SoundCall, Subjects
<1>4. CASE o.subject # account
  <2>1. u = [c EXCEPT !.at = "askingOwned", !.sender = assetsOwner]
    BY <1>2, <1>4 DEF updateDocument
  <2>2. /\ u \in Publications /\ u.at = "askingOwned"
        /\ u.subject = o.subject /\ u.data = o.data /\ u.id = i
    BY <1>1, <1>2, <2>1 DEF Publications
  <2>3. QED
    BY <1>1, <2>2 DEF SoundCall
<1>5. QED
  BY <1>3, <1>4

LEMMA StepTypes == TInv /\ [PublicationNext]_publicationVars => TInv'
<1> SUFFICES ASSUME TInv, [PublicationNext]_publicationVars PROVE TInv'
  OBVIOUS
<1>0. /\ account \in Accounts /\ assetsOwner \in Accounts /\ registryDid \in Accounts
      /\ \A k \in Calls : publication[k] \in Publications /\ SoundCall(publication[k])
  BY DEF TInv, PublicationTypeOK, Sound
<1>1. ASSUME NEW k \in Calls, PublishStep(k) PROVE TInv'
  <2> DEFINE o == publication[k]
  <2>0. o \in Publications /\ SoundCall(o)
    BY <1>0
  <2>1. ASSUME NEW token \in Tokens, publishPublicClaim(k, token) PROVE TInv'
    <3> DEFINE sub == IF token.sub = Nobody THEN account ELSE token.sub
               d == [Resting EXCEPT !.at = "verifying", !.data = token.claimData, !.subject = sub]
    <3>1. token.claimData \in Data /\ sub \in Subjects
      BY <1>0, PublicationData DEF Subjects
    <3> HIDE DEF sub
    <3>2. d \in Publications /\ d.at = "verifying" /\ d.data \in Data /\ d.subject \in Subjects
          /\ d.id = Nobody
      BY <3>1, RestingIsSound DEF Publications, Resting
    <3>3. SoundCall(d)
      BY <3>2 DEF SoundCall
    <3>4. Continue(k, d)
      BY <2>1 DEF publishPublicClaim, sub
    <3>5. QED
      BY <3>2, <3>3, <3>4, ContinueTypes
  <2>2. CASE Saved(k)
    <3> DEFINE d == [o EXCEPT !.at = "reading", !.read = registryDid]
    <3>1. o.at = "verifying"
      BY <2>2 DEF Saved
    <3>2. d \in Publications /\ d.at = "reading" /\ d.read = registryDid /\ d.data = o.data
          /\ d.subject = o.subject /\ d.id = o.id
      BY <1>0, <2>0 DEF Publications
    <3>3. SoundCall(d) /\ d.subject \in Subjects
      BY <1>0, <2>0, <3>1, <3>2 DEF SoundCall
    <3>4. QED
      BY <2>2, <3>2, <3>3, ContinueTypes DEF Saved
  <2>3. CASE DocumentRead(k)
    <3>1. o.at = "reading"
      BY <2>3 DEF DocumentRead
    <3>2. PICK i \in Ids : Continue(k, updateDocument([o EXCEPT !.id = i]))
      BY <2>3 DEF DocumentRead
    <3> DEFINE u == updateDocument([o EXCEPT !.id = i])
    <3>3. u \in Publications /\ SoundCall(u) /\ u.subject = o.subject /\ o.subject \in Subjects
      BY <2>0, <3>1, UpdateTypes DEF SoundCall
    <3> HIDE DEF u
    <3>4. Continue(k, u)
      BY <3>2 DEF u
    <3>5. QED
      BY <3>3, <3>4, ContinueTypes
  <2>4. CASE OwnedAnswered(k)
    <3> DEFINE d == [o EXCEPT !.at = "updating", !.target = o.subject, !.sender = registryDid]
    <3>1. o.at = "askingOwned" /\ o.subject \in Subjects
      BY <2>0, <2>4 DEF OwnedAnswered, Subjects
    <3>2. d \in Publications /\ d.at = "updating" /\ d.target = o.subject /\ d.data = o.data
          /\ d.subject = o.subject /\ d.id = o.id
      BY <1>0, <2>0, <3>1 DEF Publications
    <3>3. SoundCall(d)
      BY <2>0, <3>1, <3>2 DEF SoundCall
    <3>4. QED
      BY <2>4, <3>1, <3>2, <3>3, ContinueTypes DEF OwnedAnswered
  <2>5. CASE DocumentUpdated(k)
    <3> DEFINE d == [data |-> o.data, subject |-> o.subject]
    <3>1. /\ o.target \in Subjects /\ o.id \in Ids /\ o.data \in Data /\ o.subject \in Subjects
          /\ o.target = o.subject \/ {o.target, o.subject} \subseteq Accounts
      BY <2>0, <2>5 DEF DocumentUpdated, SoundCall
    <3>2. d \in Services /\ d.data \in Data /\ d.subject = o.subject
      BY <3>1 DEF Services
    <3> HIDE DEF d
    <3>3. /\ documents' = [documents EXCEPT ![o.target][o.id] = d]
          /\ publication' = [publication EXCEPT ![k] = Resting]
          /\ UNCHANGED <<accountVars, documentIndex, assetVars>>
      BY <2>5 DEF DocumentUpdated, Step, d
    <3>4. PublicationTypeOK'
      BY <3>1, <3>2, <3>3, RestingIsSound
         DEF TInv, PublicationTypeOK, accountVars, assetVars, Resting
    <3>5. \A s \in Subjects, i \in Ids :
             documents'[s][i] = documents[s][i] \/ (s = o.target /\ documents'[s][i] = d)
      BY <3>1, <3>3 DEF TInv, PublicationTypeOK
    <3>6. \A j \in Calls : publication'[j] \in {publication[j], Resting}
      BY <3>3 DEF TInv, PublicationTypeOK
    <3>7. Sound'
      BY <3>2, <3>3, <3>5, <3>6, RestingIsSound DEF TInv, Sound, SoundService, SoundCall
    <3>8. WrittenForSubject'
      BY <3>1, <3>2, <3>5 DEF TInv, WrittenForSubject
    <3>9. QED
      BY <3>4, <3>7, <3>8 DEF TInv
  <2>6. CASE OperationFails(k)
    BY <2>6, RestingIsSound, ContinueTypes DEF OperationFails, Resting
  <2>7. QED
    BY <1>1, <2>1, <2>2, <2>3, <2>4, <2>5, <2>6 DEF PublishStep
<1>2. ASSUME NEW a \in Assets, AssetStep(a) PROVE TInv'
  <2>1. PublicationTypeOK' /\ UNCHANGED <<publication, documents, documentIndex>>
    BY <1>0, <1>2 DEF AssetStep, registerAsset, offerAsset, cancelAssetOffer, rejectAssetOffer,
       acceptAssetOffer, ReindexAsset, OfferOf, accountVars, documentVars, TInv,
       PublicationTypeOK
  <2>2. QED
    BY <2>1, OthersKeep
<1>3. ASSUME NEW a \in Accounts, ReindexDocument(a) PROVE TInv'
  <2>1. a \in Subjects /\ documents[a] \in [Ids -> Services]
    BY DEF TInv, PublicationTypeOK, Subjects
  <2>2. PublicationTypeOK'
    BY <1>3, <2>1 DEF ReindexDocument, accountVars, assetVars, TInv, PublicationTypeOK
  <2>3. \A b \in Accounts : documentIndex'[b] = documentIndex[b]
                             \/ (b = a /\ documentIndex'[b] = documents[a])
    BY <1>3 DEF ReindexDocument, TInv, PublicationTypeOK
  <2>4. Sound'
    BY <1>3, <2>1, <2>3 DEF ReindexDocument, TInv, Sound, SoundCall, SoundService
  <2>5. WrittenForSubject'
    BY <1>3 DEF ReindexDocument, TInv, WrittenForSubject
  <2>6. QED
    BY <2>2, <2>4, <2>5 DEF TInv
<1>4. CASE AccountChanges \/ InitAssets \/ InitDidRegistry
  <2>1. PublicationTypeOK' /\ UNCHANGED <<publication, documents, documentIndex>>
    BY <1>0, <1>4 DEF AccountChanges, InitAssets, InitDidRegistry, ChangeAccount, documentVars,
       assetVars, TInv, PublicationTypeOK
  <2>2. QED
    BY <2>1, OthersKeep
<1>5. CASE UNCHANGED publicationVars
  <2>1. PublicationTypeOK' /\ UNCHANGED <<publication, documents, documentIndex>>
    BY <1>5 DEF publicationVars, accountVars, documentVars, assetVars, TInv, PublicationTypeOK
  <2>2. QED
    BY <2>1, OthersKeep
<1>6. QED
  BY <1>1, <1>2, <1>3, <1>4, <1>5 DEF PublicationNext

LEMMA Types == PublicationSpec => []TInv
BY InitTypes, StepTypes, PTL DEF PublicationSpec

(* Every variable keeps its type, and an operation under way has a subject.*)
THEOREM TypeCorrect == PublicationSpec => []PublicationTypeOK
<1>1. TInv => PublicationTypeOK
  BY DEF TInv
<1>2. QED
  BY <1>1, Types, PTL

(* However the account changes under publications, a claim about an asset  *)
(* is written in the asset's document, and only such a claim is.           *)
THEOREM ClaimsReachSubjects == PublicationSpec => []WrittenForSubject
<1>1. TInv => WrittenForSubject
  BY DEF TInv
<1>2. QED
  BY <1>1, Types, PTL
-----------------------------------------------------------------------------
(* The claims that have the id i: in a document, in the index, or in a     *)
(* call that is going to write it.  No other shares it with a versioned    *)
(* one.                                                                    *)
UsedFor(i, d) ==
    \/ \E s \in Subjects : documents[s][i] # NoService /\ documents[s][i].data = d
    \/ \E a \in Accounts : documentIndex[a][i] # NoService /\ documentIndex[a][i].data = d
    \/ \E k \in Calls : publication[k].id = i /\ publication[k].data = d

IsVersioned(d) == d.type # Nobody /\ d.version # Nobody

IdsApart ==
    \A i \in Ids, d, e \in Data : UsedFor(i, d) /\ UsedFor(i, e) /\ IsVersioned(d) => d = e

(* The id that getClaimId finds is new, or of the same claim, or neither   *)
(* it nor what had the id before is versioned.                             *)
LEMMA IdFits ==
    ASSUME TInv, IdsApart, NEW document, NEW data \in Data, NEW i \in Ids,
           \A j \in Ids : document[j] # NoService =>
                             document[j].data \in Data /\ UsedFor(j, document[j].data),
           getClaimId(document, data, i)
    PROVE  \A e \in Data : UsedFor(i, e) /\ (IsVersioned(data) \/ IsVersioned(e)) => e = data
<1> SUFFICES ASSUME NEW e \in Data, UsedFor(i, e), IsVersioned(data) \/ IsVersioned(e)
             PROVE  e = data
  OBVIOUS
<1>1. CASE New(i)
  BY <1>1 DEF New, UsedFor
<1>2. CASE Matches(document[i], data) /\ IsOf(document[i], data)
  <2> DEFINE s == document[i]
  <2>1. s.data \in Data /\ UsedFor(i, s.data)
    BY <1>2 DEF Matches
  <2>2. \A d \in Data : /\ d.profile \in BOOLEAN
                        /\ d.profile => d.type = Nobody /\ d.version = Nobody
    BY PublicationData
  <2>3. IsVersioned(data) => IsVersioned(s.data)
    BY <1>2, <2>1, <2>2 DEF Matches, IsOf, IsVersioned
  <2>4. IsVersioned(s.data) => s.data = data
    <3>1. SUFFICES ASSUME IsVersioned(s.data) PROVE s.data = data
      OBVIOUS
    <3>2. ~s.data.profile /\ s.data.type = data.type /\ s.data.version = data.version
      BY <1>2, <2>1, <2>2, <3>1 DEF Matches, IsVersioned
    <3>3. ~data.profile
      BY <2>2, <3>1, <3>2 DEF IsVersioned
    <3>4. s.data.profile = data.profile
      BY <2>1, <2>2, <3>2, <3>3
    <3>5. QED
      BY <2>1, <3>2, <3>4, PublicationData
  <2>5. IsVersioned(s.data) => e = s.data
    BY <2>1 DEF IdsApart
  <2>6. IsVersioned(e) => e = s.data
    BY <2>1 DEF IdsApart
  <2>7. QED
    BY <2>3, <2>4, <2>5, <2>6
<1>3. QED
  BY <1>1, <1>2 DEF getClaimId

(* No step but the reading of a document makes an id used for a claim that *)
(* it was not used for.                                                    *)
LEMMA UsesOnlyEnd ==
    ASSUME TInv, IdsApart,
           \A i \in Ids, d \in Data : UsedFor(i, d)' => UsedFor(i, d)
    PROVE  IdsApart'
BY DEF IdsApart, IsVersioned

LEMMA ContinueUses ==
    ASSUME TInv, NEW k \in Calls, NEW o \in Publications, Continue(k, o),
           NEW i \in Ids, NEW d \in Data, UsedFor(i, d)'
    PROVE  UsedFor(i, d) \/ (o.id = i /\ o.data = d)
<1>1. documents' = documents /\ documentIndex' = documentIndex
  BY DEF Continue, documentVars
<1>2. \A j \in Calls : publication'[j] \in {publication[j], o}
  BY DEF Continue, Step, TInv, PublicationTypeOK
<1>3. QED
  BY <1>1, <1>2 DEF UsedFor

LEMMA ApartStep == TInv /\ TInv' /\ IdsApart /\ [PublicationNext]_publicationVars => IdsApart'
<1> SUFFICES ASSUME TInv, TInv', IdsApart, [PublicationNext]_publicationVars PROVE IdsApart'
  OBVIOUS
<1>0. \A k \in Calls : publication[k] \in Publications /\ SoundCall(publication[k])
  BY DEF TInv, PublicationTypeOK, Sound
<1>1. ASSUME NEW k \in Calls, PublishStep(k) PROVE IdsApart'
  <2> DEFINE o == publication[k]
  <2>0. o \in Publications /\ SoundCall(o)
    BY <1>0
  <2>1. ASSUME NEW q, Continue(k, q), q.id = Nobody \/ (q.id = o.id /\ q.data = o.data)
        PROVE  IdsApart'
    <3>0. q \in Publications
      <4>1. publication'[k] = q /\ publication'[k] \in Publications
        BY <2>1 DEF Continue, Step, TInv, PublicationTypeOK
      <4>2. QED
        BY <4>1
    <3>1. ASSUME NEW i \in Ids, NEW d \in Data, UsedFor(i, d)' PROVE UsedFor(i, d)
      <4>1. UsedFor(i, d) \/ (q.id = i /\ q.data = d)
        BY <2>1, <3>0, <3>1, ContinueUses
      <4>2. i # Nobody
        OBVIOUS
      <4>3. QED
        BY <2>1, <4>1, <4>2 DEF UsedFor
    <3>2. QED
      BY <3>1, UsesOnlyEnd
  <2>2. ASSUME NEW token \in Tokens, publishPublicClaim(k, token) PROVE IdsApart'
    <3> DEFINE q == [Resting EXCEPT !.at = "verifying", !.data = token.claimData,
                        !.subject = IF token.sub = Nobody THEN account ELSE token.sub]
    <3>1. q.id = Nobody
      BY DEF Resting
    <3>2. Continue(k, q)
      BY <2>2 DEF publishPublicClaim
    <3> HIDE DEF q
    <3>3. QED
      BY <2>1, <3>1, <3>2
  <2>3. CASE Saved(k)
    <3> DEFINE q == [o EXCEPT !.at = "reading", !.read = registryDid]
    <3>1. q.id = o.id /\ q.data = o.data
      BY <2>0 DEF Publications
    <3>2. Continue(k, q)
      BY <2>3 DEF Saved
    <3> HIDE DEF q
    <3>3. QED
      BY <2>1, <3>1, <3>2
  <2>4. CASE DocumentRead(k)
    <3>1. o.at = "reading" /\ o.read \in Accounts /\ o.data \in Data
      BY <2>0, <2>4 DEF DocumentRead, SoundCall
    <3>2. PICK document \in {documentIndex[o.read], documents[o.read]}, i \in Ids :
             /\ getClaimId(document, o.data, i)
             /\ Continue(k, updateDocument([o EXCEPT !.id = i]))
      BY <2>4 DEF DocumentRead
    <3> DEFINE q == updateDocument([o EXCEPT !.id = i])
    <3>3. q \in Publications /\ q.data = o.data /\ q.id = i
      BY <2>0, <3>1, UpdateTypes
    <3>4. Continue(k, q)
      BY <3>2
    <3> HIDE DEF q
    <3>5. \A j \in Ids : document[j] # NoService =>
                             document[j].data \in Data /\ UsedFor(j, document[j].data)
      BY <3>1, <3>2 DEF TInv, Sound, SoundService, UsedFor, Subjects
    <3>6. \A e \in Data : UsedFor(i, e) /\ (IsVersioned(o.data) \/ IsVersioned(e)) => e = o.data
      BY <3>1, <3>2, <3>5, IdFits
    <3>7. \A j \in Ids, d \in Data : UsedFor(j, d)' => UsedFor(j, d) \/ (j = i /\ d = o.data)
      BY <3>3, <3>4, ContinueUses
    <3>8. \A j \in Ids, d, e \in Data :
             UsedFor(j, d)' /\ UsedFor(j, e)' /\ IsVersioned(d) => d = e
      BY <3>1, <3>6, <3>7 DEF IdsApart
    <3>9. QED
      BY <3>8 DEF IdsApart, IsVersioned
  <2>5. CASE OwnedAnswered(k)
    <3> DEFINE q == [o EXCEPT !.at = "updating", !.target = o.subject, !.sender = registryDid]
    <3>1. q.id = o.id /\ q.data = o.data
      BY <2>0 DEF Publications
    <3>2. Continue(k, q)
      BY <2>5 DEF OwnedAnswered
    <3> HIDE DEF q
    <3>3. QED
      BY <2>1, <3>1, <3>2
  <2>6. CASE DocumentUpdated(k)
    <3> DEFINE t == [data |-> o.data, subject |-> o.subject]
    <3>1. /\ documents' = [documents EXCEPT ![o.target][o.id] = t]
          /\ publication' = [publication EXCEPT ![k] = Resting]
          /\ documentIndex' = documentIndex
      BY <2>6 DEF DocumentUpdated, Step
    <3>2. t.data = o.data /\ Resting.id = Nobody
      BY DEF Resting
    <3> HIDE DEF t
    <3>3. \A s \in Subjects, i \in Ids :
             documents'[s][i] = documents[s][i] \/ (i = o.id /\ documents'[s][i] = t)
      BY <3>1 DEF TInv, PublicationTypeOK
    <3>4. \A j \in Calls : publication'[j] \in {publication[j], Resting}
      BY <3>1 DEF TInv, PublicationTypeOK
    <3>5. ASSUME NEW i \in Ids, NEW d \in Data, UsedFor(i, d)' PROVE UsedFor(i, d)
      <4>1. i # Nobody
        OBVIOUS
      <4>2. QED
        BY <3>1, <3>2, <3>3, <3>4, <3>5, <4>1 DEF UsedFor
    <3>6. QED
      BY <3>5, UsesOnlyEnd
  <2>7. CASE OperationFails(k)
    BY <2>1, <2>7, RestingIsSound DEF OperationFails, Resting
  <2>8. QED
    BY <1>1, <2>2, <2>3, <2>4, <2>5, <2>6, <2>7 DEF PublishStep
<1>2. ASSUME NEW a \in Accounts, ReindexDocument(a) PROVE IdsApart'
  <2>1. \A b \in Accounts : documentIndex'[b] \in {documentIndex[b], documents[a]}
    BY <1>2 DEF ReindexDocument, TInv, PublicationTypeOK
  <2>2. a \in Subjects /\ documents' = documents /\ publication' = publication
    BY <1>2 DEF ReindexDocument, Subjects
  <2>3. ASSUME NEW i \in Ids, NEW d \in Data, UsedFor(i, d)' PROVE UsedFor(i, d)
    BY <2>1, <2>2, <2>3 DEF UsedFor
  <2>4. QED
    BY <2>3, UsesOnlyEnd
<1>3. CASE UNCHANGED <<publication, documents, documentIndex>>
  BY <1>3 DEF IdsApart, UsedFor, IsVersioned
<1>4. QED
  BY <1>1, <1>2, <1>3 DEF PublicationNext, AssetStep, registerAsset, offerAsset,
     cancelAssetOffer, rejectAssetOffer, acceptAssetOffer, ReindexAsset, OfferOf, accountVars,
     documentVars, assetVars, AccountChanges, InitAssets, InitDidRegistry, publicationVars

LEMMA InitApart == PublicationInit => IdsApart
<1> SUFFICES ASSUME PublicationInit PROVE IdsApart
  OBVIOUS
<1>1. ASSUME NEW i \in Ids, NEW d \in Data PROVE ~UsedFor(i, d)
  BY DEF PublicationInit, UsedFor, Resting
<1>2. QED
  BY <1>1 DEF IdsApart

LEMMA WrittenIsUsed ==
    ASSUME TInv, [PublicationNext]_publicationVars,
           NEW t \in Subjects, NEW i \in Ids, documents'[t][i] # NoService
    PROVE  documents'[t][i].data \in Data /\ UsedFor(i, documents'[t][i].data)
<1>1. CASE documents' = documents
  BY <1>1 DEF TInv, Sound, SoundService, UsedFor
<1>2. ASSUME NEW k \in Calls, DocumentUpdated(k)
      PROVE  documents'[t][i].data \in Data /\ UsedFor(i, documents'[t][i].data)
  <2> DEFINE o == publication[k]
             d == [data |-> o.data, subject |-> o.subject]
  <2>1. o.data \in Data /\ o.id \in Ids
    BY <1>2 DEF DocumentUpdated, TInv, Sound, SoundCall
  <2>2. d.data = o.data
    OBVIOUS
  <2>3. documents' = [documents EXCEPT ![o.target][o.id] = d]
    BY <1>2 DEF DocumentUpdated
  <2> HIDE DEF d
  <2>4. documents'[t][i] = documents[t][i] \/ (i = o.id /\ documents'[t][i] = d)
    BY <2>3 DEF TInv, PublicationTypeOK
  <2>5. CASE documents'[t][i] = documents[t][i]
    BY <2>5 DEF TInv, Sound, SoundService, UsedFor
  <2>6. CASE i = o.id /\ documents'[t][i] = d
    BY <2>1, <2>2, <2>6 DEF UsedFor
  <2>7. QED
    BY <2>4, <2>5, <2>6
<1>3. QED
  BY <1>1, <1>2 DEF PublicationNext, PublishStep, publishPublicClaim, Saved, DocumentRead,
     OwnedAnswered, OperationFails, Continue, AssetStep, registerAsset, offerAsset,
     cancelAssetOffer, rejectAssetOffer, acceptAssetOffer, ReindexAsset, ReindexDocument, OfferOf,
     documentVars, AccountChanges, InitAssets, InitDidRegistry, publicationVars

(* For any overlap of publications, any delay of the index and any changes *)
(* of the account, no other claim ever takes the id of a versioned one, in *)
(* whichever document.                                                     *)
THEOREM VersionedClaimsKeepIds == PublicationSpec => VersionedClaimKeepsId
<1>1. TInv /\ IdsApart /\ [PublicationNext]_publicationVars =>
         [\A s, t \in Subjects, i \in Ids :
             Versioned(documents[s][i]) /\ documents'[t][i] # NoService =>
                 documents'[t][i].data = documents[s][i].data]_documents
  <2> SUFFICES ASSUME TInv, IdsApart, [PublicationNext]_publicationVars,
                      NEW s \in Subjects, NEW t \in Subjects, NEW i \in Ids,
                      Versioned(documents[s][i]), documents'[t][i] # NoService
               PROVE  documents'[t][i].data = documents[s][i].data
    OBVIOUS
  <2>1. documents'[t][i].data \in Data /\ UsedFor(i, documents'[t][i].data)
    BY WrittenIsUsed
  <2>2. /\ documents[s][i].data \in Data /\ UsedFor(i, documents[s][i].data)
        /\ IsVersioned(documents[s][i].data)
    BY DEF Versioned, IsVersioned, TInv, Sound, SoundService, UsedFor
  <2>3. QED
    BY <2>1, <2>2 DEF IdsApart
<1>2. PublicationSpec => []IdsApart
  BY InitApart, ApartStep, Types, PTL DEF PublicationSpec
<1>3. QED
  BY <1>1, <1>2, Types, PTL DEF PublicationSpec, VersionedClaimKeepsId
=============================================================================
