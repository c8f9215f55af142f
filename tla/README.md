# A verification project for iam-client-lib

TLA+ modules for the TypeScript library in `src/` of this repository (the
client of an identity and access management system: an Ethereum signer, a cache
server, an ENS registry of organizations, applications and roles, DID documents
and claims), TLC configurations that check them on small instances, and proofs
that TLAPS checks for instances of any size.

All line numbers below are of files under `src/src/modules/`, unless a path says
otherwise.

## 1. The system

The library runs in one JavaScript thread, in a browser or in Node. Nothing
preempts a function, but every `await` on something outside the program lets
other callbacks in: answers of the cache server, events of the wallet, other
calls of the application. Nothing is persisted by the library itself (a browser
keeps the session cookie); the registry, the resolver and the DID registry are
contracts, and the cache server indexes what happens there.

| component | state it keeps | operations | interacts with |
|---|---|---|---|
| `SignerService` (signer) | signer, address, chain, public key, identity token, list of initializers, wallet listeners | `init`, `connect`, `emit`/`on`, `publicKey`, `publicKeyAndIdentityToken`, `send` | calls `init` of every service registered by `onInit`; wallet extension |
| `CacheClient` (cacheClient) | HTTP client, `isAuthenticating`, `failedRequests`, `refresh_token` | `authenticate`, `handleError` (response interceptor), `login`, some 40 API methods | cache server; asks `SignerService` for the identity token |
| `DomainsService` (domains) | copy of the account; contracts of the chain | create, transfer, delete organizations, applications, roles; definitions | registry and resolver through `SignerService.send`; cache server for what exists |
| `ClaimsService` (claims) | none of its own | request, issue, register on chain, reject, publish, prove | cache server, DID registry, claim manager contract |
| `DidRegistry` (didRegistry) | DID, operator, documents, claims, store | `init`, `getDidDocument`, `updateDocument`, claims | DID contract, IPFS, cache server |
| `StakingService`, `StakingPoolService` (staking) | pool of the user | launch pools, stake, withdraw | staking contracts |
| `AssetsService` (assets) | copy of the account | register, offer, accept, reject, cancel | asset contracts, cache server |
| `MessagingService` (messaging) | NATS connection, subscriptions | `init`, subscribe, publish | NATS server |
| `changeResolver` (`src/src/utils/change_resolver.ts`) | owners, in memory | moves a tree of namespaces to a new resolver | registry, both resolvers |

What is hard here:

* authentication: requests that are refused together share one authentication,
  which itself sends requests through the same interceptor, may throw, and may
  run beside the one that `login()` starts;
* the account: it changes under running operations, by `connect` or by an event
  of the extension; five services copy it, one after the other, and a token
  signed for it is cached;
* operations of several transactions: any may revert, its answer may be lost,
  the user may stop; the state that decides was read before the first one, part
  of it from an index that follows the registry with a delay.

What makes each component correct: no request is lost, resent twice or waited
for in vain (cache client); all services act for the account of the signer and
log in as it (signer); an operation that stopped in the middle can be finished
and has not taken away the parent of something registered (domains); nobody is
enrolled before the roles that his role requires, and what is on chain is what
was issued (claims); a claim is published in the document of its subject, and
does not take another's place (claims, DID registry, assets); a stake leaves
enough for gas, and a delay that was answered is neither too long nor too short
(staking); a subscription that is wanted is delivered (messaging); owners get
their namespaces back (resolver migration).

## 2. Modules

### `ApiCall`, `CacheAuth`: cacheClient.service.ts

`ApiCall` is what the interceptor promises the caller of an API request: it is
delivered once, at most once more, and has one outcome. (A request whose caller
has been told of a failure may still be delivered a second time: its retry stays
in the queue when the authentication throws. `ApiCall` allows it, because the
code does it.)

`CacheAuth` is the code. `request` is what the caller of a request sees;
`failedRequests` the queue, with a callback named by its request (a request is
refused once, so it has one); `isAuthenticating` the flag; `phase[p]` the await
that a call of `authenticate()` is at, where `p` is the request whose
`handleError` called it, or a call of `login()`; `resend` the second delivery.
An action is the code between two awaits. `Refuse`, `QueueBehind` and
`QueueAndAuthenticate` are the three ways through `handleError` (85-110) on a
401 or 403; `Resume` is the end of the third, once `authenticate()` returns;
`RefreshOk` to `LoginFail` are the awaits of `authenticate()` (51-76) with the
two ways each can go. `RunQueue` is line 75: no callback returns a value, so
the filter empties the queue. `Throw` is what an exception leaves: nothing after
the await at line 104 runs. `AfterFailure` sends a refused inner request through
the interceptor too; the excluded urls make it return. `Reinit` is the
initializer that `SignerService` runs, which may move to a chain with or
without authentication.

`header` and `refresh_token` are the token the client sends and the one it keeps
to refresh, each named by the call of `authenticate()` and the answer, a refresh
or a login, that brought it. They are set at different awaits (lines 54-58), so
two authentications that overlap may mix them; `SessionIsWhole` says where they
then come from, and that nothing else mixes them: the one that brought the token
which is sent has not come to its end, or one of the two tokens is of a
`login()`. Whether that `login()` did overlap is not told apart. In a browser
both are cookies, and `header` stays empty.

Abstracted: urls are of four kinds; what the server accepts does not depend on
the token; a second delivery goes out of the global axios and so has any answer.

### `SignerSession`: signer.service.ts and the initializers

`at[i]` is where a run of `init()` (29-50) is, `read[i]` the address it was
answered, or has captured for a token. `selected` is the account of the
extension, `signer` the connected signer, `address`, `publicKey` and
`identityToken` the fields of the service; `owner` stands for `_owner` of
`DomainsService` and of `AssetsService`, which are assigned in the same turn;
`did` for that of `DidRegistry`, which needs `publicKey()` first and may so ask
for a signature in the middle of the initializers. `SelectAccount` is
an event of the extension: `emit` (59-67) calls every listener, and each
completed `init()` has registered one more (45, 77-89), so the event starts as
many runs. `Signed` is the end of `_calculatePubKeyAndIdentityToken` (190-229):
the recovered key must be that of the captured address. `LoginWith...` and
`Posted` are `authenticate()` from the identity token on.

Left out: the logout that `closeConnection` does for EKC, and WalletConnect
sessions, whose events nothing passes to `emit`.

### `Domains`: domains.service.ts

A namespace is its sequence of labels, so that `roles.` and `apps.` are put in
front as in the code. `owner` and `resolver` are the registry, `defined` and
`named` the resolver, `indexed` what the cache server knows: these and
`Authorised`, `Mined` and `Reindex` are external and modelled as the service
relies on them. `flow[u]` is the operation of user `u` under way: the steps its
array still holds, each a transaction with its arguments fixed when the array
was built; `apps` and `later` serve `changeOrgOwnership`, which transfers the
applications first but has computed its own steps before; `known` is the index
as a removal has checked it, which nothing but `RemovesOnlyEmpty` looks at. One action per
operation computes the steps, from what is read at that time, under the
conditions it throws on. `Confirmed`, `Unanswered` and `Revert` are the three
ends of `send()`; `Skip` is `next({ retryCheck: true })`; `Stop` is the end of
the operation or a caller who gives up. With `returnSteps` (`stepwise`) a failed
step is still before the caller, who may try again; without, the loop is over.
Only the steps of transfers and removals know `retryCheck`; a step that creates
is sent again.

Left out: sub-organizations (organizations are created in `Root` only; that a
transfer forgets them is a TODO at line 339), and the helpers that nothing
calls (`deleteDomain`, `deleteSubdomain`, `changeSubdomainOwnerTx`).

### `Enrolment`, `ClaimEnrolment`: claims.service.ts

`Enrolment` is what the service promises of claims, with the cache server and
the contract as one ledger: a claim is requested, accepted (or granted, when it
was not requested or has been deleted), deleted, or registered, in one step
each. Its terms (subject, role, types, requester, agreement) stay what they were
when it was recorded, acceptance and registration find the required roles
enrolled, a request replaces no claim. `ClaimEnrolment` is the code, in which
each of these is several awaits of a client after what decided it was read;
`Contract` maps the ledger to the cache server's claims.

`op[c]` is the operation that a client has under way: the await it is at, and
the fields of the message it builds. `createClaimRequest` (144-184) is
`createClaimRequest`, `RequestAllowed`, `requestClaim`; `issueClaimRequest`
(191-248) is `issueClaimRequest`, `IssueAllowed`, `TokenSigned`, `ProofSigned`,
`Registered`, `postIssue`, and `issueClaim` (305-338) shares those of them that
it needs. The account is read where the code reads it: for the agreement in
`RequestAllowed`; for `acceptedBy` of the message in `IssueAllowed`; for the
proof when it is signed; for the contract's argument in `ProofSigned`.
`prerequisitesMet` is `verifyEnrolmentPrerequisites` (420-446). `registerOnchain`
(255-279) is called with a claim, whose readiness it checks, or by
`issueClaimRequest`, with an object that has all the keys. `Fail` ends an
operation at any await, `RegisteredUnanswered` in one that took effect.

The cache server and the contract are external: the server creates or completes
the claim that an issue names, and the contract verifies the agreement and the
proof. A signature is the account that made it. A subject is an account or an
asset, and `MayAgree` says whose agreement the contract takes for it: the
account's own, or that of the asset's owner, as the repository's
`e2e/claims.service.e2e.ts` (211-219) expects of a request that an owner makes
for his asset. `enrolled` and `unrecorded` are history.

Left out: transfers of assets, which would change `MayAgree`;
`rejectClaimRequest`, whose mark nothing in the service reads; versions, and
issuers' rights (the server's and the contract's). The
publication of claims in DID documents is `ClaimPublication`.

### `Account`

What the services below see of `SignerService`: an account that may change at
any of their awaits. `SignerSession` has the details of such a change.

### `StakingPools`: staking.service.ts, staking-pool.service.ts

`call[k]` is an operation under way, with its local variables: the account it
started with (`from`), the balance it has read, whether the gas has been
estimated, and, once it sends, the account that the signer has by then
(`sender`) and the value. `putStake` (staking.service.ts 152-180;
staking-pool.service.ts 104-128) reads balance and gas, in any order for a pool
that was launched and one after the other for the standing one; `Read` is what
follows the second answer, in the same turn: the value is clamped to the balance
less twice the fee, or refused. `StakePut` is the transaction. `requestWithdrawDelay`
and `withdrawalDelay` (185-199, 235-249) read the stake, then the number of the
last block and then that block (`now()`, 264-267): `BlockNumberRead` and
`DelayAnswered` are those two awaits, and blocks may be mined between them and
before the answer; `availableFrom` and `delay` are the computation. `launchPool`,
`requestWithdraw`, `withdraw` and `partialWithdraw` send a transaction that
depends on nothing read before, and are one action each. The contracts are
external: what they accept is taken from the repository's end-to-end tests. One
transaction costs one unit of gas, and an amount is a multiple of it.

Left out: rewards (`checkReward`, and the reward that a withdrawal adds), the
roles of patrons, and `overrides`, which `send` accepts and passes nowhere
(staking.service.ts 227, 259).

### `ClaimPublication`: claims.service.ts, didRegistry.service.ts, assets.service.ts

The services that write DID documents together. `publication[k]` is a call of
`publishPublicClaim` (claims.service.ts 366-396) under way: its token is
verified and saved (`Saved`), `getClaimId` (340-357) reads the document of `DidRegistry`,
from the cache server's index or from the contract (`DocumentRead`), and
`updateDocument` (didRegistry.service.ts 165-199) compares the subject with the
account *of now*, which decides between the document that `DidRegistry` was set
up for and that of an asset that the index says is owned (`OwnedAnswered`).
`DocumentUpdated` is the transaction, which the document's contract refuses to
whoever does not control it. A document is a function from ids to services;
`getClaimId` may take any of the services that match, since the order of a
document is that of its events. `AssetStep` is assets.service.ts: registration
makes the service's own copy of the account the owner, the others are sent as
the account of the signer. A change of account reaches `AssetsService` and
`DidRegistry` later (`InitAssets`, `InitDidRegistry`).

Left out: claims' contents besides type and version, documents' public keys and
delegates, `revokeDidDocument`, and tokens' signatures.

### `Messaging`: messaging.service.ts

`attempt[k]` is what has become of the connection that a run of `init()` (22-50)
opens: the server answers, or refuses, or the timer is first and the connection
opens, late, for nobody. `natsConnection` and `subscriptions` are the fields of
the service; `numbered`, `live` and `wanted` are what the NATS client and the
callers know. Every connection numbers its subscriptions from 1, and
`unsubscribeFrom` (76-81) takes the first of the list that has the number.

### `ResolverHandover`, `ResolverMigration`: src/src/utils/change_resolver.ts

The script awaits each contract call, which ends when the transaction is
*submitted* (lines 56, 62-68, 73: nothing calls `wait()` on it). So it goes on,
restores owners and ends normally while transactions are pending, and takes no
notice of one that is mined without effect.

`ResolverHandover` is what it owes the owners of the namespaces all the same, as
the registry sees it: transactions that take effect take a namespace as the
owner of the one above, move only what is taken, copy a definition only to where
it has moved, give a namespace back to its first owner and only after all are
moved; and none is refused but in the wake of one that failed. Nothing is
promised of a namespace that a transaction has failed or was refused for. It has
no recursion, no memory and no pending transactions.

In `ResolverMigration`, `todo` is the stack of the recursion of `migrate`, with
its next step in `doing`; `owners` the object in memory, `restoring` what the
loop of `restoreOwners` has still to come to; `nodeOwner`, `moved`, `copied` the
registry and the new resolver, as of the last block; `submitted` the account's
transactions that are pending, in the order of their nonces. A call of a
contract submits one (`Submit`), which needs that the estimate of its gas
succeeds, in the state of the last block or with pending transactions. Mining is
three actions of the chain, at any time: `TakesEffect`, `Fails` (out of gas, for
instance), `Reverts` (the account may not do it by then). `readOwner` reads the
owner as of the last block. Any submission may be refused and any read fail
(`RunFails`), and the function is called again, in the same process or in
another one, while transactions of earlier runs may be pending. `lost`,
`failed`, `reverted` are history: whose first owner no run knows any more
(because a run failed before it gave the namespace back, or because the owner
was read while the transaction that gives it back was pending), and what a
transaction had no effect on. The script `src/scripts/change-resolver.ts` passes
no `domainHierarchy`, so that its runs are those that fail at the first list of
children.

What the model takes for granted: the account does nothing else meanwhile, and
the account's nonces are used in order. If a node drops a transaction, its nonce
is missing and holds up those behind it: they stay pending, as any may here for
as long as nothing is mined. One whose nonce is used up otherwise is a `Fails`.

### MC modules and proof modules

`MCCacheAuth`, `MCSignerSession`, `MCDomains`, `MCClaimEnrolment` and
`MCServices` hold the instances; the `.cfg` files give the constants.
`MCServices` puts `StakingPools`, `ClaimPublication`, `Messaging` and
`ResolverMigration` into one run. They share nothing but the account, which
none of them writes, so a behaviour of one does not depend on the others: each
behaviour of `MCServices` is one of one service, with the others at rest.
`<module>Proofs` holds the theorems about a module. Each component's module also holds the mutants of its definitions
(marked `mutant`): a plausible bug each, which makes the property that watches
for it fail.

## 3. Runs

| run | configuration | result |
|---|---|---|
| `cache_auth` | `CacheAuth.cfg`: 2 retried requests, 1 exempt, 1 `login()` | 6 invariants, the refinement of `ApiCall`, 2 liveness properties hold |
| `cache_refresh_strands` | `CacheRefreshStrands.cfg` | `RetryResolves` fails: finding 1 |
| `cache_login_wedges` | `CacheLoginWedges.cfg` | `QueueingStartsAuthentication` fails: finding 2 |
| `signer_session` | `SignerSession.cfg`: 2 accounts, 3 runs of `init()`, 1 login | 5 invariants hold |
| `signer_stale_login` | `SignerStaleLogin.cfg` | `LoginIsForSigner` fails: finding 3 |
| `signer_overlap` | `SignerOverlap.cfg` | `DependentsFollowSigner` fails: finding 4 |
| `domains` | `Domains.cfg`: 2 users, 1 organization, 1 application, 1 role in each | 6 invariants and `RemovesOnlyEmpty` hold |
| `domains_org_roles` | `DomainsOrgRoles.cfg` | `OrgTransferMovesAll` fails: finding 5 |
| `domains_legacy_name` | `DomainsLegacyName.cfg`: 1 user, 1 legacy role | `DefinitionHasName` fails: finding 6 |
| `claim_enrolment` | `ClaimEnrolment.cfg`: 2 clients, one of them with 2 accounts, an asset of the other's account, 2 roles, 2 claims | 4 invariants and the refinement of `Enrolment` hold |
| `claim_unrecorded` | `ClaimUnrecorded.cfg`: 1 client | `RegisteredIsRecorded` fails: finding 7 |
| `services` | `Services.cfg`: the last four modules | 10 invariants, `VersionedClaimKeepsId`, the refinement of `ResolverHandover` and `ConnectEnds` hold |

Bounds, and why they are enough:

* `Requests`, `Logins` of `CacheAuth`: a caller runs `authenticate()` at most
  once, so these sets bound the authentications. Two retried requests give an
  authentication with one queued behind it, and one that follows another; the
  exempt one is refused outright; the login runs beside either. The theorems
  need no bound.
* `Inits`, `Logins` of `SignerSession`: three runs of `init()` are two that
  overlap and one more, or an event that starts two after one that registered
  the second listener. Two accounts are an old and a new one.
* Names of `Domains`: one of each kind gives every parent and child
  relation that the code distinguishes, and both kinds of roles. Two users are
  a former and a new owner. `Concurrent = FALSE` makes operations take turns
  (each may be abandoned after any transaction, and the other user may go on
  from there), and `Lag = FALSE` lets the index catch up before the next one is
  called. The other properties need operations that take turns: with
  `Concurrent = TRUE` TLC violates each of them but `RemovesOnlyEmpty`, since
  what an operation decides on is read once and used transactions later. That is
  how far the library's own checks reach, not an assumption it enforces.
  `RemovesOnlyEmpty` says what is left of the check when operations overlap and
  the index is behind: what was registered when the removal looked is not
  orphaned, what was not in the index then may be. It holds in any mode (the
  theorem says so); this run shows it for operations that take turns, and one
  with `Concurrent = TRUE` and `Lag = TRUE` on names without applications (1.4
  million states) is too long to keep. `LaterStepsGoThrough` and
  `TransferStopsAtUnowned` hold with `Lag = TRUE` too; the others need the index. One role cannot show the order in
  which several are transferred, and with a second one TLC does not finish in
  minutes; the theorems hold for any number of users and names.

* `ClaimEnrolment`: two roles, one of which requires the other and is for the
  chain (`Kinds`), take two claims of one subject. Two clients request and issue
  in any order; one keeps the account of the asset's owner, the other changes
  between that and another account at any await. In `ClaimUnrecorded.cfg` the
  subject is an account. The theorems need none of these bounds.

* `Services.cfg`: two calls under way are a reader and the writer that makes it
  stale; the account changes once, and each service learns of it at another
  time. Stakes 1 and 9 of funds 4 are a stake below and one above what the
  balance allows; 2 blocks with periods of 1 put an answer before, at and after
  the end of either period. Three tokens are a profile of whoever publishes, a
  versioned role of one account, and one of an asset. One id for two calls makes
  every pair of claims compete for it, in the three documents there are. Three
  connections with two subscriptions each give two generations of repeated
  numbers. The tree is an organization, an application below it and a role below
  that, so that a namespace is taken as the child of one that was taken; two runs
  are one that fails anywhere and one that meets what it has left, and up to
  three transactions pending at a time reach back over a step of the recursion.

Deadlock is checked except in the three `Signer...` configurations and in
`Services.cfg`, where bounded runs, connections or blocks are used up and the
system then stops.

Fairness (`FairSpec`). In `CacheAuth`: the server answers or the request fails,
and the wallet answers; weak fairness on those steps only. The user calls
nothing on his own. In `SignerSession`: the wallet, the user and the server
answer. In `MCServices`: the timer of a connection runs out, nothing else; that
`init()` of the messaging service ends (`ConnectEnds`) must not depend on the
server. `Domains` and `ClaimEnrolment` state no liveness.

## 4. Findings

1. `cacheClient.service.ts:59`: a successful refresh returns before the queue is
   run, against the comment at 47-48. The requests wait until something signs in
   again.
2. `cacheClient.service.ts:104`: if `authenticate()` throws, `isAuthenticating`
   stays set, and no refused request starts an authentication any more.
3. `signer.service.ts:181`: after `connect()` the identity token of the previous
   account is used to log in.
4. `signer.service.ts:33`: overlapping runs of `init()` leave the services with
   the account of a signer that has been replaced.
5. `domains.service.ts:324`: `changeOrgOwnership` leaves the organization's roles
   with the former owner, against line 308.
6. `domains.service.ts:874`: a legacy update that stops after `setResolver` is
   finished by `editDomain`, without the reverse name that line 870 asks for.
7. `claims.service.ts:238`: `issueClaimRequest` registers on chain before it
   records that the claim was issued; a failure in between leaves a role on chain
   that the cache server does not know, against line 187.

## 5. Proofs

`CacheAuthProofs` assumes what `CacheAuth` assumes of its constants: exempt
requests are requests, and requests are not logins. Nothing bounds them.

* `TypeCorrect`: `TypeOK`, inductive as it stands.
* `OneAuthentication`, `WedgesAreExplained`, `StrandingsAreExplained`,
  `CallersRemembered`: from one
  inductive invariant `IInv`. Mutual exclusion is not inductive: it needs which
  phases each caller of `authenticate()` may be in (`PhaseInv`), what a queued
  request still expects (`RetryInv`), and what has been delivered
  (`DeliveryInv`). `IInv` is the conjunction of these with `TypeOK` and the
  properties; it was checked by TLC before it was proved, and has one step per
  action.
* `SessionsAreWhole`: the tokens are of one session, but for the two exceptions
  that `SessionIsWhole` names. It adds to `IInv` where a token can come from
  (`SessionInv`) and, for a refresh whose probe is awaited, that the token sent
  is its own or that of an overlapping call (`ProbeInv`): for two requests that
  is ruled out by the mutual exclusion, which `login()` does not take part in.
  TLC checked both before the proof.
* `Implementation`: every step of `CacheAuth` is a step of `ApiCall` or a
  stutter, under the mapping `Seen` of what a caller sees. The interesting step
  is `LoginOk`, which resends the whole queue at once, and needs that a queued
  request has been delivered once.

`SignerSessionProofs` assumes that accounts differ from the two markers, and
that the runs of `init()` are a finite set disjoint from the logins.

* `TypeCorrect`: `TypeOK`.
* `OwnersFollow`: `OwnerFollowsAddress`, from the fact that a run between
  `SetAddress` and the services still remembers the address it has set; later
  runs that set another address are themselves such a run.
* `CacheIsConsistent`, `KeysMatchTokens`: `TokenProvesAccount` and
  `KeyMatchesToken`.
* `SerialChangesReachAll`: `SerialChangeIsConsistent`. As long as nothing has
  overlapped and `init()` has not thrown, at most one run is busy, and what is
  reached so far is what that run, from where it is, has had the time to write
  (`SerialInv`). The listeners start a set of runs; that it has one element comes
  from its cardinality.

`ClaimEnrolmentProofs` assumes what `ClaimEnrolment` does of its constants: the
preconditions are roles, the registration types are types, those who may agree
for a subject are accounts (`MayAgreeAssumption`; any accounts, so the theorems
hold for accounts and assets alike), and `Nobody` is none of the accounts,
subjects, roles and ids.

* `TypeCorrect`: `TypeOK`.
* `PrerequisitesFirst`, `RegistrationsExplained`, `ReadyClaimsRegister`: from one
  inductive invariant `IInv`. What an operation has checked, and whose
  signatures it holds, is an invariant of its record (`OpInv`). That a claim
  keeps it when it is posted needs `SameClaim`: operations with the same claim
  agree on its subject, role and types, with each other and with the cache
  server, even when it was deleted meanwhile. `ExplainInv` strengthens
  `RegistrationIsExplained`: the operation that explains a role on chain is one
  that has called the contract, so that another one's failure takes nothing
  away. `ReadyClaimRegisters` relates what `readyToBeRegisteredOnchain` asks for
  to what the contract verifies: if it accepts, the requester was one of those
  who may agree for the subject, and if such a claim is refused, its issuer has
  changed the account while issuing it. Steps that only go on to another await are one lemma, `AwaitKeeps`.
* `Implementation`: every step of `ClaimEnrolment` is a step of `Enrolment` or
  changes nothing of the ledger. A request, an issue or a registration is posted
  long after its prerequisites were checked; that they still hold is because
  enrolment only grows. That an issue changes no terms is `SameClaim`, and that
  a request replaces no claim needs one more invariant (`AskInv`): the id that a
  request draws belongs to no claim as long as it is under way, and to no other
  operation.

`StakingPoolsProofs` assumes that amounts and periods are naturals. The theorems
hold for any number of calls, accounts and changes of account.

* `TypeCorrect`: also says that no balance becomes negative.
* `DelaysAreExact`: a stake that is still the one that was read has the dates
  that were read, so the end computed then is the contract's; the record of a
  call keeps `due` equal to that end, or to a time that had passed, plus what the
  block was late by when it was answered (`late`): the wait is never too short,
  and longer by exactly that.
* `StakesLeaveGas`: a value that is sent has been clamped by the balance read
  before, of the account the call started with.

`ClaimPublicationProofs` assumes that accounts and assets are disjoint, that
`Nobody` is none of the ids and data (`PublicationNames`), and that a claim is a
profile or has a type (`PublicationData`), as all those that the repository
publishes; `ClaimData` (did/did.types.ts 17-22) would allow both in one.

* `TypeCorrect`, and `ClaimsReachSubjects` from what an operation knows once it
  has chosen a target: the target is its subject, or both are accounts.
* `VersionedClaimsKeepIds`: a service written under an id, an operation that
  holds the id, and every copy in the index agree on the data, if it is
  versioned; a new id is in none of these. The invariant relates all documents,
  since ids for assets come from the account's document.

`ResolverMigrationProofs` assumes that the namespaces are a finite tree
(`MigrationTree`).

* `OwnersReturn`, `AllMoved`: from `IInv`, which has a part about the chain and
  one about the run. `QueueInv`: each transaction that is pending finds what it
  needs when those before it have been mined (`Ready`): the script's account owns
  the namespace that it is sent for, a definition finds its namespace moved, an
  owner comes back when all is moved and copied; or a transaction about that
  namespace had no effect. `Owned` and `Has` say what holds after the first
  *k* pending transactions; the lemmas on them say what becomes of it when one
  more is submitted (`OwnedAppend`, `HasAppend`) and when the first is mined
  (`OwnedTail`, `HasTail`). `RunInv` is about the run, with all that is pending
  taken as mined: while it migrates there is a set `V` of namespaces it has come
  through, such that whatever is below `V` is in `V` or still in `todo`, each
  once, because it has one parent (`Path`, `Walk`). Each namespace is its first
  owner's again, or remembered and in `V` or at hand; at the end, remembered and
  still in `restoring` (`Restores`). When nothing is left in `todo`, `V` is
  closed, and a tree has no other closed set than the whole (`WholePath`).
  What is pending never falsifies this: mining a transaction changes the last
  block, not the state with all of them mined, unless it had no effect and its
  namespace is among the exceptions (`Mining`).
* `Implementation`: every step of `ResolverMigration` is a step of
  `ResolverHandover` or a stutter. The script's own steps are all stutters, since
  they only submit; a transaction that is mined is a step of the handover because
  the first of a `Ready` queue finds what it needs in the registry as it is
  (`HeadReady`, `StepHandsOver`).

`MessagingProofs` assumes that `NoConnection` is none of the connections.

* `WantedIsDelivered` is not inductive. The subscriptions of the connection in
  use are at the end of the list (`InUseLast`), and of each number at least as
  many are listed as are wanted (`EnoughLeft`, by cardinality). So the first of
  a number is of the connection in use only if it is the last of that number,
  and then nobody but its caller wants that number.

`DomainsProofs` assumes that the namespaces are finitely many
(`NodesAssumption`) and that the fixed labels and the roles' names are none of
the organizations' and applications' (`LabelsAssumption`).

* `TypeCorrect`: for overlapping operations and a lagging index too.
* `OnlyEmptyRemoved`, for overlapping operations and a lagging index: a step that
  leaves a namespace to nobody is of a removal that, when it was called, knew of
  nothing registered below it, or of a role, or of a creation below what nobody
  owns (`RemovesKnown`, for every step an operation still holds: `KnownInv`).
  What an operation holds does not depend on what the others do, so the invariant
  needs neither hypothesis. `BelowApp`, `BelowOrg` and `BelowRole` say which
  namespaces are below one that is removed, from the shapes of names (`Apart`).
* `StartedGoesThrough`, under `~Concurrent`; `CanBeResumed` and `AppsMoveWhole`,
  under `~Concurrent` and `~Lag`. All from `SerialInv`: at
  most one user has an operation under way, and what it holds is in order
  (`FlowOK`). `CreationOK` is why the owner that `createApplication` never
  compares with the caller does no harm: once the first step has been sent, or
  could be, that owner is the caller, and every later step is on a namespace
  that is his or that an earlier step gives him (`Granted`). `RemovalOK`: each
  namespace is removed once and is still the caller's, but for a first step whose
  answer was lost. `TransferOK`: what is not the new owner's yet is still among
  the steps (`Covers`). Every operation starts in order (`Begin`, from lemmas on
  the lists of steps), and a step that is mined or skipped keeps it
  (`MinedKeeps`, `SkipKeeps`).
* `TransfersStopAtUnowned`, under `~Concurrent`, and `OrgsMoveWithApps`, under
  `~Concurrent` and `~Lag`, need more: `TransitInv`, a second layer on `SerialInv`.
  `ClearOK`: the steps of a transfer are of different namespaces (`Once`, which
  comes from the order of the cache server's answer by way of `Listed`), each
  still the caller's or nobody's, but for the first of one whose answer was
  lost. `LaterOK`: the organization's own steps, computed first and sent last,
  are of namespaces that no application's steps touch (`NamespacesApart`), and
  what is neither among them nor the new owner's yet is among the steps at hand;
  each application that is no longer in the list of those to come is the new
  owner's but for what is in these steps. So when all three lists are empty,
  everything is his. Without `~Lag` the list of applications itself may be old.

Only model-checked: liveness (`AuthenticationEnds`, `RetryResolvesOrStranded`,
`ConnectEnds`), which is out of TLAPS's reach with its fairness.

## 6. Plan

1. A composition of `SignerSession` and `CacheAuth`: which account the retried
   requests are sent for.
2. In `Domains`, what overlapping operations can leave behind: only
   `RemovesOnlyEmpty` is stated for them so far. Hazards that the code does
   nothing against are listed in `PROJECT.json` without a property.
3. An abstract session for `SignerSession`: what the application may rely on
   between two changes of account.

### Not modelled

* The signer adapters: constructors around wallet libraries. What they differ
  in (events, the key of a wallet object) is a kind of signer in `SignerSession`.
* Configuration tables, error types, and pure conversions of addresses and
  names; the API methods' urls and payloads.
* Queries, of all services: they change no state. Where an operation decides on
  what a query has returned, the query is in the action or is an await.
* Creation and revocation of DID documents, and the tokens of
  `DidRegistry.issuePublicClaim` and `verifyPublicClaim`: one call of a library
  each.
* `createIdentityProof` and `rejectClaimRequest` of the claims service, and
  `publish` of the messaging service: no state in the library depends on them.
* Rewards and patrons' roles: computed by the contracts.

Noticed while modelling, and not the subject of a run: an unversioned claim and
a profile take each other's id (claims.service.ts 340-357), which the model has
and `VersionedClaimKeepsId` leaves out; the id of a claim for an asset comes
from the account's own document; a connection to the messaging server that
opens late is neither used nor closed, and the subscriptions of one that was
replaced stay in the list, so that `unsubscribeFrom` may end another caller's
there.
