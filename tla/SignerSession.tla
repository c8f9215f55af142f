--------------------------- MODULE SignerSession ---------------------------
(***************************************************************************)
(* The account that a client acts for: SignerService (modules/signer), the *)
(* services that keep a copy of it (DomainsService, AssetsService,         *)
(* DidRegistry), and the identity token CacheClient logs in with.          *)
(*                                                                         *)
(* init() runs when the application connects another signer, and once for  *)
(* every registered listener when the wallet extension changes account, so *)
(* runs of it may overlap.  An action is the code between two awaits on    *)
(* something outside the program; an await on a promise that is already    *)
(* resolved does not let another callback in.                              *)
(*                                                                         *)
(* A session starts when connectToCacheServer and connectToDidRegistry     *)
(* have returned.  Of the network only one fact is kept: whether           *)
(* chainConfigs knows it, which decides if init() throws.  Keys and tokens *)
(* are named by the account they belong to.                                *)
(***************************************************************************)
EXTENDS Naturals, FiniteSets

CONSTANTS
    Accounts,           \* accounts of the user
    NoAccount,          \* undefined
    Extension,          \* the signer of a wallet extension; it follows `selected`
    Inits,              \* runs of init(): bounds how often it is called
    Logins              \* runs of authenticate() that reach the identity token

ASSUME AccountsAssumption == NoAccount \notin Accounts /\ Extension \notin Accounts
ASSUME RunsAssumption == Inits \cap Logins = {} /\ IsFiniteSet(Inits)

VARIABLES
    inBrowser,          \* executionEnvironment() = BROWSER
    emits,              \* created by fromMetaMask: the extension's events reach emit()
    selected,           \* account selected in the wallet extension
    signer,             \* _signer: Extension, or the account whose private key it holds
    address,            \* _address
    publicKey,          \* _publicKey
    identityToken,      \* _identityToken: the account it names, the one that signed it
    listeners,          \* number of AccountChanged listeners registered
    owner,              \* _owner of DomainsService and of AssetsService
    did,                \* the account of DidRegistry's _did
    session,            \* account of the session with the cache server
    at,                 \* where each run of init() or authenticate() is
    read,               \* an account it has been answered, or has captured
    prompted,           \* the account whose owner is asked to sign
    overlapped          \* two runs of init() have overlapped (history variable)

env == <<inBrowser, emits>>
copies == <<owner, did>>
cache == <<publicKey, identityToken>>
vars == <<env, selected, signer, address, cache, listeners, copies, session,
          at, read, prompted, overlapped>>

Runs == Inits \cup Logins

Signers == Accounts \cup {Extension}

IsWallet(s) == s # Extension            \* instanceof Wallet

AccountOf(s) == IF s = Extension THEN selected ELSE s

Token(iss, by) == [iss |-> iss, by |-> by]

NoToken == Token(NoAccount, NoAccount)

Init ==
    /\ inBrowser \in BOOLEAN
    /\ emits \in BOOLEAN
    /\ selected \in Accounts
    /\ signer \in Signers
    /\ emits = (signer = Extension)
    /\ emits => inBrowser
    /\ address = AccountOf(signer)
    /\ publicKey = address
    /\ identityToken \in {NoToken, Token(address, address)}
    /\ signer = Extension => identityToken # NoToken
    /\ listeners = IF emits THEN 1 ELSE 0
    /\ owner = address
    /\ did = address
    /\ session = address
    /\ at = [r \in Runs |-> "idle"]
    /\ read = [r \in Runs |-> NoAccount]
    /\ prompted = [r \in Runs |-> NoAccount]
    /\ overlapped = FALSE

-----------------------------------------------------------------------------
(* init() *)

Busy == {"address", "network", "messaging", "block", "prompt", "did"}

Quiet == \A i \in Inits : at[i] \notin Busy

IdleInits == {i \in Inits : at[i] = "idle"}

(* The first turn of init(), for the runs in I: a browser forgets the key  *)
(* (nothing in the library writes it to localStorage), and getAddress() is *)
(* called on s.  A wallet object knows its address; for an extension the   *)
(* runs wait in "address".                                                 *)
Start(I, s) ==
    /\ publicKey' = IF inBrowser /\ I # {} THEN NoAccount ELSE publicKey
    /\ address' = IF IsWallet(s) /\ I # {} THEN s ELSE address
    /\ at' = [r \in Runs |-> IF r \notin I THEN at[r]
                             ELSE IF IsWallet(s) THEN "network" ELSE "address"]
    /\ read' = [r \in Runs |-> IF r \in I /\ IsWallet(s) THEN s ELSE read[r]]
    /\ overlapped' = (overlapped \/ Cardinality(I) > 1 \/ (I # {} /\ ~Quiet))

(* connect(signer, providerType) *)
Connect(s) ==
    /\ s = Extension => inBrowser
    /\ signer' = s
    /\ \E i \in IdleInits : Start({i}, s)
    /\ UNCHANGED <<env, selected, identityToken, listeners, copies,
                   session, prompted>>

(* The user selects another account in the extension.  If its events are   *)
(* connected to emit(), every listener runs init(), with a new array of    *)
(* listeners appended by each.                                             *)
SelectAccount ==
    /\ inBrowser
    /\ selected' \in Accounts \ {selected}
    /\ \E I \in SUBSET IdleInits :
          /\ Cardinality(I) = IF emits THEN listeners ELSE 0
          /\ Start(I, signer)
    /\ UNCHANGED <<env, signer, identityToken, listeners, copies,
                   session, prompted>>

ExtensionReadsAddress(i) ==
    /\ at[i] = "address"
    /\ read[i] = NoAccount
    /\ read' = [read EXCEPT ![i] = selected]
    /\ UNCHANGED <<env, selected, signer, address, cache, listeners, copies,
                   session, at, prompted, overlapped>>

HasNotToRead(i) == TRUE                 \* mutant: the answer is not awaited

HasRead(i) == read[i] # NoAccount

SetAddress(i) ==
    /\ at[i] = "address"
    /\ HasRead(i)
    /\ address' = read[i]
    /\ at' = [at EXCEPT ![i] = "network"]
    /\ UNCHANGED <<env, selected, signer, cache, listeners, copies, session,
                   read, prompted, overlapped>>

(* The network is known: initEventHandlers() registers a listener, though  *)
(* earlier runs have, and the initializers run.  The first one, that of    *)
(* MessagingService, awaits a connection in a browser only.                *)
RegisterListener ==
    listeners' = IF IsWallet(signer) THEN listeners ELSE listeners + 1

AwaitMessaging(i) ==
    /\ inBrowser
    /\ at[i] = "network"
    /\ RegisterListener
    /\ at' = [at EXCEPT ![i] = "messaging"]
    /\ UNCHANGED <<env, selected, signer, address, cache, copies, session,
                   read, prompted, overlapped>>

MessagingIsOver(i) ==
    \/ at[i] = "messaging" /\ UNCHANGED listeners
    \/ ~inBrowser /\ at[i] = "network" /\ RegisterListener

(* getNetwork() rejects, or chainConfigs does not know the network: init() *)
(* throws, after the address has been set.                                 *)
NetworkUnknown(i) ==
    /\ at[i] = "network"
    /\ at' = [at EXCEPT ![i] = "failedEarly"]
    /\ UNCHANGED <<env, selected, signer, address, cache, listeners, copies,
                   session, read, prompted, overlapped>>

(* The initializers of CacheClient, DomainsService, StakingService and     *)
(* AssetsService run in one turn.                                          *)
CopyOwnAddress(i) == owner' = read[i]   \* mutant: the address this run has read

CopyNothing(i) == UNCHANGED owner       \* mutant: the services are not registered

CopyAddress(i) == owner' = address

(* The same turn goes on with that of DidRegistry: publicKey() of a wallet *)
(* object, or from the cache, or by signing; then the address of the       *)
(* signer it has captured, which a wallet object knows.                    *)
RunServicesOfWallet(i) ==
    /\ MessagingIsOver(i)
    /\ IsWallet(signer)
    /\ CopyAddress(i)
    /\ publicKey' = IF publicKey = NoAccount THEN signer ELSE publicKey
    /\ did' = signer
    /\ at' = [at EXCEPT ![i] = "done"]
    /\ UNCHANGED <<env, selected, signer, address, identityToken, session, read,
                   prompted, overlapped>>

RunServicesOfExtension(i) ==
    /\ MessagingIsOver(i)
    /\ ~IsWallet(signer)
    /\ CopyAddress(i)
    /\ \/ /\ publicKey # NoAccount
          /\ at' = [at EXCEPT ![i] = "did"]
          /\ UNCHANGED read
       \/ /\ publicKey = NoAccount
          /\ at' = [at EXCEPT ![i] = "block"]
          /\ read' = [read EXCEPT ![i] = address]
    /\ UNCHANGED <<env, selected, signer, address, cache, did, session,
                   prompted, overlapped>>

DidAnswered(i) ==
    /\ at[i] = "did"
    /\ did' = AccountOf(Extension)
    /\ at' = [at EXCEPT ![i] = "done"]
    /\ UNCHANGED <<env, selected, signer, address, cache, listeners, owner,
                   session, read, prompted, overlapped>>

-----------------------------------------------------------------------------
(* _calculatePubKeyAndIdentityToken(), for the address captured in read[r] *)

(* The key recovered from the signature must be that of the address.       *)
AnySignature(r, by) == TRUE             \* mutant: the key is not compared

ValidSignature(r, by) == by = read[r]

CacheMissing(r, by) ==                  \* mutant: a key that is cached is kept
    /\ publicKey' = IF publicKey = NoAccount THEN by ELSE publicKey
    /\ identityToken' = Token(read[r], by)

CacheSignature(r, by) ==
    /\ publicKey' = by
    /\ identityToken' = Token(read[r], by)

Signed(r, by) ==
    \/ /\ ValidSignature(r, by)
       /\ CacheSignature(r, by)
       /\ at' = [at EXCEPT ![r] = IF r \in Inits THEN "did" ELSE "posting"]
    \/ /\ ~ValidSignature(r, by)
       /\ at' = [at EXCEPT ![r] = "failed"]
       /\ UNCHANGED cache

(* The block number is known, and the signer of this moment is asked to    *)
(* sign.  A wallet object signs at once.                                   *)
WalletSigns(r) ==
    /\ at[r] = "block"
    /\ IsWallet(signer)
    /\ Signed(r, signer)
    /\ UNCHANGED <<env, selected, signer, address, listeners, copies, session,
                   read, prompted, overlapped>>

ExtensionPrompts(r) ==
    /\ at[r] = "block"
    /\ ~IsWallet(signer)
    /\ prompted' = [prompted EXCEPT ![r] = selected]
    /\ at' = [at EXCEPT ![r] = "prompt"]
    /\ UNCHANGED <<env, selected, signer, address, cache, listeners, copies,
                   session, read, overlapped>>

UserSigns(r) ==
    /\ at[r] = "prompt"
    /\ Signed(r, prompted[r])
    /\ UNCHANGED <<env, selected, signer, address, listeners, copies, session,
                   read, prompted, overlapped>>

UserRefuses(r) ==
    /\ at[r] = "prompt"
    /\ at' = [at EXCEPT ![r] = "failed"]
    /\ UNCHANGED <<env, selected, signer, address, cache, listeners, copies,
                   session, read, prompted, overlapped>>

-----------------------------------------------------------------------------
(* CacheClient.authenticate(), from publicKeyAndIdentityToken() on *)

HasIdentityToken == publicKey # NoAccount /\ identityToken # NoToken

LoginWithCachedToken(l) ==
    /\ at[l] = "idle"
    /\ HasIdentityToken
    /\ read' = [read EXCEPT ![l] = identityToken.iss]
    /\ at' = [at EXCEPT ![l] = "posting"]
    /\ UNCHANGED <<env, selected, signer, address, cache, listeners, copies,
                   session, prompted, overlapped>>

LoginWithNewToken(l) ==
    /\ at[l] = "idle"
    /\ ~HasIdentityToken
    /\ read' = [read EXCEPT ![l] = address]
    /\ at' = [at EXCEPT ![l] = "block"]
    /\ UNCHANGED <<env, selected, signer, address, cache, listeners, copies,
                   session, prompted, overlapped>>

Posted(l) ==
    /\ at[l] = "posting"
    /\ session' = read[l]
    /\ at' = [at EXCEPT ![l] = "done"]
    /\ UNCHANGED <<env, selected, signer, address, cache, listeners, copies,
                   read, prompted, overlapped>>

-----------------------------------------------------------------------------
InitStep(i) ==
    \/ ExtensionReadsAddress(i) \/ SetAddress(i)
    \/ AwaitMessaging(i) \/ NetworkUnknown(i)
    \/ RunServicesOfWallet(i) \/ RunServicesOfExtension(i) \/ DidAnswered(i)

SignStep(r) ==
    WalletSigns(r) \/ ExtensionPrompts(r) \/ UserSigns(r) \/ UserRefuses(r)

Next ==
    \/ \E s \in Signers : Connect(s)
    \/ SelectAccount
    \/ \E i \in Inits : InitStep(i)
    \/ \E r \in Runs : SignStep(r)
    \/ \E l \in Logins : LoginWithCachedToken(l) \/ LoginWithNewToken(l) \/ Posted(l)

Spec == Init /\ [][Next]_vars

(* The wallet, the user and the server answer; nobody has to connect, to   *)
(* select an account or to log in.                                         *)
FairSpec ==
    /\ Spec
    /\ \A i \in Inits : WF_vars(InitStep(i))
    /\ \A r \in Runs : WF_vars(SignStep(r))
    /\ \A l \in Logins : WF_vars(Posted(l))

-----------------------------------------------------------------------------
(* Properties *)

(* Every variable holds a value of its type. *)
TypeOK ==
    /\ inBrowser \in BOOLEAN /\ emits \in BOOLEAN /\ overlapped \in BOOLEAN
    /\ selected \in Accounts
    /\ signer \in Signers
    /\ {address, owner, did, session} \subseteq Accounts
    /\ publicKey \in Accounts \cup {NoAccount}
    /\ identityToken \in {NoToken} \cup [iss : Accounts, by : Accounts]
    /\ listeners \in Nat
    /\ at \in [Runs -> Busy \cup {"idle", "posting", "done", "failed", "failedEarly"}]
    /\ read \in [Runs -> Accounts \cup {NoAccount}]
    /\ prompted \in [Runs -> Accounts \cup {NoAccount}]

(* However runs of init() overlap, a service works for another account     *)
(* than SignerService only while the run that set the address has yet to   *)
(* reach the service, or because it threw before (lines 33-49).            *)
OwnerFollowsAddress ==
    owner # address =>
        \E i \in Inits :
            /\ at[i] \in {"network", "messaging", "failedEarly"}
            /\ read[i] = address

(* An identity token names the account that signed it, although the        *)
(* account may change between the capture of the address and the signature *)
(* (lines 196-228).                                                        *)
TokenProvesAccount == identityToken.iss = identityToken.by

(* publicKeyAndIdentityToken() returns a key and a token of the same       *)
(* account.  The one exception: in a browser init() forgets the key and    *)
(* not the token, and publicKey() then takes the key of a wallet object    *)
(* (lines 31, 168-169).                                                    *)
KeyMatchesToken ==
    HasIdentityToken =>
        \/ publicKey = identityToken.iss
        \/ inBrowser /\ publicKey = signer

(* After a change of account that did not overlap with another one, all    *)
(* services and SignerService act for the account of the signer, unless    *)
(* init() threw, or the signer is an extension that reports no events.     *)
SerialChangeIsConsistent ==
    /\ Quiet
    /\ ~overlapped
    /\ \A i \in Inits : at[i] \in {"idle", "done"}
    /\ IsWallet(signer) \/ emits
    => {address, owner, did} = {AccountOf(signer)}

(* Line 53: onInit "Registers reinitialization of dependent service on     *)
(* signer reconnection".  So when every init() has returned without an     *)
(* error, all services act for the account of the connected signer.        *)
DependentsFollowSigner ==
    /\ \A i \in Inits : at[i] \in {"idle", "done"}
    /\ IsWallet(signer)
    => {address, owner, did} = {AccountOf(signer)}

(* cacheClient.service.ts:48: "If login still fails then signs new         *)
(* identity token and requests access token", for a session that (314)     *)
(* "corresponds to signer".  So a login made after every init() has         *)
(* returned without an error is for the account of the signer.             *)
LoginIsForSigner ==
    [][\A l \in Logins :
          /\ \A i \in Inits : at[i] \in {"idle", "done"}
          /\ LoginWithCachedToken(l)
          => read'[l] = address]_vars
=============================================================================
