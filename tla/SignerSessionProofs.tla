------------------------ MODULE SignerSessionProofs ------------------------
(***************************************************************************)
(* Proofs about SignerSession, for any accounts and any number of runs of  *)
(* init() and authenticate().                                              *)
(***************************************************************************)
EXTENDS SignerSession, FiniteSetTheorems, TLAPS

(* Whoever is asked to sign, and whatever is signed or posted, is known. *)
SignInv ==
    \A r \in Runs :
        /\ at[r] = "prompt" => prompted[r] \in Accounts
        /\ at[r] \in {"block", "prompt", "posting"} => read[r] \in Accounts

TInv == TypeOK /\ SignInv

LEMMA InitTypes == Init => TInv
<1> SUFFICES ASSUME Init PROVE TypeOK /\ SignInv
  BY DEF TInv
<1>1. inBrowser \in BOOLEAN /\ emits \in BOOLEAN /\ overlapped \in BOOLEAN
  BY DEF Init
<1>2. /\ address \in Accounts /\ publicKey \in Accounts /\ owner \in Accounts
      /\ did \in Accounts /\ session \in Accounts
  BY DEF Init, Signers, AccountOf
<1>3. identityToken \in {NoToken} \cup [iss : Accounts, by : Accounts]
  BY <1>2 DEF Init, Token
<1>4. listeners \in Nat
  BY DEF Init
<1>5. /\ at \in [Runs -> {"idle"}]
      /\ read \in [Runs -> {NoAccount}] /\ prompted \in [Runs -> {NoAccount}]
  BY DEF Init
<1>6. TypeOK
  BY <1>1, <1>2, <1>3, <1>4, <1>5 DEF TypeOK, Init
<1>7. SignInv
  BY <1>5 DEF SignInv
<1>8. QED
  BY <1>6, <1>7

(* The first turn of one or more runs of init(). *)
LEMMA StartTypes ==
    ASSUME TInv, NEW I \in SUBSET IdleInits, NEW s \in Signers, Start(I, s)
    PROVE  /\ overlapped' \in BOOLEAN
           /\ address' \in Accounts
           /\ publicKey' \in Accounts \cup {NoAccount}
           /\ at' \in [Runs -> Busy \cup {"idle", "posting", "done", "failed", "failedEarly"}]
           /\ read' \in [Runs -> Accounts \cup {NoAccount}]
           /\ \A r \in Runs : at'[r] \in {"block", "prompt", "posting"} =>
                 at'[r] = at[r] /\ read'[r] = read[r]
<1> USE DEF TInv, TypeOK, Start, Signers, IsWallet, Busy
<1>1. overlapped' \in BOOLEAN
  OBVIOUS
<1>2. address' \in Accounts /\ publicKey' \in Accounts \cup {NoAccount}
  OBVIOUS
<1>3. at' \in [Runs -> Busy \cup {"idle", "posting", "done", "failed", "failedEarly"}]
  OBVIOUS
<1>4. read' \in [Runs -> Accounts \cup {NoAccount}]
  OBVIOUS
<1>5. \A r \in Runs : at'[r] \in {"block", "prompt", "posting"} =>
         at'[r] = at[r] /\ read'[r] = read[r]
  OBVIOUS
<1>6. QED
  BY <1>1, <1>2, <1>3, <1>4, <1>5

LEMMA TypeStep == TInv /\ [Next]_vars => TInv'
<1> SUFFICES ASSUME TInv, [Next]_vars PROVE TypeOK' /\ SignInv'
  BY DEF TInv
<1> USE DEF TInv, TypeOK, SignInv, Busy
<1>1. ASSUME NEW s \in Signers, Connect(s) PROVE TypeOK' /\ SignInv'
  <2>1. PICK i \in IdleInits : Start({i}, s)
    BY <1>1 DEF Connect
  <2>2. {i} \in SUBSET IdleInits
    OBVIOUS
  <2>3. QED
    BY <1>1, <2>1, <2>2, StartTypes DEF Connect, env, copies
<1>2. ASSUME SelectAccount PROVE TypeOK' /\ SignInv'
  <2>1. PICK I \in SUBSET IdleInits : Start(I, signer)
    BY <1>2 DEF SelectAccount
  <2>2. QED
    BY <1>2, <2>1, StartTypes DEF SelectAccount, env, copies
<1>3. ASSUME NEW i \in Inits, InitStep(i) PROVE TypeOK' /\ SignInv'
  <2> i \in Runs
    BY DEF Runs
  <2>1. CASE ExtensionReadsAddress(i)
    BY <2>1 DEF ExtensionReadsAddress, env, copies, cache
  <2>2. CASE SetAddress(i)
    BY <2>2 DEF SetAddress, HasRead, env, copies, cache
  <2>3. CASE AwaitMessaging(i)
    BY <2>3 DEF AwaitMessaging, RegisterListener, env, copies, cache
  <2>4. CASE NetworkUnknown(i)
    BY <2>4 DEF NetworkUnknown, env, copies, cache
  <2>5. CASE RunServicesOfWallet(i)
    BY <2>5 DEF RunServicesOfWallet, CopyAddress, MessagingIsOver, RegisterListener,
       Signers, IsWallet, env
  <2>6. CASE RunServicesOfExtension(i)
    BY <2>6 DEF RunServicesOfExtension, CopyAddress, MessagingIsOver, RegisterListener,
       env, cache
  <2>7. CASE DidAnswered(i)
    BY <2>7 DEF DidAnswered, AccountOf, env, cache
  <2>8. QED
    BY <1>3, <2>1, <2>2, <2>3, <2>4, <2>5, <2>6, <2>7 DEF InitStep
<1>4. ASSUME NEW r \in Runs, SignStep(r) PROVE TypeOK' /\ SignInv'
  <2>1. CASE WalletSigns(r)
    <3>1. signer \in Accounts
      BY <2>1 DEF WalletSigns, IsWallet, Signers
    <3>2. QED
      BY <2>1, <3>1 DEF WalletSigns, Signed, ValidSignature, CacheSignature, Token, env,
         copies, cache
  <2>2. CASE ExtensionPrompts(r)
    BY <2>2 DEF ExtensionPrompts, env, copies, cache
  <2>3. CASE UserSigns(r)
    BY <2>3 DEF UserSigns, Signed, ValidSignature, CacheSignature, Token, env, copies, cache
  <2>4. CASE UserRefuses(r)
    BY <2>4 DEF UserRefuses, env, copies, cache
  <2>5. QED
    BY <1>4, <2>1, <2>2, <2>3, <2>4 DEF SignStep
<1>5. ASSUME NEW l \in Logins,
             LoginWithCachedToken(l) \/ LoginWithNewToken(l) \/ Posted(l)
      PROVE  TypeOK' /\ SignInv'
  <2> l \in Runs
    BY DEF Runs
  <2>1. CASE LoginWithCachedToken(l)
    BY <2>1 DEF LoginWithCachedToken, HasIdentityToken, env, copies, cache
  <2>2. CASE LoginWithNewToken(l)
    BY <2>2 DEF LoginWithNewToken, env, copies, cache
  <2>3. CASE Posted(l)
    BY <2>3 DEF Posted, env, copies, cache
  <2>4. QED
    BY <1>5, <2>1, <2>2, <2>3
<1>6. CASE UNCHANGED vars
  BY <1>6 DEF vars, env, copies, cache
<1>7. QED
  BY <1>1, <1>2, <1>3, <1>4, <1>5, <1>6 DEF Next

LEMMA Types == Spec => []TInv
BY InitTypes, TypeStep, PTL DEF Spec

(* TypeOK for every value of the constants: in particular no account is    *)
(* ever posted, signed for or copied before it is known.                   *)
THEOREM TypeCorrect == Spec => []TypeOK
<1>1. TInv => TypeOK
  BY DEF TInv
<1>2. QED
  BY <1>1, Types, PTL

-----------------------------------------------------------------------------
(* A service whose owner is not the address waits for the run of init()    *)
(* that set the address; what that run has read does not change.           *)
LEMMA OwnerStep == TInv /\ OwnerFollowsAddress /\ [Next]_vars => OwnerFollowsAddress'
<1> SUFFICES ASSUME TInv, OwnerFollowsAddress, [Next]_vars PROVE OwnerFollowsAddress'
  OBVIOUS
<1> DEFINE Behind(i) == at[i] \in {"network", "messaging", "failedEarly"} /\ read[i] = address
<1> USE RunsAssumption DEF OwnerFollowsAddress, TInv, TypeOK
<1>1. ASSUME NEW s \in Signers, NEW I \in SUBSET IdleInits, Start(I, s), owner' = owner
      PROVE  OwnerFollowsAddress'
  <2>1. CASE IsWallet(s) /\ I # {}
    <3>1. PICK i \in I : i \in Inits /\ i \in Runs
      BY <2>1 DEF IdleInits, Runs
    <3>2. at'[i] = "network" /\ read'[i] = address'
      BY <1>1, <2>1, <3>1 DEF Start
    <3>3. QED
      BY <3>1, <3>2
  <2>2. CASE ~IsWallet(s) \/ I = {}
    <3>1. address' = address /\ \A r \in Inits : read'[r] = read[r]
      BY <1>1, <2>2 DEF Start, Runs
    <3>2. \A i \in Inits : Behind(i) => at'[i] = at[i]
      BY <1>1 DEF Start, IdleInits, Runs
    <3>3. QED
      BY <1>1, <3>1, <3>2
  <2>3. QED
    BY <2>1, <2>2
<1>2. ASSUME NEW s \in Signers, Connect(s) PROVE OwnerFollowsAddress'
  <2>1. PICK i \in IdleInits : Start({i}, s)
    BY <1>2 DEF Connect
  <2>2. {i} \in SUBSET IdleInits /\ owner' = owner
    BY <1>2 DEF Connect, copies
  <2>3. QED
    BY <1>1, <2>1, <2>2
<1>3. ASSUME SelectAccount PROVE OwnerFollowsAddress'
  <2>1. PICK I \in SUBSET IdleInits : Start(I, signer)
    BY <1>3 DEF SelectAccount
  <2>2. owner' = owner
    BY <1>3 DEF SelectAccount, copies
  <2>3. QED
    BY <1>1, <2>1, <2>2
<1>4. ASSUME NEW i \in Inits, InitStep(i) PROVE OwnerFollowsAddress'
  <2> i \in Runs
    BY DEF Runs
  <2>1. CASE ExtensionReadsAddress(i)
    BY <2>1 DEF ExtensionReadsAddress, copies, Runs
  <2>2. CASE SetAddress(i)
    <3>1. at'[i] = "network" /\ read'[i] = address'
      BY <2>2 DEF SetAddress
    <3>2. QED
      BY <3>1
  <2>3. CASE AwaitMessaging(i) \/ NetworkUnknown(i)
    BY <2>3 DEF AwaitMessaging, NetworkUnknown, copies, Runs
  <2>4. CASE RunServicesOfWallet(i) \/ RunServicesOfExtension(i)
    BY <2>4 DEF RunServicesOfWallet, RunServicesOfExtension, CopyAddress
  <2>5. CASE DidAnswered(i)
    BY <2>5 DEF DidAnswered, Runs
  <2>6. QED
    BY <1>4, <2>1, <2>2, <2>3, <2>4, <2>5 DEF InitStep
<1>5. ASSUME NEW r \in Runs, SignStep(r) PROVE OwnerFollowsAddress'
  BY <1>5 DEF SignStep, WalletSigns, ExtensionPrompts, UserSigns, UserRefuses, Signed,
     copies, Runs
<1>6. ASSUME NEW l \in Logins,
             LoginWithCachedToken(l) \/ LoginWithNewToken(l) \/ Posted(l)
      PROVE  OwnerFollowsAddress'
  BY <1>6 DEF LoginWithCachedToken, LoginWithNewToken, Posted, copies, Runs
<1>7. CASE UNCHANGED vars
  BY <1>7 DEF vars, copies
<1>8. QED
  BY <1>2, <1>3, <1>4, <1>5, <1>6, <1>7 DEF Next

(* No overlap of runs of init() leaves a service with another owner than   *)
(* the address SignerService sends from, once the runs are over.           *)
THEOREM OwnersFollow == Spec => []OwnerFollowsAddress
<1>1. Init => OwnerFollowsAddress
  BY DEF Init, OwnerFollowsAddress
<1>2. QED
  BY <1>1, OwnerStep, Types, PTL DEF Spec

-----------------------------------------------------------------------------
(* What is known of the cached key and token: in node the key is never     *)
(* forgotten, which is what makes publicKey() keep the pair together.      *)
CacheInv ==
    /\ TokenProvesAccount
    /\ KeyMatchesToken
    /\ ~inBrowser => publicKey # NoAccount

LEMMA CacheStep == TInv /\ CacheInv /\ [Next]_vars => CacheInv'
<1> SUFFICES ASSUME TInv, CacheInv, [Next]_vars PROVE CacheInv'
  OBVIOUS
<1> USE DEF CacheInv, TokenProvesAccount, KeyMatchesToken, HasIdentityToken
<1>1. ASSUME NEW s \in Signers, Connect(s) PROVE CacheInv'
  <2>1. PICK i \in IdleInits : Start({i}, s)
    BY <1>1 DEF Connect
  <2>2. publicKey' = IF inBrowser THEN NoAccount ELSE publicKey
    BY <2>1 DEF Start
  <2>3. QED
    BY <1>1, <2>2 DEF Connect, env
<1>2. ASSUME SelectAccount PROVE CacheInv'
  <2>1. publicKey' \in {publicKey, NoAccount} /\ inBrowser
    BY <1>2 DEF SelectAccount, Start
  <2>2. QED
    BY <1>2, <2>1 DEF SelectAccount, env
<1>3. ASSUME NEW i \in Inits, InitStep(i) PROVE CacheInv'
  <2>1. CASE RunServicesOfWallet(i)
    <3>1. signer # NoAccount
      BY <2>1, AccountsAssumption DEF RunServicesOfWallet, IsWallet, TInv, TypeOK, Signers
    <3>2. QED
      BY <2>1, <3>1 DEF RunServicesOfWallet, env
  <2>2. CASE ~RunServicesOfWallet(i)
    <3>1. UNCHANGED <<env, signer, cache>>
      BY <1>3, <2>2 DEF InitStep, ExtensionReadsAddress, SetAddress, AwaitMessaging,
         NetworkUnknown, RunServicesOfExtension, DidAnswered
    <3>2. QED
      BY <3>1 DEF env, cache
  <2>3. QED
    BY <2>1, <2>2
<1>4. ASSUME NEW r \in Runs, SignStep(r) PROVE CacheInv'
  <2>1. ASSUME NEW by, Signed(r, by), WalletSigns(r) \/ UserSigns(r) PROVE CacheInv'
    <3>1. read[r] \in Accounts /\ UNCHANGED <<env, signer>>
      BY <2>1 DEF WalletSigns, UserSigns, TInv, SignInv
    <3>2. QED
      BY <2>1, <3>1, AccountsAssumption DEF Signed, ValidSignature, CacheSignature, Token,
         env, cache
  <2>2. CASE ExtensionPrompts(r) \/ UserRefuses(r)
    BY <2>2 DEF ExtensionPrompts, UserRefuses, env, cache
  <2>3. QED
    BY <1>4, <2>1, <2>2 DEF SignStep, WalletSigns, UserSigns
<1>5. ASSUME NEW l \in Logins,
             LoginWithCachedToken(l) \/ LoginWithNewToken(l) \/ Posted(l)
      PROVE  CacheInv'
  BY <1>5 DEF LoginWithCachedToken, LoginWithNewToken, Posted, env, cache
<1>6. CASE UNCHANGED vars
  BY <1>6 DEF vars, env, cache
<1>7. QED
  BY <1>1, <1>2, <1>3, <1>4, <1>5, <1>6 DEF Next

LEMMA CacheInvariance == Spec => []CacheInv
<1>1. Init => CacheInv
  <2> SUFFICES ASSUME Init PROVE CacheInv
    OBVIOUS
  <2>1. address \in Accounts
    BY InitTypes DEF TInv, TypeOK
  <2>2. QED
    BY <2>1, AccountsAssumption DEF Init, CacheInv, TokenProvesAccount, KeyMatchesToken,
       HasIdentityToken, NoToken, Token
<1>2. QED
  BY <1>1, CacheStep, Types, PTL DEF Spec

(* The cached identity token is always signed by the account it names.     *)
THEOREM CacheIsConsistent == Spec => []TokenProvesAccount
<1>1. CacheInv => TokenProvesAccount
  BY DEF CacheInv
<1>2. QED
  BY <1>1, CacheInvariance, PTL

(* The key that publicKeyAndIdentityToken returns with a cached token is   *)
(* that of the account the token names, but for the case of a browser      *)
(* wallet whose key was asked for again.                                   *)
THEOREM KeysMatchTokens == Spec => []KeyMatchesToken
<1>1. CacheInv => KeyMatchesToken
  BY DEF CacheInv
<1>2. QED
  BY <1>1, CacheInvariance, PTL

-----------------------------------------------------------------------------
(* A change of account that does not overlap with another one: what the    *)
(* only run of init() under way has done so far, as long as the account of *)
(* the signer is one that a run is started for whenever it changes.        *)
Clean == ~overlapped /\ \A i \in Inits : at[i] \notin {"failed", "failedEarly"}

Follows == IsWallet(signer) \/ emits

Expected(i) ==
    /\ at[i] = "address" => ~IsWallet(signer) /\ read[i] \in {NoAccount, selected}
    /\ at[i] \in {"network", "messaging"} => address = AccountOf(signer)
    /\ at[i] \in {"block", "prompt", "did"} =>
          ~IsWallet(signer) /\ address = AccountOf(signer) /\ owner = AccountOf(signer)

Consistent ==
    address = AccountOf(signer) /\ owner = AccountOf(signer) /\ did = AccountOf(signer)

StartInv ==
    /\ \A i \in Inits : at[i] = "idle" => read[i] = NoAccount
    /\ emits => listeners >= 1

OnlyOneBusy == \A i, j \in Inits : at[i] \in Busy /\ at[j] \in Busy => i = j

SerialInv ==
    /\ StartInv
    /\ Clean => OnlyOneBusy
    /\ Clean /\ Follows => (\A i \in Inits : Expected(i)) /\ (Quiet => Consistent)

(* One or more runs start.  Unless they overlap it is one.                 *)
LEMMA StartSerial ==
    ASSUME TInv, SerialInv, NEW I \in SUBSET IdleInits, I # {}, Start(I, signer'),
           signer' \in Signers, UNCHANGED <<emits, listeners, owner, did>>
    PROVE  SerialInv'
<1> USE RunsAssumption DEF SerialInv, TInv
<1>0. Inits \subseteq Runs /\ I \subseteq Inits
  BY DEF Runs, IdleInits
<1>1. StartInv'
  BY <1>0 DEF Start, StartInv, TypeOK
<1>2. SUFFICES ASSUME Clean' PROVE OnlyOneBusy' /\ (Follows' =>
                  (\A j \in Inits : Expected(j)') /\ (Quiet' => Consistent'))
  BY <1>1
<1>3. Quiet /\ ~(Cardinality(I) > 1)
  BY <1>2 DEF Clean, Start
<1>4. PICK i : I = {i}
  <2>1. IsFiniteSet(I)
    BY <1>0, FS_Subset
  <2>2. Cardinality(I) \in Nat /\ Cardinality(I) # 0
    BY <2>1, FS_CardinalityType, FS_EmptySet
  <2>3. Cardinality(I) = 1
    BY <1>3, <2>2
  <2>4. QED
    BY <2>1, <2>3, FS_Singleton
<1>5. /\ i \in Inits /\ at[i] = "idle" /\ read[i] = NoAccount
      /\ \A j \in Inits : j # i => at'[j] = at[j] /\ at[j] \notin Busy
  BY <1>0, <1>3, <1>4 DEF IdleInits, StartInv, Start, Quiet
<1>6. /\ IsWallet(signer') => at'[i] = "network" /\ address' = signer'
      /\ ~IsWallet(signer') => at'[i] = "address" /\ read'[i] = NoAccount
  BY <1>0, <1>4, <1>5 DEF Start
<1>7. OnlyOneBusy'
  BY <1>5 DEF OnlyOneBusy, Busy
<1>8. ~Quiet'
  BY <1>5, <1>6 DEF Quiet, Busy
<1>9. ASSUME NEW j \in Inits PROVE Expected(j)'
  <2>1. CASE j # i
    BY <1>5, <2>1 DEF Expected, Busy
  <2>2. CASE j = i /\ IsWallet(signer')
    BY <1>6, <2>2 DEF Expected, AccountOf, IsWallet
  <2>3. CASE j = i /\ ~IsWallet(signer')
    BY <1>6, <2>3 DEF Expected
  <2>4. QED
    BY <2>1, <2>2, <2>3
<1>10. QED
  BY <1>7, <1>8, <1>9

(* Steps that none of this is concerned with. *)
LEMMA OthersSerial ==
    ASSUME SerialInv, UNCHANGED <<emits, selected, signer, address, listeners, owner, did,
                                  overlapped>>,
           \A i \in Inits : at'[i] = at[i] /\ read'[i] = read[i]
    PROVE  SerialInv'
<1>1. StartInv' /\ (Clean' => Clean) /\ (Follows' => Follows) /\ (OnlyOneBusy => OnlyOneBusy')
  BY DEF SerialInv, StartInv, Clean, Follows, OnlyOneBusy, IsWallet
<1>2. \A i \in Inits : Expected(i) => Expected(i)'
  BY DEF Expected, AccountOf, IsWallet
<1>3. (Quiet' => Quiet) /\ (Consistent => Consistent')
  BY DEF Quiet, Consistent, AccountOf
<1>4. QED
  BY <1>1, <1>2, <1>3 DEF SerialInv

(* The run under way goes on, or is over. *)
LEMMA BusySerial ==
    ASSUME TInv, SerialInv, NEW i \in Inits, at[i] \in Busy,
           UNCHANGED <<emits, selected, signer, overlapped>>, listeners' >= listeners,
           listeners' \in Nat,
           \A j \in Inits : j # i => at'[j] = at[j] /\ read'[j] = read[j],
           at'[i] # "idle",
           Clean /\ Clean' /\ Follows /\ Expected(i) =>
               IF at'[i] \in Busy THEN Expected(i)' ELSE Consistent'
    PROVE  SerialInv'
<1> USE DEF SerialInv
<1>1. StartInv'
  BY DEF StartInv, TInv, TypeOK
<1>2. Clean' => Clean
  BY DEF Clean, Busy
<1>3. OnlyOneBusy => OnlyOneBusy'
  BY DEF OnlyOneBusy
<1>4. Follows' => Follows
  BY DEF Follows, IsWallet
<1>5. ASSUME Clean', Follows'
      PROVE  (\A j \in Inits : Expected(j)') /\ (Quiet' => Consistent')
  <2>1. Clean /\ Follows /\ Expected(i) /\ \A j \in Inits : j # i => at[j] \notin Busy
    BY <1>2, <1>4, <1>5 DEF OnlyOneBusy
  <2>2. ASSUME NEW j \in Inits, j # i PROVE Expected(j)'
    BY <2>1, <2>2 DEF Expected, Busy
  <2>3. CASE at'[i] \in Busy
    BY <1>5, <2>1, <2>2, <2>3 DEF Quiet
  <2>4. CASE at'[i] \notin Busy
    <3>1. Consistent'
      BY <1>5, <2>1, <2>4
    <3>2. Expected(i)'
      BY <2>4 DEF Expected, Busy
    <3>3. QED
      BY <2>2, <3>1, <3>2
  <2>5. QED
    BY <2>3, <2>4
<1>6. QED
  BY <1>1, <1>2, <1>3, <1>5

LEMMA SerialStep == TInv /\ TInv' /\ SerialInv /\ [Next]_vars => SerialInv'
<1> SUFFICES ASSUME TInv, TInv', SerialInv, [Next]_vars PROVE SerialInv'
  OBVIOUS
<1>a. Inits \subseteq Runs /\ listeners \in Nat /\ listeners' \in Nat /\ Inits \cap Logins = {}
  BY RunsAssumption DEF Runs, TInv, TypeOK
<1>1. ASSUME NEW s \in Signers, Connect(s) PROVE SerialInv'
  <2>1. PICK i \in IdleInits : Start({i}, s)
    BY <1>1 DEF Connect
  <2>2. {i} \in SUBSET IdleInits /\ {i} # {} /\ signer' = s
    BY <1>1 DEF Connect
  <2>3. QED
    BY <1>1, <2>1, <2>2, StartSerial DEF Connect, env, copies
<1>2. ASSUME SelectAccount PROVE SerialInv'
  <2>1. PICK I \in SUBSET IdleInits :
            Cardinality(I) = (IF emits THEN listeners ELSE 0) /\ Start(I, signer)
    BY <1>2 DEF SelectAccount
  <2>2. CASE I # {}
    <3>1. signer' \in Signers /\ Start(I, signer')
      BY <1>2, <2>1 DEF SelectAccount, TInv, TypeOK
    <3>2. UNCHANGED <<emits, listeners, owner, did>>
      BY <1>2 DEF SelectAccount, env, copies
    <3>3. QED
      BY <2>1, <2>2, <3>1, <3>2, StartSerial
  <2>3. CASE I = {}
    <3>1. ~emits
      BY <1>a, <2>1, <2>3, FS_EmptySet DEF SerialInv, StartInv
    <3>2. /\ UNCHANGED <<emits, signer, address, listeners, owner, did>>
          /\ \A j \in Inits : at'[j] = at[j] /\ read'[j] = read[j]
      BY <1>2, <1>a, <2>1, <2>3 DEF SelectAccount, Start, env, copies
    <3>3. overlapped => overlapped'
      BY <2>1 DEF Start
    <3>4. StartInv' /\ (Clean' => Clean) /\ (OnlyOneBusy => OnlyOneBusy')
      BY <3>2, <3>3 DEF SerialInv, StartInv, Clean, OnlyOneBusy
    <3>5. Follows' => IsWallet(signer) /\ Follows
      BY <3>1, <3>2 DEF Follows, IsWallet
    <3>6. IsWallet(signer) => AccountOf(signer)' = AccountOf(signer)
      BY <3>2 DEF AccountOf, IsWallet
    <3>7. ASSUME NEW j \in Inits, IsWallet(signer), Expected(j) PROVE Expected(j)'
      BY <3>2, <3>6, <3>7 DEF Expected, IsWallet
    <3>8. (Quiet' => Quiet) /\ (IsWallet(signer) /\ Consistent => Consistent')
      BY <3>2, <3>6 DEF Quiet, Consistent
    <3>9. QED
      BY <3>4, <3>5, <3>7, <3>8 DEF SerialInv
  <2>4. QED
    BY <2>2, <2>3
<1>3. ASSUME NEW i \in Inits, InitStep(i) PROVE SerialInv'
  <2> i \in Runs /\ at \in [Runs -> Busy \cup {"idle", "posting", "done", "failed", "failedEarly"}]
           /\ read \in [Runs -> Accounts \cup {NoAccount}] /\ selected \in Accounts
    BY <1>a DEF TInv, TypeOK
  <2>1. CASE ExtensionReadsAddress(i)
    <3>1. at'[i] = at[i] /\ at[i] = "address" /\ read'[i] = selected
      BY <2>1 DEF ExtensionReadsAddress
    <3>2. Expected(i) => Expected(i)'
      BY <2>1, <3>1 DEF ExtensionReadsAddress, Expected, IsWallet
    <3>3. \A j \in Inits : j # i => at'[j] = at[j] /\ read'[j] = read[j]
      BY <1>a, <2>1 DEF ExtensionReadsAddress
    <3>4. QED
      BY <1>a, <2>1, <3>1, <3>2, <3>3, BusySerial DEF ExtensionReadsAddress, Busy, env, copies
  <2>2. CASE SetAddress(i)
    <3>1. at[i] = "address" /\ at'[i] = "network" /\ address' = read[i] /\ read[i] # NoAccount
      BY <2>2 DEF SetAddress, HasRead
    <3>2. Expected(i) => Expected(i)'
      BY <2>2, <3>1 DEF SetAddress, Expected, IsWallet, AccountOf
    <3>3. \A j \in Inits : j # i => at'[j] = at[j] /\ read'[j] = read[j]
      BY <1>a, <2>2 DEF SetAddress
    <3>4. QED
      BY <1>a, <2>2, <3>1, <3>2, <3>3, BusySerial DEF SetAddress, Busy, env, copies
  <2>3. CASE AwaitMessaging(i)
    <3>1. at[i] = "network" /\ at'[i] = "messaging" /\ UNCHANGED <<address, selected, signer>>
      BY <2>3 DEF AwaitMessaging
    <3>2. Expected(i) => Expected(i)'
      BY <3>1 DEF Expected, AccountOf
    <3>3. \A j \in Inits : j # i => at'[j] = at[j] /\ read'[j] = read[j]
      BY <1>a, <2>3 DEF AwaitMessaging
    <3>4. listeners' >= listeners
      BY <1>a, <2>3 DEF AwaitMessaging, RegisterListener
    <3>5. QED
      BY <1>a, <2>3, <3>1, <3>2, <3>3, <3>4, BusySerial DEF AwaitMessaging, Busy, env, copies
  <2>4. CASE NetworkUnknown(i)
    <3>1. at[i] = "network" /\ at'[i] = "failedEarly" /\ ~Clean'
      BY <2>4 DEF NetworkUnknown, Clean
    <3>2. \A j \in Inits : j # i => at'[j] = at[j] /\ read'[j] = read[j]
      BY <1>a, <2>4 DEF NetworkUnknown
    <3>3. QED
      BY <1>a, <2>4, <3>1, <3>2, BusySerial DEF NetworkUnknown, Busy, env, copies
  <2>5. CASE RunServicesOfWallet(i)
    <3>1. /\ at[i] \in {"network", "messaging"} /\ at'[i] = "done" /\ listeners' >= listeners
          /\ IsWallet(signer) /\ owner' = address /\ did' = signer /\ address' = address
          /\ UNCHANGED <<emits, selected, signer, overlapped>>
      BY <1>a, <2>5 DEF RunServicesOfWallet, MessagingIsOver, RegisterListener, CopyAddress, env
    <3>2. Expected(i) => Consistent'
      BY <3>1 DEF Expected, Consistent, AccountOf, IsWallet
    <3>3. \A j \in Inits : j # i => at'[j] = at[j] /\ read'[j] = read[j]
      BY <1>a, <2>5 DEF RunServicesOfWallet
    <3>4. QED
      BY <1>a, <3>1, <3>2, <3>3, BusySerial DEF Busy
  <2>6. CASE RunServicesOfExtension(i)
    <3>1. /\ at[i] \in {"network", "messaging"} /\ at'[i] \in {"did", "block"}
          /\ listeners' >= listeners
          /\ ~IsWallet(signer) /\ owner' = address /\ address' = address
          /\ UNCHANGED <<emits, selected, signer, overlapped>>
      BY <1>a, <2>6 DEF RunServicesOfExtension, MessagingIsOver, RegisterListener, CopyAddress,
         env
    <3>2. Expected(i) => Expected(i)'
      BY <3>1 DEF Expected, AccountOf, IsWallet
    <3>3. \A j \in Inits : j # i => at'[j] = at[j] /\ read'[j] = read[j]
      BY <1>a, <2>6 DEF RunServicesOfExtension
    <3>4. QED
      BY <1>a, <3>1, <3>2, <3>3, BusySerial DEF Busy
  <2>7. CASE DidAnswered(i)
    <3>1. /\ at[i] = "did" /\ at'[i] = "done" /\ did' = selected
          /\ UNCHANGED <<emits, selected, signer, address, listeners, owner, overlapped>>
      BY <2>7 DEF DidAnswered, AccountOf, env
    <3>2. Expected(i) => Consistent'
      BY <3>1 DEF Expected, Consistent, AccountOf, IsWallet
    <3>3. \A j \in Inits : j # i => at'[j] = at[j] /\ read'[j] = read[j]
      BY <1>a, <2>7 DEF DidAnswered
    <3>4. QED
      BY <1>a, <3>1, <3>2, <3>3, BusySerial DEF Busy
  <2>8. QED
    BY <1>3, <2>1, <2>2, <2>3, <2>4, <2>5, <2>6, <2>7 DEF InitStep
<1>4. ASSUME NEW r \in Runs, SignStep(r) PROVE SerialInv'
  <2>1. /\ at[r] \in {"block", "prompt"}
        /\ UNCHANGED <<emits, selected, signer, address, listeners, owner, did, read, overlapped>>
        /\ \A j \in Runs : j # r => at'[j] = at[j]
        /\ r \in Inits => at'[r] \in {"prompt", "did", "failed"}
    BY <1>4 DEF SignStep, WalletSigns, ExtensionPrompts, UserSigns, UserRefuses, Signed, env,
       copies, TInv, TypeOK
  <2>2. CASE r \in Inits
    <3>1. Expected(r) /\ at'[r] \in Busy => Expected(r)'
      BY <2>1, <2>2 DEF Expected, AccountOf, IsWallet
    <3>2. Clean' => at'[r] \in Busy
      BY <2>1, <2>2 DEF Clean, Busy
    <3>3. at[r] \in Busy /\ at'[r] # "idle"
      BY <2>1, <2>2 DEF Busy
    <3>4. \A j \in Inits : j # r => at'[j] = at[j] /\ read'[j] = read[j]
      BY <1>a, <2>1
    <3>5. listeners' >= listeners
      BY <1>a, <2>1
    <3>6. QED
      BY <1>a, <2>1, <2>2, <3>1, <3>2, <3>3, <3>4, <3>5, BusySerial
  <2>3. CASE r \notin Inits
    BY <1>a, <2>1, <2>3, OthersSerial
  <2>4. QED
    BY <2>2, <2>3
<1>5. ASSUME NEW l \in Logins,
             LoginWithCachedToken(l) \/ LoginWithNewToken(l) \/ Posted(l)
      PROVE  SerialInv'
  <2>1. /\ UNCHANGED <<emits, selected, signer, address, listeners, owner, did, overlapped>>
        /\ \A j \in Inits : at'[j] = at[j] /\ read'[j] = read[j]
    <3>1. l \notin Inits
      BY <1>a
    <3>2. UNCHANGED <<emits, selected, signer, address, listeners, owner, did, overlapped>>
      BY <1>5 DEF LoginWithCachedToken, LoginWithNewToken, Posted, env, copies
    <3>3. (at' = [at EXCEPT ![l] = "posting"] \/ at' = [at EXCEPT ![l] = "block"]
             \/ at' = [at EXCEPT ![l] = "done"])
          /\ (read' = read \/ \E a \in Accounts : read' = [read EXCEPT ![l] = a])
      <4>1. CASE LoginWithCachedToken(l)
        BY <4>1 DEF LoginWithCachedToken, HasIdentityToken, TInv, TypeOK
      <4>2. CASE LoginWithNewToken(l)
        BY <4>2 DEF LoginWithNewToken, TInv, TypeOK
      <4>3. CASE Posted(l)
        BY <4>3 DEF Posted
      <4>4. QED
        BY <1>5, <4>1, <4>2, <4>3
    <3>4. \A j \in Inits : at'[j] = at[j] /\ read'[j] = read[j]
      BY <1>a, <3>1, <3>3 DEF TInv, TypeOK
    <3>5. QED
      BY <3>2, <3>4
  <2>2. QED
    BY <2>1, OthersSerial
<1>6. CASE UNCHANGED vars
  BY <1>6, OthersSerial DEF vars, env, copies
<1>7. QED
  BY <1>1, <1>2, <1>3, <1>4, <1>5, <1>6 DEF Next

(* A change of account that overlaps with no other one reaches all the     *)
(* services, unless init() threw or the signer reports no events (init(),  *)
(* emit()).                                                                *)
THEOREM SerialChangesReachAll == Spec => []SerialChangeIsConsistent
<1>1. Init => SerialInv
  <2> SUFFICES ASSUME Init PROVE SerialInv
    OBVIOUS
  <2>1. \A i \in Inits : i \in Runs /\ at[i] = "idle" /\ read[i] = NoAccount
    BY DEF Init, Runs
  <2>2. StartInv
    BY <2>1 DEF Init, StartInv
  <2>3. OnlyOneBusy /\ \A i \in Inits : Expected(i)
    BY <2>1 DEF OnlyOneBusy, Expected, Busy
  <2>4. Consistent
    BY DEF Init, Consistent
  <2>5. QED
    BY <2>2, <2>3, <2>4 DEF SerialInv
<1>2. SerialInv => SerialChangeIsConsistent
  BY DEF SerialInv, SerialChangeIsConsistent, Clean, Follows, Consistent
<1>3. QED
  BY <1>1, <1>2, SerialStep, Types, PTL DEF Spec
=============================================================================
