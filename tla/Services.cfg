SPECIFICATION FairSpec
CONSTANTS
    alice = alice
    bob = bob
    heatPump = heatPump
    Nobody = nobody
    Calls = {k1, k2}
    Accounts = {alice, bob}
    FirstAccount = alice
    Moves <- Once
    OrgOwner = alice
    Funds = 4
    Stakes = {1, 9}
    Principal = 1
    MinStakingPeriod = 1
    WithdrawDelay = 1
    MaxTime = 2
    Assets = {heatPump}
    Data <- SomeData
    Tokens <- SomeTokens
    Ids = {i1}
    Connections = {n1, n2, n3}
    NoConnection = none
    MaxSubscriptions = 2
    Nodes = {"org", "app", "role"}
    RootNode = "org"
    ChildrenOf <- Tree
    Owners = {alice, bob}
    RootOwner = alice
    FirstOwner <- OwnersOfTree
    Unknown = unknown
    MaxRuns = 2
    MaxSubmitted = 3
INVARIANTS
    StakingTypeOK
    DelayIsExact
    StakeLeavesGas
    PublicationTypeOK
    WrittenForSubject
    MessagingTypeOK
    WantedStaysLive
    MigrationTypeOK
    OwnersComeBack
    EverythingMoved
PROPERTIES
    VersionedClaimKeepsId
    ConnectEnds
    ImplementsHandover
CHECK_DEADLOCK FALSE
