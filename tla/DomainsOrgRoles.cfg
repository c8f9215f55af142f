SPECIFICATION Spec
CONSTANTS
    Users = {alice, bob}
    Nobody = nobody
    RootOwner = alice
    Organizations = {"o"}
    Applications = {"a"}
    RoleNames = {"r"}
    Legacy = {}
    Concurrent = FALSE
    Lag = FALSE
INVARIANTS
    OrgTransferMovesAll
