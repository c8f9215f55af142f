SPECIFICATION Spec
CONSTANTS
    Users = {alice}
    Nobody = nobody
    RootOwner = alice
    Organizations = {"o"}
    Applications = {"a"}
    RoleNames = {"r"}
    Legacy <- LegacyRole
    Concurrent = FALSE
    Lag = FALSE
INVARIANTS
    DefinitionHasName
