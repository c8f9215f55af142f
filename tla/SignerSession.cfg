SPECIFICATION Spec
CONSTANTS
    Accounts = {alice, bob}
    NoAccount = none
    Extension = extension
    Inits = {i1, i2, i3}
    Logins = {l1}
SYMMETRY Interchangeable
CHECK_DEADLOCK FALSE
INVARIANTS
    TypeOK
    OwnerFollowsAddress
    TokenProvesAccount
    KeyMatchesToken
    SerialChangeIsConsistent
