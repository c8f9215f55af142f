SPECIFICATION FairSpec
CONSTANTS
    Accounts = {alice, bob}
    NoAccount = none
    Extension = extension
    Inits = {i1, i2}
    Logins = {l1}
CHECK_DEADLOCK FALSE
INVARIANTS
    DependentsFollowSigner
