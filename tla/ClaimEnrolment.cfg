SPECIFICATION Spec
CONSTANTS
    c1 = c1
    c2 = c2
    alice = alice
    bob = bob
    heatPump = heatPump
    Clients = {c1, c2}
    Accounts = {alice, bob}
    AccountsOf <- AccountsOfTwo
    Subjects = {heatPump}
    MayAgree <- AliceForAll
    Nobody = nobody
    Roles = {"member", "admin"}
    Requires <- Ladder
    Kinds <- ChainForAdmin
    Ids = {i1, i2}
SYMMETRY Symmetry
INVARIANTS
    TypeOK
    EnrolledMeetsPrerequisites
    RegistrationIsExplained
    ReadyClaimRegisters
PROPERTIES
    ImplementsEnrolment
