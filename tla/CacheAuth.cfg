SPECIFICATION FairSpec
CONSTANTS
    Requests = {r1, r2, x1}
    Exempt = {x1}
    Logins = {l1}
    RefreshMayWork = TRUE
    LoginMayFail = TRUE
INVARIANTS
    TypeOK
    SingleAuthentication
    FlagIsExplained
    StrandingIsExplained
    NoCallerForgotten
    SessionIsWhole
PROPERTIES
    ImplementsApiCall
    AuthenticationEnds
    RetryResolvesOrStranded
