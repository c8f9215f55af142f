SPECIFICATION FairSpec
CONSTANTS
    Requests = {r1, r2, x1}
    Exempt = {x1}
    Logins = {l1}
    RefreshMayWork = TRUE
    LoginMayFail = FALSE
PROPERTIES
    RetryResolves
