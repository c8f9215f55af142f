----------------------------- MODULE CacheAuth -----------------------------
(***************************************************************************)
(* Authentication of CacheClient (modules/cacheClient): requests to the    *)
(* cache server, the response interceptor that queues the ones refused     *)
(* with 401 or 403, the authentication it starts, and login().             *)
(*                                                                         *)
(* JavaScript runs one callback at a time, so an action is the code between*)
(* two awaits.  Continuations of promises that are already resolved run in *)
(* the same turn, so the end of authenticate() and the code after its      *)
(* await in handleError() or login() are one action.                       *)
(*                                                                         *)
(* The cache server and the wallet are external: a token is named by the   *)
(* answer that brought it, and the server may refuse any request.          *)
(***************************************************************************)
EXTENDS Naturals, FiniteSets

CONSTANTS
    Requests,           \* calls of the API methods of the client
    Exempt,             \* those whose url contains a fragment that handleError excludes
    Logins,             \* calls of login()
    RefreshMayWork,     \* can the server accept a refresh token?
    LoginMayFail        \* can the wallet refuse to sign, or the server refuse a login?

ASSUME ExemptAssumption == Exempt \subseteq Requests
ASSUME DistinctAssumption == Requests \cap Logins = {}
ASSUME SwitchAssumption == RefreshMayWork \in BOOLEAN /\ LoginMayFail \in BOOLEAN

VARIABLES
    request,            \* what the caller of each request has seen
    resend,             \* the second delivery of each request, if any
    deliveries,         \* how many times each request was sent (history variable)
    failedRequests,     \* the queue of callbacks, each named by its request
    isAuthenticating,   \* the flag of the interceptor
    phase,              \* where each call of handleError/login is in authenticate()
    header,             \* the session whose token the httpClient sends
    refresh_token,      \* the session whose refresh token the client keeps
    authEnabled,        \* the server supports authentication
    isBrowser           \* the refresh token is a cookie

tokens == <<header, refresh_token>>

vars == <<request, resend, deliveries, failedRequests, isAuthenticating, phase,
          tokens, authEnabled, isBrowser>>

Callers == Requests \cup Logins

(* A session is what the server grants a call of authenticate(), when it   *)
(* refreshes or when it logs in.                                           *)
NoSession == <<>>

Sessions == {NoSession} \cup (Callers \X {"refresh", "login"})

Verdict == {"ok", "failed"}

(***************************************************************************)
(* Phases of a call of authenticate().  "refreshingUndefined" is a refresh *)
(* request sent with refresh_token=undefined.  "selfQueued" is an inner    *)
(* request of authenticate() that waits in failedRequests: the exclusions  *)
(* of handleError keep it from happening.                                  *)
(***************************************************************************)
Active == {"refreshing", "refreshingUndefined", "probing", "signing",
           "loggingIn", "selfQueued"}

Finished == {"refreshed", "loggedIn", "threw"}

Running(p) == phase[p] \in Active

(* handleError: the condition under which a 401 or 403 is intercepted. *)
Url(r) == IF r \in Exempt THEN "assetsOwner" ELSE "api"

(* mutant: the probe of isAuthenticated() is not excluded *)
InterceptedProbe(url) == authEnabled /\ url \notin {"login", "refreshToken"}

Intercepted(url) == authEnabled /\ url \notin {"login", "refreshToken", "assetsOwner"}

Init ==
    /\ request = [r \in Requests |-> "idle"]
    /\ resend = [r \in Requests |-> "none"]
    /\ deliveries = [r \in Requests |-> 0]
    /\ failedRequests = {}
    /\ isAuthenticating = FALSE
    /\ phase = [p \in Callers |-> "idle"]
    /\ header = NoSession /\ refresh_token = NoSession
    /\ authEnabled \in BOOLEAN
    /\ isBrowser \in BOOLEAN

-----------------------------------------------------------------------------
(* API requests and their first answer *)

Send(r) ==
    /\ request[r] = "idle"
    /\ request' = [request EXCEPT ![r] = "sent"]
    /\ deliveries' = [deliveries EXCEPT ![r] = @ + 1]
    /\ UNCHANGED <<resend, failedRequests, isAuthenticating, phase,
                   tokens, authEnabled, isBrowser>>

(* An answer that the interceptor passes on: success, or an error that is *)
(* not a 401 or 403.                                                      *)
Pass(r) ==
    /\ request[r] = "sent"
    /\ \E v \in Verdict : request' = [request EXCEPT ![r] = v]
    /\ UNCHANGED <<resend, deliveries, failedRequests, isAuthenticating, phase,
                   tokens, authEnabled, isBrowser>>

(* The first request of authenticate(): a refresh, with the refresh token *)
(* the client has at that moment.                                         *)
FirstPhase ==
    IF isBrowser \/ refresh_token # NoSession THEN "refreshing" ELSE "refreshingUndefined"

(* handleError on a 401 or 403: reject, or queue the retry and start an   *)
(* authentication unless one is running.                                  *)
Refuse(r) ==
    /\ request[r] = "sent"
    /\ ~Intercepted(Url(r))
    /\ request' = [request EXCEPT ![r] = "failed"]
    /\ UNCHANGED <<resend, deliveries, failedRequests, isAuthenticating, phase,
                   tokens, authEnabled, isBrowser>>

Queue(r) ==
    /\ request[r] = "sent"
    /\ Intercepted(Url(r))
    /\ request' = [request EXCEPT ![r] = "waiting"]
    /\ failedRequests' = failedRequests \cup {r}
    /\ UNCHANGED <<resend, deliveries, tokens, authEnabled, isBrowser>>

QueueBehind(r) ==
    /\ isAuthenticating
    /\ Queue(r)
    /\ UNCHANGED <<isAuthenticating, phase>>

(* mutant: the flag is not tested *)
QueueAndAuthenticateAlways(r) ==
    /\ Queue(r)
    /\ isAuthenticating' = TRUE
    /\ phase' = [phase EXCEPT ![r] = FirstPhase]

QueueAndAuthenticate(r) ==
    /\ ~isAuthenticating
    /\ Queue(r)
    /\ isAuthenticating' = TRUE
    /\ phase' = [phase EXCEPT ![r] = FirstPhase]

(* The second delivery is answered.  Its caller sees the answer unless its *)
(* own handleError still awaits authenticate(), or has thrown.             *)
ResendAnswered(r) ==
    /\ resend[r] = "sent"
    /\ \E v \in Verdict :
          /\ resend' = [resend EXCEPT ![r] = v]
          /\ request' = IF request[r] = "waiting" /\ ~Running(r)
                        THEN [request EXCEPT ![r] = v]
                        ELSE request
    /\ UNCHANGED <<deliveries, failedRequests, isAuthenticating, phase,
                   tokens, authEnabled, isBrowser>>

-----------------------------------------------------------------------------
(* authenticate(), run by the handleError of a request or by login() *)

(* handleError after authenticate() returns: the flag is reset, and the   *)
(* caller gets the answer of its second delivery if that is already in.   *)
ResumeKeepsFlag(p) ==           \* mutant: the flag is not reset
    /\ UNCHANGED isAuthenticating
    /\ request' = IF p \in Requests /\ resend[p] \in Verdict
                  THEN [request EXCEPT ![p] = resend[p]]
                  ELSE request

ResumeWithoutAnswer(p) ==       \* mutant: an answer that is already in is dropped
    /\ isAuthenticating' = (isAuthenticating /\ p \notin Requests)
    /\ UNCHANGED request

ResumeTooEarly(p) ==            \* mutant: the answer is not waited for
    /\ isAuthenticating' = (isAuthenticating /\ p \notin Requests)
    /\ request' = IF p \in Requests THEN [request EXCEPT ![p] = resend[p]] ELSE request

Resume(p) ==
    /\ isAuthenticating' = (isAuthenticating /\ p \notin Requests)
    /\ request' = IF p \in Requests /\ resend[p] \in Verdict
                  THEN [request EXCEPT ![p] = resend[p]]
                  ELSE request

(* Every queued callback runs, and resends its request; none returns a    *)
(* value, so the filter empties the queue.                                *)
QueueRuns ==
    /\ resend' = [r \in Requests |-> IF r \in failedRequests THEN "sent" ELSE resend[r]]
    /\ deliveries' = [r \in Requests |->
           IF r \in failedRequests THEN deliveries[r] + 1 ELSE deliveries[r]]

RunQueueNever == UNCHANGED <<resend, deliveries, failedRequests>>      \* mutant

RunQueueAndKeepIt == QueueRuns /\ UNCHANGED failedRequests             \* mutant

DropQueue == failedRequests' = {} /\ UNCHANGED <<resend, deliveries>>   \* mutant

RunQueue == QueueRuns /\ failedRequests' = {}

(* authenticate() throws: nothing after its await is run. *)
Throw(p) ==
    /\ phase' = [phase EXCEPT ![p] = "threw"]
    /\ request' = IF p \in Requests THEN [request EXCEPT ![p] = "failed"] ELSE request
    /\ UNCHANGED <<resend, deliveries, failedRequests, isAuthenticating, tokens,
                   authEnabled, isBrowser>>

(* An inner request fails, possibly with 401: the interceptor sees it too. *)
AfterFailure(url, next) == IF Intercepted(url) THEN "selfQueued" ELSE next

ChangePhase(p, next) ==
    /\ phase' = [phase EXCEPT ![p] = next]
    /\ UNCHANGED <<request, resend, deliveries, failedRequests, isAuthenticating,
                   tokens, authEnabled, isBrowser>>

(* In a browser the access token is a cookie.                              *)
SetHeader(session) == header' = IF isBrowser THEN header ELSE session

RefreshOk(p) ==
    /\ RefreshMayWork
    /\ phase[p] = "refreshing"
    /\ phase' = [phase EXCEPT ![p] = "probing"]
    /\ SetHeader(<<p, "refresh">>)
    /\ UNCHANGED <<request, resend, deliveries, failedRequests, isAuthenticating,
                   refresh_token, authEnabled, isBrowser>>

RefreshFail(p) ==
    /\ phase[p] \in {"refreshing", "refreshingUndefined"}
    /\ ChangePhase(p, AfterFailure("refreshToken", "signing"))

(* isAuthenticated() after a refresh: on success authenticate() returns at *)
(* once, before the line that runs the queue.                              *)
ProbeOkKeepingOld(p) ==         \* mutant: the new refresh token is not stored
    /\ phase[p] = "probing"
    /\ phase' = [phase EXCEPT ![p] = "refreshed"]
    /\ Resume(p)
    /\ UNCHANGED <<resend, deliveries, failedRequests, tokens, authEnabled, isBrowser>>

ProbeOk(p) ==
    /\ phase[p] = "probing"
    /\ phase' = [phase EXCEPT ![p] = "refreshed"]
    /\ refresh_token' = <<p, "refresh">>
    /\ Resume(p)
    /\ UNCHANGED <<resend, deliveries, failedRequests, header, authEnabled, isBrowser>>

ProbeFail(p) ==
    /\ phase[p] = "probing"
    /\ ChangePhase(p, AfterFailure("assetsOwner", "signing"))

Sign(p) ==
    /\ phase[p] = "signing"
    /\ ChangePhase(p, "loggingIn")

SignThrow(p) ==
    /\ LoginMayFail
    /\ phase[p] = "signing"
    /\ Throw(p)

(* POST /login succeeds: the session is stored and the queue is run. *)
LoginOk(p) ==
    /\ phase[p] = "loggingIn"
    /\ phase' = [phase EXCEPT ![p] = "loggedIn"]
    /\ SetHeader(<<p, "login">>)
    /\ refresh_token' = <<p, "login">>
    /\ RunQueue
    /\ Resume(p)
    /\ UNCHANGED <<authEnabled, isBrowser>>

(* The failed login is either passed on and thrown, or (were its url not  *)
(* excluded) queued.                                                      *)
LoginFail(p) ==
    /\ LoginMayFail
    /\ phase[p] = "loggingIn"
    /\ IF Intercepted("login") THEN ChangePhase(p, "selfQueued") ELSE Throw(p)

-----------------------------------------------------------------------------
(* login(): probe the session, authenticate if there is none *)

Login(p) ==
    /\ phase[p] = "idle"
    /\ ChangePhase(p, "checking")

CheckOk(p) ==
    /\ phase[p] = "checking"
    /\ ChangePhase(p, "valid")

CheckFail(p) ==
    /\ phase[p] = "checking"
    /\ ChangePhase(p, AfterFailure("assetsOwner", FirstPhase))

(* init() again, on a reconnection of the signer: another chain may have   *)
(* a cache server without authentication.  The httpClient is a new one; the*)
(* queue, the flag and the refresh token stay.                             *)
Reinit ==
    /\ authEnabled' \in BOOLEAN
    /\ header' = NoSession
    /\ UNCHANGED <<request, resend, deliveries, failedRequests, isAuthenticating, phase,
                   refresh_token, isBrowser>>

-----------------------------------------------------------------------------
Answer(r) == Pass(r) \/ Refuse(r) \/ QueueBehind(r) \/ QueueAndAuthenticate(r)

AuthStep(p) ==
    \/ RefreshOk(p) \/ RefreshFail(p) \/ ProbeOk(p) \/ ProbeFail(p)
    \/ Sign(p) \/ SignThrow(p) \/ LoginOk(p) \/ LoginFail(p)

CheckStep(p) == CheckOk(p) \/ CheckFail(p)

Next ==
    \/ \E r \in Requests : Send(r) \/ Answer(r) \/ ResendAnswered(r)
    \/ \E p \in Callers : AuthStep(p)
    \/ \E p \in Logins : Login(p) \/ CheckStep(p)
    \/ Reinit

Spec == Init /\ [][Next]_vars

(***************************************************************************)
(* The server answers, or the request ends with a network error, and the   *)
(* wallet answers.  Nothing obliges the application to call anything.      *)
(***************************************************************************)
Fairness ==
    /\ \A r \in Requests : WF_vars(Answer(r)) /\ WF_vars(ResendAnswered(r))
    /\ \A p \in Callers : WF_vars(AuthStep(p))
    /\ \A p \in Logins : WF_vars(CheckStep(p))

FairSpec == Spec /\ Fairness

-----------------------------------------------------------------------------
(* Properties *)

(* Every variable holds a value of its type. *)
TypeOK ==
    /\ request \in [Requests -> {"idle", "sent", "waiting"} \cup Verdict]
    /\ resend \in [Requests -> {"none", "sent"} \cup Verdict]
    /\ deliveries \in [Requests -> Nat]
    /\ failedRequests \subseteq Requests
    /\ isAuthenticating \in BOOLEAN
    /\ phase \in [Callers -> {"idle", "checking", "valid"} \cup Active \cup Finished]
    /\ header \in Sessions /\ refresh_token \in Sessions
    /\ authEnabled \in BOOLEAN
    /\ isBrowser \in BOOLEAN

(* However many requests are refused at once, the interceptor runs one     *)
(* authentication at a time, and the flag is up while it runs              *)
(* (handleError, lines 102-106).                                           *)
SingleAuthentication ==
    \A p, q \in Requests : Running(p) /\ Running(q) => p = q /\ isAuthenticating

(* The flag is up only on behalf of an authentication that runs, or that   *)
(* has thrown: no other path leaves it up (lines 102-106).                 *)
FlagIsExplained ==
    isAuthenticating => \E r \in Requests : Running(r) \/ phase[r] = "threw"

(* A request stays queued with nothing running that would resend it only   *)
(* if an authentication of the interceptor ended by a refresh (line 59) or *)
(* threw (line 104): these two are the only ways to strand a request.      *)
StrandingIsExplained ==
    failedRequests # {} =>
        \E r \in Requests : Running(r) \/ phase[r] \in {"refreshed", "threw"}

(* A caller that waits is remembered: its retry is queued, or on its way,  *)
(* or answered while its own handleError still authenticates (97-107).     *)
NoCallerForgotten ==
    \A r \in Requests : request[r] = "waiting" =>
        \/ r \in failedRequests
        \/ resend[r] = "sent"
        \/ resend[r] \in Verdict /\ Running(r)

(* Outside a browser, the token that the client sends and the refresh token*)
(* that it keeps are of one session, unless the authentication that brought*)
(* the former has not come to its end or threw, or one of the two is of an *)
(* authentication of login(), which may overlap with one of the            *)
(* interceptor: a refresh answered first is then kept beside the token of  *)
(* the other (lines 54-58 and 69-72).  Whether they did overlap is not     *)
(* told apart.                                                             *)
SessionIsWhole ==
    header \notin {NoSession, refresh_token} =>
        \E p \in Callers :
            \/ header = <<p, "refresh">> /\ (Running(p) \/ phase[p] = "threw")
            \/ \E q \in Callers :
                  /\ header \in {<<p, "refresh">>, <<p, "login">>}
                  /\ refresh_token = <<q, "refresh">>
                  /\ {p, q} \cap Logins # {}

(* CacheClient implements ApiCall: a request is delivered at most twice,   *)
(* never again after its caller has seen a success, and settles once.      *)
Seen(r) == IF request[r] \in {"sent", "waiting"} THEN "pending" ELSE request[r]

Promise == INSTANCE ApiCall WITH
    outcome <- [r \in Requests |-> Seen(r)]

ImplementsApiCall == Promise!Spec

(* The inner requests of authenticate() never wait for the authentication  *)
(* they are part of: every authentication ends (the three url exclusions   *)
(* of handleError, lines 92-94).                                           *)
AuthenticationEnds ==
    \A p \in Callers : Running(p) ~> phase[p] \in Finished

(* A caller that waits gets an answer, unless an authentication ends by a  *)
(* refresh or throws: then its retry may stay queued (lines 59 and 104).   *)
RetryResolvesOrStranded ==
    \A r \in Requests :
        request[r] = "waiting" ~>
            \/ request[r] \in Verdict
            \/ \E p \in Requests : phase[p] \in {"refreshed", "threw"}

(* Lines 48-49: authenticate() "Refreshes access token. [...] After        *)
(* authentication runs previously failed requests".  So a caller that      *)
(* waits gets an answer.                                                   *)
RetryResolves ==
    \A r \in Requests : request[r] = "waiting" ~> request[r] \in Verdict

(* Line 79: handleError "Queues failed requests and starts authentication  *)
(* process".  So a request is queued only behind a running authentication. *)
QueueingStartsAuthentication ==
    [][failedRequests' \ failedRequests # {} =>
          \E r \in Requests : Running(r)']_vars
=============================================================================
