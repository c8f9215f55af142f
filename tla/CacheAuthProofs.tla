-------------------------- MODULE CacheAuthProofs --------------------------
(***************************************************************************)
(* Proofs of the safety properties of CacheAuth, for any sets of requests  *)
(* and logins and for both values of each environment switch.              *)
(***************************************************************************)
EXTENDS CacheAuth, TLAPS

(* A request that has not been refused takes no part in authentication;   *)
(* one that runs an authentication has a caller that waits.               *)
PhaseInv ==
    \A r \in Requests :
        /\ request[r] \in {"idle", "sent"} => phase[r] = "idle"
        /\ Running(r) => request[r] = "waiting" /\ isAuthenticating

(* A queued request has not been delivered again yet, a second delivery   *)
(* belongs to a request that was refused, and its answer settles it.      *)
RetryInv ==
    \A r \in Requests :
        /\ r \in failedRequests =>
              resend[r] = "none" /\ request[r] \in {"waiting", "failed"}
        /\ resend[r] = "sent" => request[r] \in {"waiting", "failed"}
        /\ request[r] \in {"idle", "sent"} => resend[r] = "none"

(* The count of deliveries is what the state of the request says. *)
DeliveryInv ==
    \A r \in Requests :
        deliveries[r] = (IF request[r] = "idle" THEN 0
                         ELSE IF resend[r] = "none" THEN 1 ELSE 2)

IInv ==
    /\ TypeOK
    /\ PhaseInv
    /\ RetryInv
    /\ DeliveryInv
    /\ SingleAuthentication
    /\ FlagIsExplained
    /\ StrandingIsExplained
    /\ NoCallerForgotten

LEMMA PhaseSets ==
    /\ Active \cap Finished = {}
    /\ \A x \in {"idle", "checking", "valid"} : x \notin Active \cup Finished
BY DEF Active, Finished

LEMMA InitInv == Init => IInv
<1> SUFFICES ASSUME Init PROVE IInv
  OBVIOUS
<1>1. TypeOK
  BY DEF Init, TypeOK, Callers, Verdict, Sessions
<1>2. \A p \in Callers : ~Running(p)
  BY DEF Init, Running, Active
<1>3. PhaseInv /\ SingleAuthentication
  BY <1>2 DEF Init, PhaseInv, SingleAuthentication, Callers
<1>4. RetryInv /\ DeliveryInv /\ NoCallerForgotten
  BY DEF Init, RetryInv, DeliveryInv, NoCallerForgotten
<1>5. FlagIsExplained /\ StrandingIsExplained
  BY DEF Init, FlagIsExplained, StrandingIsExplained
<1>6. QED
  BY <1>1, <1>3, <1>4, <1>5 DEF IInv

-----------------------------------------------------------------------------
(* Every step keeps every variable in its type. *)
LEMMA TypeStep == TypeOK /\ [Next]_vars => TypeOK'
<1> SUFFICES ASSUME TypeOK, [Next]_vars PROVE TypeOK'
  OBVIOUS
<1> USE DEF TypeOK, Callers, Verdict, Active, Finished, tokens
<1>1. ASSUME NEW r \in Requests, Send(r) PROVE TypeOK'
  BY <1>1 DEF Send
<1>2. ASSUME NEW r \in Requests, Answer(r) PROVE TypeOK'
  BY <1>2 DEF Answer, Pass, Refuse, QueueBehind, QueueAndAuthenticate, Queue, FirstPhase
<1>3. ASSUME NEW r \in Requests, ResendAnswered(r) PROVE TypeOK'
  BY <1>3 DEF ResendAnswered
<1>4. ASSUME NEW p \in Callers, AuthStep(p) PROVE TypeOK'
  <2>1. CASE RefreshFail(p) \/ ProbeFail(p) \/ Sign(p)
    BY <2>1 DEF RefreshFail, ProbeFail, Sign, ChangePhase, AfterFailure
  <2>2. CASE RefreshOk(p)
    <3>1. header' \in Sessions
      BY <2>2 DEF RefreshOk, SetHeader, Sessions
    <3>2. QED
      BY <2>2, <3>1 DEF RefreshOk
  <2>3. CASE ProbeOk(p)
    <3>1. refresh_token' \in Sessions
      BY <2>3 DEF ProbeOk, Sessions
    <3>2. QED
      BY <2>3, <3>1 DEF ProbeOk, Resume
  <2>4. CASE SignThrow(p) \/ LoginFail(p)
    BY <2>4 DEF SignThrow, LoginFail, ChangePhase, Throw
  <2>5. CASE LoginOk(p)
    BY <2>5 DEF LoginOk, RunQueue, QueueRuns, Resume, SetHeader, Sessions
  <2>6. QED
    BY <1>4, <2>1, <2>2, <2>3, <2>4, <2>5 DEF AuthStep
<1>5. ASSUME NEW p \in Logins, Login(p) \/ CheckStep(p) PROVE TypeOK'
  BY <1>5 DEF Login, CheckStep, CheckOk, CheckFail, ChangePhase, AfterFailure, FirstPhase
<1>6. CASE Reinit
  BY <1>6 DEF Reinit, Sessions
<1>7. CASE UNCHANGED vars
  BY <1>7 DEF vars
<1>8. QED
  BY <1>1, <1>2, <1>3, <1>4, <1>5, <1>6, <1>7 DEF Next

(* TypeOK, for every value of the constants: no step of the client, the    *)
(* server or the wallet takes a variable out of its type.                  *)
THEOREM TypeCorrect == Spec => []TypeOK
<1>1. Init => TypeOK
  BY InitInv DEF IInv
<1>2. QED
  BY <1>1, TypeStep, PTL DEF Spec

-----------------------------------------------------------------------------
(* Preservation of IInv, one lemma per kind of step. *)

(* The invariant of a single request, and the part about all of them. *)
PerRequest == PhaseInv /\ RetryInv /\ DeliveryInv /\ NoCallerForgotten

Explained == SingleAuthentication /\ FlagIsExplained /\ StrandingIsExplained

(* A request is sent, or its first answer is passed on or rejected: it has *)
(* no part in authentication before or after.                              *)
LEMMA FirstDeliveryStep ==
    ASSUME IInv, NEW r \in Requests, Send(r) \/ Pass(r) \/ Refuse(r)
    PROVE  PerRequest' /\ Explained'
<1> USE DEF IInv, TypeOK, Callers, Verdict, Send, Pass, Refuse
<1>1. PhaseInv'
  BY DEF PhaseInv, Running, Active
<1>2. RetryInv' /\ DeliveryInv' /\ NoCallerForgotten'
  BY DEF RetryInv, DeliveryInv, NoCallerForgotten, Running
<1>3. Explained'
  BY DEF Explained, SingleAuthentication, FlagIsExplained, StrandingIsExplained, Running
<1>4. QED
  BY <1>1, <1>2, <1>3 DEF PerRequest

(* A refused request joins the queue behind a running authentication, or   *)
(* behind a flag that a thrown one left up.                                *)
LEMMA QueueBehindStep ==
    ASSUME IInv, NEW r \in Requests, QueueBehind(r)
    PROVE  PerRequest' /\ Explained'
<1> USE DEF IInv, TypeOK, Callers, Verdict, QueueBehind, Queue
<1>1. PhaseInv'
  BY DEF PhaseInv, Running, Active
<1>2. RetryInv' /\ DeliveryInv' /\ NoCallerForgotten'
  BY DEF RetryInv, DeliveryInv, NoCallerForgotten, Running
<1>3. Explained'
  BY DEF Explained, SingleAuthentication, FlagIsExplained, StrandingIsExplained, Running
<1>4. QED
  BY <1>1, <1>2, <1>3 DEF PerRequest

(* A refused request starts an authentication: the flag was down, so no    *)
(* other request was running one.                                          *)
LEMMA QueueAndAuthenticateStep ==
    ASSUME IInv, NEW r \in Requests, QueueAndAuthenticate(r)
    PROVE  PerRequest' /\ Explained'
<1> USE DEF IInv, TypeOK, Callers, Verdict, QueueAndAuthenticate, Queue
<1>1. phase' = [phase EXCEPT ![r] = FirstPhase] /\ FirstPhase \in Active
  BY DEF FirstPhase, Active
<1>2. /\ \A q \in Requests : Running(q)' <=> q = r
      /\ isAuthenticating'
  BY <1>1 DEF PhaseInv, Running
<1>3. PhaseInv'
  BY <1>1, <1>2 DEF PhaseInv
<1>4. RetryInv' /\ DeliveryInv' /\ NoCallerForgotten'
  BY <1>2 DEF RetryInv, DeliveryInv, NoCallerForgotten, PhaseInv
<1>5. Explained'
  BY <1>2 DEF Explained, SingleAuthentication, FlagIsExplained, StrandingIsExplained
<1>6. QED
  BY <1>3, <1>4, <1>5 DEF PerRequest

(* The second answer settles a waiting caller at once, unless its own      *)
(* handleError still runs: then Running keeps it remembered.               *)
LEMMA ResendStep ==
    ASSUME IInv, NEW r \in Requests, ResendAnswered(r)
    PROVE  PerRequest' /\ Explained'
<1> USE DEF IInv, TypeOK, Callers, Verdict, ResendAnswered
<1>1. PhaseInv'
  BY DEF PhaseInv, RetryInv, Running
<1>2. RetryInv' /\ DeliveryInv' /\ NoCallerForgotten'
  BY DEF RetryInv, DeliveryInv, NoCallerForgotten, Running
<1>3. Explained'
  BY DEF Explained, SingleAuthentication, FlagIsExplained, StrandingIsExplained, Running
<1>4. QED
  BY <1>1, <1>2, <1>3 DEF PerRequest

(* What matters here of a step of authenticate() to another phase. *)
Advance(p, next) ==
    /\ phase' = [phase EXCEPT ![p] = next]
    /\ UNCHANGED <<request, resend, deliveries, failedRequests, isAuthenticating>>

(* authenticate() goes from one inner request to the next: the set of      *)
(* requests that run an authentication does not change.                    *)
LEMMA InnerStep ==
    ASSUME IInv, NEW p \in Callers, NEW next \in Active,
           Running(p), Advance(p, next)
    PROVE  PerRequest' /\ Explained'
<1> USE DEF IInv, TypeOK, Callers, Advance
<1>1. /\ \A q \in Callers : Running(q)' <=> Running(q)
      /\ \A q \in Callers : q # p => phase'[q] = phase[q]
      /\ phase[p] \notin {"idle", "refreshed", "threw"}
  BY DEF Running, Active
<1>2. PhaseInv'
  BY <1>1 DEF PhaseInv
<1>3. RetryInv' /\ DeliveryInv' /\ NoCallerForgotten'
  BY <1>1 DEF RetryInv, DeliveryInv, NoCallerForgotten
<1>4. Explained'
  BY <1>1 DEF Explained, SingleAuthentication, FlagIsExplained, StrandingIsExplained
<1>5. QED
  BY <1>2, <1>3, <1>4 DEF PerRequest

(* A call of login() changes its own phase only, which no request has. *)
LEMMA LoginStep ==
    ASSUME IInv, NEW p \in Logins, NEW next, ChangePhase(p, next)
    PROVE  PerRequest' /\ Explained'
<1> USE DistinctAssumption DEF IInv, TypeOK, Callers, ChangePhase
<1>1. \A r \in Requests : phase'[r] = phase[r]
  OBVIOUS
<1>2. PhaseInv'
  BY <1>1 DEF PhaseInv, Running
<1>3. RetryInv' /\ DeliveryInv' /\ NoCallerForgotten'
  BY <1>1 DEF RetryInv, DeliveryInv, NoCallerForgotten, Running
<1>4. Explained'
  BY <1>1 DEF Explained, SingleAuthentication, FlagIsExplained, StrandingIsExplained, Running
<1>5. QED
  BY <1>2, <1>3, <1>4 DEF PerRequest

(* authenticate() returns early after a refresh: the flag goes down, and   *)
(* whoever is still queued is explained by the phase "refreshed".          *)
LEMMA ProbeOkStep ==
    ASSUME IInv, NEW p \in Callers, ProbeOk(p)
    PROVE  PerRequest' /\ Explained'
<1> USE DEF IInv, TypeOK, Callers, Verdict, ProbeOk
<1>1. /\ Running(p) /\ ~Running(p)' /\ phase[p] \notin {"idle", "refreshed", "threw"}
      /\ \A q \in Callers : q # p => phase'[q] = phase[q] /\ (Running(q)' <=> Running(q))
  BY DEF Running, Active
<1>2. CASE p \in Requests
  <2>1. /\ isAuthenticating' = FALSE
        /\ request[p] = "waiting"
        /\ \A q \in Requests : ~Running(q)'
    BY <1>1, <1>2 DEF Resume, PhaseInv, SingleAuthentication
  <2>2. /\ \A q \in Requests : q # p => request'[q] = request[q]
        /\ request'[p] \in Verdict => resend[p] = request'[p]
        /\ request'[p] = "waiting" => resend[p] \notin Verdict
        /\ request'[p] \in Verdict \cup {"waiting"}
    BY <1>2, <2>1 DEF Resume
  <2>3. PhaseInv'
    BY <1>1, <2>1, <2>2 DEF PhaseInv
  <2>4. RetryInv' /\ DeliveryInv' /\ NoCallerForgotten'
    BY <1>1, <2>1, <2>2 DEF RetryInv, DeliveryInv, NoCallerForgotten
  <2>5. Explained'
    BY <1>1, <1>2, <2>1 DEF Explained, SingleAuthentication, FlagIsExplained, StrandingIsExplained
  <2>6. QED
    BY <2>3, <2>4, <2>5 DEF PerRequest
<1>3. CASE p \notin Requests
  <2>1. /\ request' = request
        /\ isAuthenticating' = isAuthenticating
        /\ \A q \in Requests : phase'[q] = phase[q] /\ (Running(q)' <=> Running(q))
    BY <1>1, <1>3 DEF Resume
  <2>2. PerRequest'
    BY <2>1 DEF PerRequest, PhaseInv, RetryInv, DeliveryInv, NoCallerForgotten
  <2>3. Explained'
    BY <2>1 DEF Explained, SingleAuthentication, FlagIsExplained, StrandingIsExplained
  <2>4. QED
    BY <2>2, <2>3
<1>4. QED
  BY <1>2, <1>3

(* authenticate() throws: its caller is rejected, the flag stays up, and   *)
(* the phase "threw" explains both the flag and the queue.                 *)
LEMMA ThrowStep ==
    ASSUME IInv, NEW p \in Callers, Running(p), Throw(p)
    PROVE  PerRequest' /\ Explained'
<1> USE DEF IInv, TypeOK, Callers, Verdict, Throw
<1>1. /\ ~Running(p)' /\ phase'[p] = "threw" /\ phase[p] \notin {"idle", "refreshed", "threw"}
      /\ \A q \in Callers : q # p => phase'[q] = phase[q] /\ (Running(q)' <=> Running(q))
  BY DEF Running, Active
<1>2. /\ \A q \in Requests : q # p => request'[q] = request[q]
      /\ p \in Requests => request[p] = "waiting" /\ request'[p] = "failed"
  BY DEF PhaseInv
<1>3. PhaseInv'
  BY <1>1, <1>2 DEF PhaseInv
<1>4. RetryInv' /\ DeliveryInv' /\ NoCallerForgotten'
  BY <1>1, <1>2 DEF RetryInv, DeliveryInv, NoCallerForgotten
<1>5. Explained'
  BY <1>1, <1>2 DEF Explained, SingleAuthentication, FlagIsExplained, StrandingIsExplained
<1>6. QED
  BY <1>3, <1>4, <1>5 DEF PerRequest

(* A successful login empties the queue, so nothing is left to explain,    *)
(* and everyone who was queued is on the way.                              *)
LEMMA LoginOkStep ==
    ASSUME IInv, NEW p \in Callers, LoginOk(p)
    PROVE  PerRequest' /\ Explained'
<1> USE DEF IInv, TypeOK, Callers, Verdict, LoginOk, RunQueue, QueueRuns
<1>1. /\ Running(p) /\ ~Running(p)' /\ phase[p] \notin {"idle", "threw"}
      /\ phase'[p] # "idle"
      /\ \A q \in Callers : q # p => phase'[q] = phase[q] /\ (Running(q)' <=> Running(q))
  BY DEF Running, Active
<1>2. \A q \in Requests : q # p => request'[q] = request[q]
  BY DEF Resume
<1>3. p \in Requests =>
         /\ request[p] = "waiting"
         /\ request'[p] \in Verdict => resend[p] = request'[p]
         /\ request'[p] = "waiting" => resend[p] \notin Verdict
         /\ request'[p] \in Verdict \cup {"waiting"}
  BY <1>1 DEF Resume, PhaseInv
<1>4. PhaseInv'
  <2>1. \A q \in Requests : q # p /\ Running(q) => isAuthenticating'
    BY <1>1 DEF Resume, PhaseInv, SingleAuthentication
  <2>2. QED
    BY <1>1, <1>2, <1>3, <2>1 DEF PhaseInv
<1>5. RetryInv'
  BY <1>1, <1>2, <1>3 DEF RetryInv
<1>6. DeliveryInv'
  BY <1>2, <1>3 DEF DeliveryInv, RetryInv
<1>7. NoCallerForgotten'
  BY <1>1, <1>2, <1>3 DEF NoCallerForgotten
<1>8. SingleAuthentication'
  BY <1>1 DEF SingleAuthentication, Resume
<1>9. FlagIsExplained' /\ StrandingIsExplained'
  BY <1>1 DEF FlagIsExplained, StrandingIsExplained, Resume
<1>10. QED
  BY <1>4, <1>5, <1>6, <1>7, <1>8, <1>9 DEF PerRequest, Explained

(* Every step preserves the inductive invariant. *)
LEMMA StepInv == IInv /\ [Next]_vars => IInv'
<1> SUFFICES ASSUME IInv, [Next]_vars PROVE PerRequest' /\ Explained'
  BY TypeStep DEF IInv, PerRequest, Explained
<1>1. ASSUME NEW r \in Requests, Send(r) PROVE PerRequest' /\ Explained'
  BY <1>1, FirstDeliveryStep
<1>2. ASSUME NEW r \in Requests, Answer(r) PROVE PerRequest' /\ Explained'
  BY <1>2, FirstDeliveryStep, QueueBehindStep, QueueAndAuthenticateStep DEF Answer
<1>3. ASSUME NEW r \in Requests, ResendAnswered(r) PROVE PerRequest' /\ Explained'
  BY <1>3, ResendStep
<1>4. ASSUME NEW p \in Callers, AuthStep(p) PROVE PerRequest' /\ Explained'
  <2>1. CASE RefreshOk(p) \/ RefreshFail(p) \/ ProbeFail(p) \/ Sign(p)
    <3>1. PICK next \in Active : Advance(p, next)
      BY <2>1 DEF RefreshOk, RefreshFail, ProbeFail, Sign, ChangePhase, AfterFailure, Active, Advance
    <3>2. Running(p)
      BY <2>1 DEF RefreshOk, RefreshFail, ProbeFail, Sign, Running, Active
    <3>3. QED
      BY <3>1, <3>2, InnerStep
  <2>2. CASE ProbeOk(p)
    BY <2>2, ProbeOkStep
  <2>3. CASE SignThrow(p) \/ LoginFail(p)
    <3>1. Running(p) /\ "selfQueued" \in Active
      BY <2>3 DEF SignThrow, LoginFail, Running, Active
    <3>2. Throw(p) \/ Advance(p, "selfQueued")
      BY <2>3 DEF SignThrow, LoginFail, ChangePhase, Advance
    <3>3. QED
      BY <3>1, <3>2, InnerStep, ThrowStep
  <2>4. CASE LoginOk(p)
    BY <2>4, LoginOkStep
  <2>5. QED
    BY <1>4, <2>1, <2>2, <2>3, <2>4 DEF AuthStep
<1>5. ASSUME NEW p \in Logins, Login(p) \/ CheckStep(p) PROVE PerRequest' /\ Explained'
  BY <1>5, LoginStep DEF Login, CheckStep, CheckOk, CheckFail
<1>6. CASE Reinit \/ UNCHANGED vars
  BY <1>6 DEF Reinit, vars, IInv, PerRequest, Explained, PhaseInv, RetryInv, DeliveryInv,
     NoCallerForgotten, SingleAuthentication, FlagIsExplained, StrandingIsExplained, Running
<1>7. QED
  BY <1>1, <1>2, <1>3, <1>4, <1>5, <1>6 DEF Next

LEMMA Invariance == Spec => []IInv
BY InitInv, StepInv, PTL DEF Spec

(* At most one authentication of the interceptor runs, with the flag up. *)
THEOREM OneAuthentication == Spec => []SingleAuthentication
<1>1. IInv => SingleAuthentication
  BY DEF IInv
<1>2. QED
  BY <1>1, Invariance, PTL

(* The flag is up only for the reasons the property names: no other path   *)
(* of the code wedges the client.                                          *)
THEOREM WedgesAreExplained == Spec => []FlagIsExplained
<1>1. IInv => FlagIsExplained
  BY DEF IInv
<1>2. QED
  BY <1>1, Invariance, PTL

(* A request waits in a queue that no authentication is going to run only  *)
(* after a refresh that succeeded or an authentication that threw.         *)
THEOREM StrandingsAreExplained == Spec => []StrandingIsExplained
<1>1. IInv => StrandingIsExplained
  BY DEF IInv
<1>2. QED
  BY <1>1, Invariance, PTL

(* No waiting caller is forgotten, whatever the interleaving of the        *)
(* interceptor's authentication with those of login().                     *)
THEOREM CallersRemembered == Spec => []NoCallerForgotten
<1>1. IInv => NoCallerForgotten
  BY DEF IInv
<1>2. QED
  BY <1>1, Invariance, PTL

-----------------------------------------------------------------------------
(* Sessions: where the two tokens of the client come from. *)

(* Outside a browser, a token was set by a call that got that far.         *)
SessionInv ==
    /\ isBrowser => header = NoSession
    /\ \A p \in Callers :
          /\ header = <<p, "refresh">> =>
                Running(p) \/ phase[p] \in {"refreshed", "threw"}
          /\ header = <<p, "login">> => phase[p] = "loggedIn"
          /\ refresh_token = <<p, "refresh">> => phase[p] = "refreshed"
          /\ refresh_token = <<p, "login">> => phase[p] = "loggedIn"

(* While a refresh is probed, the token that is sent is its own, or that of*)
(* an authentication that overlaps it.                                     *)
ProbeInv ==
    \A p, q \in Callers :
        phase[p] = "probing" /\ header \in {<<q, "refresh">>, <<q, "login">>} =>
            p = q \/ {p, q} \cap Logins # {}

SInv == SessionInv /\ ProbeInv /\ SessionIsWhole

(* A step of p that leaves the tokens, and after which p still runs or has *)
(* thrown, or was not in authenticate() at all.                            *)
LEMMA KeepTokensStep ==
    ASSUME TypeOK, SInv, UNCHANGED <<header, refresh_token, isBrowser>>, NEW p \in Callers,
           NEW next, next # "probing", phase' = [phase EXCEPT ![p] = next],
           \/ Running(p) /\ next \in Active \cup {"threw"}
           \/ phase[p] \in {"idle", "checking"}
    PROVE  SInv'
<1> USE DEF TypeOK, SInv
<1>1. /\ \A q \in Callers : q # p => phase'[q] = phase[q] /\ (Running(q)' <=> Running(q))
      /\ phase'[p] = next /\ phase[p] \notin Finished
  BY DEF Running, Active, Finished
<1>2. Running(p) => Running(p)' \/ phase'[p] = "threw"
  BY <1>1 DEF Running, Active
<1>3. SessionInv'
  BY <1>1, <1>2 DEF SessionInv, Finished
<1>4. ProbeInv'
  BY <1>1 DEF ProbeInv
<1>5. SessionIsWhole'
  BY <1>1, <1>2 DEF SessionIsWhole, Finished
<1>6. QED
  BY <1>3, <1>4, <1>5

(* The new access token is set, before the refresh is probed. *)
LEMMA RefreshOkSession ==
    ASSUME IInv, SInv, NEW p \in Callers, RefreshOk(p)
    PROVE  SInv'
<1> USE DEF IInv, TypeOK, SInv, RefreshOk
<1>1. /\ \A q \in Callers : q # p => phase'[q] = phase[q] /\ (Running(q)' <=> Running(q))
      /\ phase'[p] = "probing" /\ Running(p)' /\ Running(p) /\ phase[p] \notin Finished
  BY DEF Running, Active, Finished
<1>2. CASE isBrowser
  <2>1. header' = NoSession /\ isBrowser'
    BY <1>2 DEF SetHeader, SessionInv
  <2>2. \A q \in Callers : header' \notin {<<q, "refresh">>, <<q, "login">>}
    BY <2>1 DEF NoSession
  <2>3. QED
    BY <1>1, <2>1, <2>2 DEF SessionInv, ProbeInv, SessionIsWhole, Finished
<1>3. CASE ~isBrowser
  <2>1. header' = <<p, "refresh">> /\ ~isBrowser'
    BY <1>3 DEF SetHeader
  <2>2. SessionInv'
    BY <1>1, <2>1 DEF SessionInv, Finished
  <2>3. ProbeInv'
    <3> SUFFICES ASSUME NEW q \in Callers, phase'[q] = "probing", q # p
                 PROVE  {q, p} \cap Logins # {}
      BY <2>1 DEF ProbeInv
    <3>1. Running(q)
      BY <1>1 DEF Running, Active
    <3>2. QED
      BY <1>1, <3>1 DEF SingleAuthentication, Callers
  <2>4. SessionIsWhole'
    BY <1>1, <2>1 DEF SessionIsWhole
  <2>5. QED
    BY <2>2, <2>3, <2>4
<1>4. QED
  BY <1>2, <1>3

(* The refresh token is kept once the probe succeeds: the token that is    *)
(* sent is then that of the same refresh, or of one that overlapped it.    *)
LEMMA ProbeOkSession ==
    ASSUME IInv, SInv, NEW p \in Callers, ProbeOk(p)
    PROVE  SInv'
<1> USE DEF IInv, TypeOK, SInv, ProbeOk
<1>1. /\ \A q \in Callers : q # p => phase'[q] = phase[q] /\ (Running(q)' <=> Running(q))
      /\ phase'[p] = "refreshed" /\ phase[p] = "probing"
      /\ header' = header /\ refresh_token' = <<p, "refresh">>
  BY DEF Running, Active
<1>2. SessionInv'
  BY <1>1 DEF SessionInv
<1>3. ProbeInv'
  BY <1>1 DEF ProbeInv
<1>4. SessionIsWhole'
  <2> SUFFICES ASSUME NEW q \in Callers, header \in {<<q, "refresh">>, <<q, "login">>},
                      header # <<p, "refresh">>
               PROVE  {q, p} \cap Logins # {}
    BY <1>1 DEF SessionIsWhole, Sessions
  <2>1. header # <<p, "login">>
    BY <1>1 DEF SessionInv
  <2>2. p # q
    BY <2>1
  <2>3. QED
    BY <1>1, <2>2 DEF ProbeInv
<1>5. QED
  BY <1>2, <1>3, <1>4

(* A login sets both tokens. *)
LEMMA LoginOkSession ==
    ASSUME IInv, SInv, NEW p \in Callers, LoginOk(p)
    PROVE  SInv'
<1> USE DEF IInv, TypeOK, SInv, LoginOk
<1>1. /\ \A q \in Callers : q # p => phase'[q] = phase[q] /\ (Running(q)' <=> Running(q))
      /\ phase'[p] = "loggedIn" /\ Running(p) /\ phase[p] \notin Finished
      /\ refresh_token' = <<p, "login">>
  BY DEF Running, Active, Finished
<1>2. CASE isBrowser
  <2>1. header' = NoSession /\ isBrowser'
    BY <1>2 DEF SetHeader, SessionInv
  <2>2. \A q \in Callers : header' \notin {<<q, "refresh">>, <<q, "login">>}
    BY <2>1 DEF NoSession
  <2>3. QED
    BY <1>1, <2>1, <2>2 DEF SessionInv, ProbeInv, SessionIsWhole, Finished
<1>3. CASE ~isBrowser
  <2>1. header' = <<p, "login">> /\ ~isBrowser'
    BY <1>3 DEF SetHeader
  <2>2. SessionInv' /\ SessionIsWhole'
    BY <1>1, <2>1 DEF SessionInv, SessionIsWhole
  <2>3. ProbeInv'
    <3> SUFFICES ASSUME NEW q \in Callers, phase'[q] = "probing", q # p
                 PROVE  {q, p} \cap Logins # {}
      BY <2>1 DEF ProbeInv
    <3>1. Running(q)
      BY <1>1 DEF Running, Active
    <3>2. QED
      BY <1>1, <3>1 DEF SingleAuthentication, Callers
  <2>4. QED
    BY <2>2, <2>3
<1>4. QED
  BY <1>2, <1>3

(* A step that leaves both tokens and every phase, or starts the           *)
(* authentication of a request.                                            *)
LEMMA RequestSession ==
    ASSUME IInv, SInv, NEW r \in Requests, Send(r) \/ Answer(r) \/ ResendAnswered(r)
    PROVE  SInv'
<1> USE DEF IInv, TypeOK, tokens
<1>1. CASE QueueAndAuthenticate(r)
  <2>1. /\ phase' = [phase EXCEPT ![r] = FirstPhase] /\ r \in Callers
        /\ UNCHANGED <<header, refresh_token, isBrowser>>
    BY <1>1 DEF QueueAndAuthenticate, Queue, Callers
  <2>2. phase[r] = "idle" /\ FirstPhase # "probing"
    BY <1>1 DEF QueueAndAuthenticate, Queue, PhaseInv, FirstPhase
  <2>3. QED
    BY <2>1, <2>2, KeepTokensStep
<1>2. CASE ~QueueAndAuthenticate(r)
  <2>1. UNCHANGED <<header, refresh_token, isBrowser, phase>>
    BY <1>2 DEF Send, Answer, Pass, Refuse, QueueBehind, Queue, ResendAnswered
  <2>2. QED
    BY <2>1 DEF SInv, SessionInv, ProbeInv, SessionIsWhole, Running
<1>3. QED
  BY <1>1, <1>2

LEMMA SessionStep == IInv /\ SInv /\ [Next]_vars => SInv'
<1> SUFFICES ASSUME IInv, SInv, [Next]_vars PROVE SInv'
  OBVIOUS
<1>1. ASSUME NEW p \in Callers, AuthStep(p) PROVE SInv'
  <2>1. CASE RefreshFail(p) \/ ProbeFail(p) \/ Sign(p) \/ SignThrow(p) \/ LoginFail(p)
    <3>1. PICK next \in Active \cup {"threw"} :
             /\ next # "probing" /\ phase' = [phase EXCEPT ![p] = next]
             /\ UNCHANGED <<header, refresh_token, isBrowser>>
      BY <2>1 DEF RefreshFail, ProbeFail, Sign, SignThrow, LoginFail, ChangePhase, Throw,
         AfterFailure, Active, tokens
    <3>2. Running(p)
      BY <2>1 DEF RefreshFail, ProbeFail, Sign, SignThrow, LoginFail, Running, Active
    <3>3. QED
      BY <3>1, <3>2, KeepTokensStep DEF IInv
  <2>2. QED
    BY <1>1, <2>1, RefreshOkSession, ProbeOkSession, LoginOkSession DEF AuthStep
<1>2. ASSUME NEW p \in Logins, Login(p) \/ CheckStep(p) PROVE SInv'
  <2>1. /\ p \in Callers /\ phase[p] \in {"idle", "checking"}
        /\ UNCHANGED <<header, refresh_token, isBrowser>>
    BY <1>2 DEF Callers, Login, CheckStep, CheckOk, CheckFail, ChangePhase, tokens
  <2>2. PICK next : next # "probing" /\ phase' = [phase EXCEPT ![p] = next]
    BY <1>2 DEF Login, CheckStep, CheckOk, CheckFail, ChangePhase, AfterFailure, FirstPhase
  <2>3. QED
    BY <2>1, <2>2, KeepTokensStep DEF IInv
<1>3. CASE Reinit
  <2>1. header' = NoSession /\ UNCHANGED <<refresh_token, isBrowser, phase>>
    BY <1>3 DEF Reinit
  <2>2. \A q \in Callers : header' \notin {<<q, "refresh">>, <<q, "login">>}
    BY <2>1 DEF NoSession
  <2>3. QED
    BY <2>1, <2>2 DEF SInv, SessionInv, ProbeInv, SessionIsWhole
<1>4. CASE UNCHANGED vars
  BY <1>4 DEF vars, tokens, SInv, SessionInv, ProbeInv, SessionIsWhole, Running
<1>5. QED
  BY <1>1, <1>2, <1>3, <1>4, RequestSession DEF Next

(* The client never sends the token of one session while it keeps the      *)
(* refresh token of another, but for an authentication under way or thrown,*)
(* and where one of the two is of an authentication of login().            *)
THEOREM SessionsAreWhole == Spec => []SessionIsWhole
<1>1. Init => SInv
  BY DEF Init, SInv, SessionInv, ProbeInv, SessionIsWhole, NoSession, Callers
<1>2. SInv => SessionIsWhole
  BY DEF SInv
<1>3. QED
  BY <1>1, <1>2, Invariance, SessionStep, PTL DEF Spec

-----------------------------------------------------------------------------
(* Refinement of ApiCall. *)

(* What the caller of a request may see from one step to the next. *)
SeenStep(r) ==
    \/ Seen(r)' = Seen(r)
    \/ Seen(r) = "pending" /\ Seen(r)' \in Verdict

LEMMA ProgressStep ==
    ASSUME IInv, IInv', \A r \in Requests : SeenStep(r),
           NEW R \in SUBSET Requests,
           \A r \in R : resend[r] = "none" /\ request[r] \in {"waiting", "failed"},
           deliveries' = [r \in Requests |-> IF r \in R THEN deliveries[r] + 1
                                             ELSE deliveries[r]]
    PROVE  Promise!Next
<1> USE DEF IInv, TypeOK, Verdict
<1>1. \A r \in R : deliveries[r] = 1 /\ Seen(r) \in {"pending", "failed"}
  BY DEF DeliveryInv, Seen
<1>2. \A r \in Requests : Seen(r)' \in {"idle", "pending", "ok", "failed"}
  BY DEF Seen
<1>3. Promise!Progress(R)
  BY <1>1, <1>2 DEF Promise!Progress, Promise!MayRetry, Promise!Settled, SeenStep
<1>4. QED
  BY <1>3 DEF Promise!Next

(* A step that delivers nothing again. *)
LEMMA QuietStep ==
    ASSUME IInv, IInv', \A r \in Requests : SeenStep(r), deliveries' = deliveries
    PROVE  Promise!Next
<1>1. deliveries' = [r \in Requests |-> IF r \in {} THEN deliveries[r] + 1 ELSE deliveries[r]]
  BY DEF IInv, TypeOK
<1>2. {} \in SUBSET Requests
  OBVIOUS
<1>3. \A r \in {} : resend[r] = "none" /\ request[r] \in {"waiting", "failed"}
  OBVIOUS
<1>4. QED
  BY <1>1, <1>2, <1>3, ProgressStep

LEMMA RefinementStep == IInv /\ IInv' /\ [Next]_vars => [Promise!Next]_(Promise!vars)
<1> SUFFICES ASSUME IInv, IInv', [Next]_vars
             PROVE  Promise!Next \/ UNCHANGED Promise!vars
  OBVIOUS
<1> USE DEF IInv, TypeOK, Verdict, SeenStep
<1>1. ASSUME NEW r \in Requests, Send(r) PROVE Promise!Next
  <2>1. deliveries[r] = 0 /\ Seen(r) = "idle"
    BY <1>1 DEF Send, DeliveryInv, Seen
  <2>2. \A q \in Requests : Seen(q)' = IF q = r THEN "pending" ELSE Seen(q)
    BY <1>1 DEF Send, Seen
  <2>3. [q \in Requests |-> Seen(q)]' =
           [[q \in Requests |-> Seen(q)] EXCEPT ![r] = "pending"]
    BY <2>2
  <2>4. deliveries' = [deliveries EXCEPT ![r] = 1]
    BY <1>1, <2>1 DEF Send
  <2>5. Promise!Call(r)
    BY <2>1, <2>3, <2>4 DEF Promise!Call
  <2>6. QED
    BY <2>5 DEF Promise!Next
<1>2. ASSUME NEW r \in Requests, Answer(r) PROVE Promise!Next
  <2>1. deliveries' = deliveries
    BY <1>2 DEF Answer, Pass, Refuse, QueueBehind, QueueAndAuthenticate, Queue
  <2>2. \A q \in Requests : SeenStep(q)
    BY <1>2 DEF Answer, Pass, Refuse, QueueBehind, QueueAndAuthenticate, Queue, Seen
  <2>3. QED
    BY <2>1, <2>2, QuietStep
<1>3. ASSUME NEW r \in Requests, ResendAnswered(r) PROVE Promise!Next
  <2>1. deliveries' = deliveries /\ \A q \in Requests : SeenStep(q)
    BY <1>3 DEF ResendAnswered, Seen
  <2>2. QED
    BY <2>1, QuietStep
<1>4. ASSUME NEW p \in Callers, AuthStep(p) PROVE Promise!Next
  <2>1. p \in Requests /\ Running(p) => request[p] = "waiting"
    BY DEF PhaseInv
  <2>2. Running(p)
    BY <1>4 DEF AuthStep, RefreshOk, RefreshFail, ProbeOk, ProbeFail, Sign, SignThrow,
       LoginOk, LoginFail, Running, Active
  <2>3. CASE LoginOk(p)
    <3>1. \A q \in Requests : SeenStep(q)
      BY <2>1, <2>2, <2>3 DEF LoginOk, Resume, Seen
    <3>2. \A q \in failedRequests :
             resend[q] = "none" /\ request[q] \in {"waiting", "failed"}
      BY DEF RetryInv
    <3>3. QED
      BY <2>3, <3>1, <3>2, ProgressStep DEF LoginOk, RunQueue, QueueRuns
  <2>4. CASE ~LoginOk(p)
    <3>1. deliveries' = deliveries
      BY <1>4, <2>4 DEF AuthStep, RefreshOk, RefreshFail, ProbeOk, ProbeFail, Sign,
         SignThrow, LoginFail, ChangePhase, Throw
    <3>2. \A q \in Requests : SeenStep(q)
      BY <1>4, <2>1, <2>2, <2>4 DEF AuthStep, RefreshOk, RefreshFail, ProbeOk, ProbeFail,
         Sign, SignThrow, LoginFail, ChangePhase, Throw, Resume, Seen
    <3>3. QED
      BY <3>1, <3>2, QuietStep
  <2>5. QED
    BY <2>3, <2>4
<1>5. CASE \/ \E p \in Logins : Login(p) \/ CheckStep(p)
           \/ Reinit
           \/ UNCHANGED vars
  BY <1>5 DEF Login, CheckStep, CheckOk, CheckFail, ChangePhase, Reinit, vars, Seen,
     Promise!vars
<1>6. QED
  BY <1>1, <1>2, <1>3, <1>4, <1>5 DEF Next

(* CacheClient implements ApiCall: at most two deliveries, none after a    *)
(* success, one outcome for each call.                                     *)
THEOREM Implementation == Spec => ImplementsApiCall
<1>1. Init => Promise!Init
  BY DEF Init, Promise!Init, Seen
<1>2. QED
  BY <1>1, Invariance, RefinementStep, PTL DEF Spec, ImplementsApiCall, Promise!Spec
=============================================================================
