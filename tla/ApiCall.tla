------------------------------ MODULE ApiCall ------------------------------
(***************************************************************************)
(* What CacheClient promises to a caller of any of its API methods: the    *)
(* call is delivered to the cache server once, and at most once more after *)
(* an authentication error; its promise settles once, and a call that has  *)
(* been answered with success is never delivered again.                    *)
(*                                                                         *)
(* CacheAuth implements this specification (see CacheAuth!Promise).  It    *)
(* does not promise that a pending call settles: that is the business of   *)
(* the liveness properties of CacheAuth, and of the runs that refute them. *)
(***************************************************************************)
EXTENDS Naturals

CONSTANT Requests       \* the API calls of the application

VARIABLES
    outcome,            \* what the caller of each request has seen
    deliveries          \* how many times each request was sent to the server

vars == <<outcome, deliveries>>

Settled == {"ok", "failed"}

Init ==
    /\ outcome = [r \in Requests |-> "idle"]
    /\ deliveries = [r \in Requests |-> 0]

(* The application calls a method of the client. *)
Call(r) ==
    /\ outcome[r] = "idle"
    /\ outcome' = [outcome EXCEPT ![r] = "pending"]
    /\ deliveries' = [deliveries EXCEPT ![r] = 1]

MayRetry(r) == outcome[r] \in {"pending", "failed"} /\ deliveries[r] = 1

(* Some callers get their answer; the requests in R are delivered again. *)
Progress(R) ==
    /\ \A r \in R : MayRetry(r)
    /\ deliveries' = [r \in Requests |-> IF r \in R THEN 2 ELSE deliveries[r]]
    /\ outcome' \in [Requests -> {"idle", "pending"} \cup Settled]
    /\ \A r \in Requests :
          outcome'[r] # outcome[r] =>
              outcome[r] = "pending" /\ outcome'[r] \in Settled

Next ==
    \/ \E r \in Requests : Call(r)
    \/ \E R \in SUBSET Requests : Progress(R)

Spec == Init /\ [][Next]_vars
=============================================================================
