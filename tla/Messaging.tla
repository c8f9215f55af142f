----------------------------- MODULE Messaging -----------------------------
(***************************************************************************)
(* MessagingService (modules/messaging/messaging.service.ts): a connection *)
(* to a NATS server, raced against a timer, and the subscriptions on it.   *)
(*                                                                         *)
(* SignerService runs init() again whenever the account or the chain       *)
(* changes, and runs may overlap.  A connection that is replaced stays     *)
(* open, and so do its subscriptions.  The NATS client is external: it     *)
(* numbers the subscriptions of each connection from 1.                    *)
(***************************************************************************)
EXTENDS Naturals, Sequences, SequencesExt

CONSTANTS
    Connections,        \* runs of init() with a server to connect to, each named
                        \* by the connection it opens: bounds them
    NoConnection,
    MaxSubscriptions    \* bounds the subscriptions ever made on a connection

ASSUME NoConnectionAssumption == NoConnection \notin Connections
ASSUME MaxSubscriptionsAssumption == MaxSubscriptions \in Nat

Numbers == 1 .. MaxSubscriptions

VARIABLES
    attempt,            \* what has become of each run's connect()
    natsConnection,     \* _natsConnection
    numbered,           \* NATS client: how many subscriptions a connection has had
    subscriptions,      \* _subscriptions
    live,               \* NATS client: subscriptions that messages are delivered for
    wanted              \* subscriptions that their caller has not unsubscribed from

messagingVars == <<attempt, natsConnection, numbered, subscriptions, live, wanted>>

SubscriptionFromZero(k, n) == [connection |-> k, number |-> n - 1]      \* mutant

Subscription(k, n) == [connection |-> k, number |-> n]

AnySubscription == [connection : Connections, number : Numbers]

MessagingInit ==
    /\ attempt = [k \in Connections |-> "none"]
    /\ natsConnection = NoConnection
    /\ numbered = [k \in Connections |-> 0]
    /\ subscriptions = <<>>
    /\ live = {}
    /\ wanted = {}

----------------------------------------------------------------------------
(* init(): whoever answers first, the server or the timer.                 *)

Attempt(k, from, to) == attempt[k] = from /\ attempt' = [attempt EXCEPT ![k] = to]

RestUnchanged == UNCHANGED <<numbered, subscriptions, live, wanted>>

connect(k) ==
    /\ Attempt(k, "none", "racing")
    /\ UNCHANGED natsConnection
    /\ RestUnchanged

Connected(k) ==
    /\ Attempt(k, "racing", "connected")
    /\ natsConnection' = k
    /\ RestUnchanged

ConnectRefused(k) ==
    /\ Attempt(k, "racing", "failed")
    /\ UNCHANGED natsConnection
    /\ RestUnchanged

NeverTimedOut(k) == k \notin Connections    \* mutant: no race with a timer

(* init() returns; the connection may still open, but nobody gets it.      *)
ConnectTimedOut(k) ==
    /\ Attempt(k, "racing", "late")
    /\ UNCHANGED natsConnection
    /\ RestUnchanged

ConnectedLate(k) ==
    /\ \/ Attempt(k, "late", "leaked")
       \/ Attempt(k, "late", "failed")
    /\ UNCHANGED natsConnection
    /\ RestUnchanged

----------------------------------------------------------------------------
(* Without a connection nothing is subscribed, and no number returned.     *)

subscribeTo ==
    LET k == natsConnection
        s == Subscription(k, numbered[k] + 1)
    IN  /\ k # NoConnection
        /\ numbered[k] < MaxSubscriptions
        /\ numbered' = [numbered EXCEPT ![k] = @ + 1]
        /\ subscriptions' = Append(subscriptions, s)
        /\ live' = live \cup {s}
        /\ wanted' = wanted \cup {s}
        /\ UNCHANGED <<attempt, natsConnection>>

(* findIndex: the first subscription with that number, of any connection.  *)
Numbered(n) == {i \in DOMAIN subscriptions : subscriptions[i].number = n}

lastIndexOf(n) == CHOOSE i \in Numbered(n) : \A j \in Numbered(n) : i >= j    \* mutant

indexOf(n) == CHOOSE i \in Numbered(n) : \A j \in Numbered(n) : i <= j

(* A caller who wants its subscription no more passes the number that      *)
(* subscribeTo returned, once.                                             *)
unsubscribeFrom(s) ==
    /\ s \in wanted
    /\ wanted' = wanted \ {s}
    /\ IF Numbered(s.number) = {}
       THEN UNCHANGED <<subscriptions, live>>
       ELSE LET i == indexOf(s.number)
            IN  /\ subscriptions' = RemoveAt(subscriptions, i)
                /\ live' = live \ {subscriptions[i]}
    /\ UNCHANGED <<attempt, natsConnection, numbered>>

----------------------------------------------------------------------------
ConnectStep(k) ==
    connect(k) \/ Connected(k) \/ ConnectRefused(k) \/ ConnectTimedOut(k) \/ ConnectedLate(k)

MessagingNext ==
    \/ \E k \in Connections : ConnectStep(k)
    \/ subscribeTo
    \/ \E s \in AnySubscription : unsubscribeFrom(s)

MessagingSpec == MessagingInit /\ [][MessagingNext]_messagingVars

----------------------------------------------------------------------------
MessagingTypeOK ==
    /\ attempt \in [Connections ->
            {"none", "racing", "connected", "failed", "late", "leaked"}]
    /\ natsConnection \in Connections \cup {NoConnection}
    /\ numbered \in [Connections -> 0 .. MaxSubscriptions]
    /\ subscriptions \in Seq(AnySubscription)
    /\ live \subseteq AnySubscription
    /\ wanted \subseteq AnySubscription

(* A subscription on the connection in use is delivered as long as its     *)
(* caller wants it, although numbers repeat on every connection and        *)
(* unsubscribeFrom takes the first that fits (it may end another caller's  *)
(* subscription on a connection that has been replaced).                   *)
WantedStaysLive ==
    \A s \in wanted : s.connection = natsConnection => s \in live

(* init(), which SignerService awaits before it goes on, ends even if the  *)
(* server never answers.                                                   *)
ConnectEnds == \A k \in Connections : attempt[k] = "racing" ~> attempt[k] # "racing"
=============================================================================
