--------------------------- MODULE MessagingProofs ---------------------------
(***************************************************************************)
(* Messaging for any number of connections and subscriptions: the types,   *)
(* and that nobody's unsubscribing ends a subscription that is wanted on   *)
(* the connection in use.                                                  *)
(***************************************************************************)
EXTENDS Messaging, FiniteSetTheorems, WellFoundedInduction, TLAPS

USE NoConnectionAssumption, MaxSubscriptionsAssumption

DistinctSubscriptions ==
    \A i, j \in DOMAIN subscriptions : subscriptions[i] = subscriptions[j] => i = j

ListedIsLive == live = {subscriptions[i] : i \in DOMAIN subscriptions}

(* Subscriptions are numbered, on connections that have opened. *)
Made ==
    /\ \A s \in wanted \cup live :
          s.number <= numbered[s.connection] /\ attempt[s.connection] = "connected"
    /\ natsConnection # NoConnection => attempt[natsConnection] = "connected"

(* Those of the connection in use are at the end of the list. *)
InUseLast ==
    \A i, j \in DOMAIN subscriptions :
        i < j /\ subscriptions[i].connection = natsConnection
            => subscriptions[j].connection = natsConnection

WantedOf(n) == {s \in wanted : s.number = n}
LiveOf(n) == {s \in live : s.number = n}

(* Whatever an unsubscribing ends, it ends one with the number asked for: *)
(* there remain as many as are wanted.                                    *)
EnoughLeft ==
    /\ IsFiniteSet(wanted) /\ IsFiniteSet(live)
    /\ \A n \in Numbers : Cardinality(WantedOf(n)) <= Cardinality(LiveOf(n))

ListInv == MessagingTypeOK /\ DistinctSubscriptions /\ ListedIsLive /\ Made /\ InUseLast
SubscriptionInv == ListInv /\ EnoughLeft /\ WantedStaysLive

LEMMA RemoveOne ==
    ASSUME NEW T, NEW s \in Seq(T), NEW i \in DOMAIN s
    PROVE  LET r == RemoveAt(s, i)
           IN  /\ r \in Seq(T) /\ DOMAIN r = 1 .. Len(s) - 1
               /\ \A j \in 1 .. Len(s) - 1 : r[j] = IF j < i THEN s[j] ELSE s[j + 1]
<1> DEFINE a == SubSeq(s, 1, i - 1)
           b == SubSeq(s, i + 1, Len(s))
           n == Len(s)
<1>1. n \in Nat /\ i \in 1 .. n /\ DOMAIN s = 1 .. n
  OBVIOUS
<1>2. /\ a \in Seq(T) /\ Len(a) = i - 1
      /\ \A j \in 1 .. i - 1 : a[j] = s[j]
  BY <1>1
<1>3. /\ b \in Seq(T) /\ Len(b) = n - i
      /\ \A j \in 1 .. n - i : b[j] = s[i + j]
  BY <1>1
<1>4. /\ a \o b \in Seq(T) /\ Len(a \o b) = n - 1
      /\ \A j \in 1 .. n - 1 :
            (a \o b)[j] = IF j <= i - 1 THEN a[j] ELSE b[j - (i - 1)]
  <2> HIDE DEF a, b, n
  <2>1. /\ a \o b \in Seq(T) /\ Len(a \o b) = Len(a) + Len(b)
        /\ \A j \in 1 .. Len(a) : (a \o b)[j] = a[j]
        /\ \A j \in Len(a) + 1 .. Len(a) + Len(b) : (a \o b)[j] = b[j - Len(a)]
    <3>1. a \in Seq(T) /\ b \in Seq(T)
      BY <1>2, <1>3
    <3>2. QED
      BY <3>1
  <2>2. Len(a) + Len(b) = n - 1
    BY <1>1, <1>2, <1>3
  <2>3. \A j \in 1 .. n - 1 : IF j <= i - 1 THEN j \in 1 .. i - 1 ELSE j \in (i - 1) + 1 .. n - 1
    BY <1>1
  <2>4. QED
    BY <1>2, <2>1, <2>2, <2>3
<1>5. ASSUME NEW j \in 1 .. n - 1
      PROVE  (a \o b)[j] = IF j < i THEN s[j] ELSE s[j + 1]
  <2> HIDE DEF a, b, n
  <2>1. CASE j < i
    <3>1. j <= i - 1 /\ j \in 1 .. i - 1
      BY <1>1, <2>1
    <3>2. QED
      BY <1>2, <1>4, <2>1, <3>1
  <2>2. CASE ~(j < i)
    <3>1. ~(j <= i - 1) /\ j - (i - 1) \in 1 .. n - i /\ i + (j - (i - 1)) = j + 1
      BY <1>1, <2>2
    <3>2. QED
      BY <1>3, <1>4, <2>2, <3>1
  <2>3. QED
    BY <2>1, <2>2
<1>6. RemoveAt(s, i) = a \o b
  BY DEF RemoveAt
<1>7. DOMAIN (a \o b) = 1 .. n - 1
  BY <1>4
<1>8. QED
  BY <1>4, <1>5, <1>6, <1>7

----------------------------------------------------------------------------
LEMMA InitSubscriptions == MessagingInit => SubscriptionInv
<1> SUFFICES ASSUME MessagingInit PROVE SubscriptionInv
  OBVIOUS
<1> USE DEF MessagingInit
<1>1. MessagingTypeOK
  BY DEF MessagingTypeOK
<1>2. DOMAIN subscriptions = {}
  OBVIOUS
<1>3. ListInv
  BY <1>1, <1>2 DEF ListInv, DistinctSubscriptions, ListedIsLive, Made, InUseLast
<1>4. \A n : WantedOf(n) = {} /\ LiveOf(n) = {}
  BY DEF WantedOf, LiveOf
<1>5. EnoughLeft
  <2>1. ASSUME NEW n \in Numbers
        PROVE  Cardinality(WantedOf(n)) <= Cardinality(LiveOf(n))
    <3>1. WantedOf(n) = {} /\ LiveOf(n) = {} /\ Cardinality({}) = 0
      BY <1>4, FS_EmptySet
    <3>2. QED
      BY <3>1
  <2>2. IsFiniteSet(wanted) /\ IsFiniteSet(live)
    BY FS_EmptySet
  <2>3. QED
    BY <2>1, <2>2 DEF EnoughLeft
<1>6. QED
  BY <1>3, <1>5 DEF SubscriptionInv, WantedStaysLive

(* init() leaves the subscriptions alone; a connection that opens has none. *)
LEMMA ConnectKeeps ==
    ASSUME SubscriptionInv, NEW k \in Connections, ConnectStep(k)
    PROVE  SubscriptionInv'
<1> USE DEF SubscriptionInv, ListInv
<1>1. UNCHANGED <<numbered, subscriptions, live, wanted>>
  BY DEF ConnectStep, connect, Connected, ConnectRefused, ConnectTimedOut, ConnectedLate,
         RestUnchanged
<1>2. /\ attempt[k] # "connected"
      /\ \E to \in {"racing", "connected", "failed", "late", "leaked"} :
            attempt' = [attempt EXCEPT ![k] = to]
      /\ \/ natsConnection' = natsConnection
         \/ natsConnection' = k /\ attempt' = [attempt EXCEPT ![k] = "connected"]
  BY DEF ConnectStep, connect, Connected, ConnectRefused, ConnectTimedOut, ConnectedLate, Attempt
<1>3. MessagingTypeOK'
  BY <1>1, <1>2 DEF MessagingTypeOK
<1>4. \A c \in Connections : attempt[c] = "connected" => c # k /\ attempt'[c] = "connected"
  BY <1>2 DEF MessagingTypeOK
<1>5. \A s \in wanted \cup live : s.connection \in Connections
  BY DEF MessagingTypeOK, AnySubscription
<1>6. \A s \in wanted \cup live : attempt'[s.connection] = "connected" /\ s.connection # k
  BY <1>4, <1>5 DEF Made
<1>7. natsConnection' # NoConnection => attempt'[natsConnection'] = "connected"
  BY <1>2, <1>4 DEF Made, MessagingTypeOK
<1>8. Made'
  BY <1>1, <1>6, <1>7 DEF Made
<1>9. DistinctSubscriptions' /\ ListedIsLive'
  BY <1>1 DEF DistinctSubscriptions, ListedIsLive
<1>10. \A i \in DOMAIN subscriptions : subscriptions[i] \in live
  BY DEF ListedIsLive
<1>11. InUseLast'
  BY <1>1, <1>2, <1>6, <1>10 DEF InUseLast
<1>12. EnoughLeft'
  BY <1>1 DEF EnoughLeft, WantedOf, LiveOf
<1>13. WantedStaysLive'
  BY <1>1, <1>2, <1>6 DEF WantedStaysLive
<1>14. QED
  BY <1>3, <1>8, <1>9, <1>11, <1>12, <1>13

LEMMA SubscribeKeeps ==
    ASSUME SubscriptionInv, subscribeTo
    PROVE  SubscriptionInv'
<1> USE DEF SubscriptionInv, ListInv
<1>1. PICK k \in Connections : k = natsConnection
  BY DEF subscribeTo, MessagingTypeOK
<1>2. PICK s : s = Subscription(k, numbered[k] + 1)
  OBVIOUS
<1>3. /\ numbered[k] \in Nat /\ numbered[k] < MaxSubscriptions
      /\ numbered' = [numbered EXCEPT ![k] = @ + 1]
      /\ subscriptions' = Append(subscriptions, s)
      /\ live' = live \cup {s} /\ wanted' = wanted \cup {s}
      /\ attempt' = attempt /\ natsConnection' = natsConnection
  BY <1>1, <1>2 DEF subscribeTo, MessagingTypeOK
<1>4. /\ s \in AnySubscription /\ s.connection = k /\ s.number = numbered[k] + 1
      /\ s.number \in Numbers
  BY <1>2, <1>3 DEF Subscription, AnySubscription, Numbers
<1>5. s \notin wanted /\ s \notin live
  <2>1. ~(s.number <= numbered[s.connection])
    BY <1>3, <1>4
  <2>2. QED
    BY <2>1 DEF Made
<1> DEFINE n == Len(subscriptions)
<1>6. /\ subscriptions \in Seq(AnySubscription) /\ n \in Nat /\ DOMAIN subscriptions = 1 .. n
      /\ DOMAIN subscriptions' = 1 .. n + 1 /\ subscriptions'[n + 1] = s
      /\ \A i \in 1 .. n : subscriptions'[i] = subscriptions[i] /\ subscriptions[i] \in live
  BY <1>3, <1>4 DEF MessagingTypeOK, ListedIsLive
<1>7. \A i \in 1 .. n + 1 : i = n + 1 \/ (i \in 1 .. n /\ i < n + 1)
  BY <1>6
<1>8. MessagingTypeOK'
  BY <1>3, <1>4 DEF MessagingTypeOK
<1> HIDE DEF n
<1>9. DistinctSubscriptions'
  BY <1>5, <1>6, <1>7 DEF DistinctSubscriptions
<1>10. ListedIsLive'
  <2>1. \A x \in live' : \E i \in 1 .. n + 1 : x = subscriptions'[i]
    <3>1. \A i \in 1 .. n : i \in 1 .. n + 1
      BY <1>6
    <3>2. n + 1 \in 1 .. n + 1
      BY <1>6
    <3>3. QED
      BY <1>3, <1>6, <3>1, <3>2 DEF ListedIsLive
  <2>2. \A i \in 1 .. n + 1 : subscriptions'[i] \in live'
    BY <1>3, <1>6, <1>7
  <2>3. QED
    BY <1>6, <2>1, <2>2 DEF ListedIsLive
<1>11. Made'
  <2>1. \A x \in wanted \cup live : x.number <= numbered'[x.connection]
    <3>1. \A x \in wanted \cup live : x.connection \in Connections /\ x.number \in Nat
      BY DEF MessagingTypeOK, AnySubscription, Numbers
    <3>2. \A c \in Connections : /\ numbered[c] \in Nat /\ numbered'[c] \in Nat
                                 /\ numbered[c] <= numbered'[c]
      BY <1>3 DEF MessagingTypeOK
    <3>3. QED
      BY <3>1, <3>2 DEF Made
  <2>2. s.number <= numbered'[s.connection]
    BY <1>3, <1>4 DEF MessagingTypeOK
  <2>3. attempt[s.connection] = "connected"
    BY <1>1, <1>4 DEF Made
  <2>4. QED
    BY <1>3, <2>1, <2>2, <2>3 DEF Made
<1>12. InUseLast'
  <2>1. ASSUME NEW i \in 1 .. n + 1, NEW j \in 1 .. n + 1, i < j,
               subscriptions'[i].connection = natsConnection
        PROVE  subscriptions'[j].connection = natsConnection
    <3>1. CASE j = n + 1
      BY <1>1, <1>4, <1>6, <3>1
    <3>2. CASE j \in 1 .. n
      <4>1. i \in 1 .. n
        BY <1>6, <2>1, <3>2
      <4>2. QED
        BY <1>6, <2>1, <3>2, <4>1 DEF InUseLast
    <3>3. QED
      BY <1>7, <3>1, <3>2
  <2>2. QED
    BY <1>3, <1>6, <2>1 DEF InUseLast
<1>13. EnoughLeft'
  <2>1. IsFiniteSet(wanted') /\ IsFiniteSet(live')
    BY <1>3, FS_AddElement DEF EnoughLeft
  <2>2. ASSUME NEW m \in Numbers
        PROVE  Cardinality(WantedOf(m))' <= Cardinality(LiveOf(m))'
    <3>1. IsFiniteSet(WantedOf(m)) /\ IsFiniteSet(LiveOf(m))
      BY FS_Subset DEF EnoughLeft, WantedOf, LiveOf
    <3>2. Cardinality(WantedOf(m)) \in Nat /\ Cardinality(LiveOf(m)) \in Nat
      BY <3>1, FS_CardinalityType
    <3>3. CASE s.number = m
      <4>1. WantedOf(m)' = WantedOf(m) \cup {s} /\ LiveOf(m)' = LiveOf(m) \cup {s}
        BY <1>3, <3>3 DEF WantedOf, LiveOf
      <4>2. s \notin WantedOf(m) /\ s \notin LiveOf(m)
        BY <1>5 DEF WantedOf, LiveOf
      <4>3. /\ Cardinality(WantedOf(m))' = Cardinality(WantedOf(m)) + 1
            /\ Cardinality(LiveOf(m))' = Cardinality(LiveOf(m)) + 1
        BY <3>1, <4>1, <4>2, FS_AddElement
      <4>4. QED
        BY <3>2, <4>3 DEF EnoughLeft
    <3>4. CASE s.number # m
      <4>1. WantedOf(m)' = WantedOf(m) /\ LiveOf(m)' = LiveOf(m)
        BY <1>3, <3>4 DEF WantedOf, LiveOf
      <4>2. QED
        BY <4>1 DEF EnoughLeft
    <3>5. QED
      BY <3>3, <3>4
  <2>3. QED
    BY <2>1, <2>2 DEF EnoughLeft
<1>14. WantedStaysLive'
  BY <1>3 DEF WantedStaysLive
<1>15. QED
  BY <1>8, <1>9, <1>10, <1>11, <1>12, <1>13, <1>14

LEMMA Least ==
    ASSUME NEW T \in SUBSET Nat, T # {}
    PROVE  \E x \in T : \A y \in T : x <= y
<1> DEFINE R == OpToRel(<, Nat)
<1>1. IsWellFoundedOn(R, Nat)
  BY NatLessThanWellFounded
<1>2. \A x, y \in Nat : x < y => <<x, y>> \in R
  BY DEF OpToRel
<1> HIDE DEF R
<1>3. PICK x \in T : \A y \in T : ~(<<y, x>> \in R)
  BY <1>1, WFMin
<1>4. ASSUME NEW y \in T PROVE x <= y
  <2>1. x \in Nat /\ y \in Nat /\ ~(y < x)
    BY <1>2, <1>3
  <2>2. QED
    BY <2>1
<1>5. QED
  BY <1>4

(* Some listed subscription has the number of one that is wanted, and      *)
(* unsubscribeFrom finds the first.                                        *)
LEMMA FirstIsFound ==
    ASSUME SubscriptionInv, NEW s \in wanted
    PROVE  /\ Numbered(s.number) # {}
           /\ indexOf(s.number) \in Numbered(s.number)
           /\ \A j \in Numbered(s.number) : indexOf(s.number) <= j
<1> USE DEF SubscriptionInv, ListInv
<1> DEFINE n == s.number
<1>1. n \in Numbers
  BY DEF MessagingTypeOK, AnySubscription
<1>2. IsFiniteSet(WantedOf(n)) /\ IsFiniteSet(LiveOf(n))
  BY FS_Subset DEF EnoughLeft, WantedOf, LiveOf
<1>3. Cardinality(WantedOf(n)) \in Nat /\ Cardinality(LiveOf(n)) \in Nat
  BY <1>2, FS_CardinalityType
<1>4. s \in WantedOf(n)
  BY DEF WantedOf
<1>5. Cardinality(WantedOf(n)) # 0
  BY <1>2, <1>4, FS_EmptySet
<1>6. Cardinality(LiveOf(n)) # 0
  BY <1>1, <1>3, <1>5 DEF EnoughLeft
<1>7. LiveOf(n) # {}
  BY <1>6, FS_EmptySet
<1>8. PICK x : x \in live /\ x.number = n
  BY <1>7 DEF LiveOf
<1>9. \E i \in DOMAIN subscriptions : subscriptions[i].number = n
  BY <1>8 DEF ListedIsLive
<1>10. Numbered(n) # {} /\ Numbered(n) \in SUBSET Nat
  BY <1>9 DEF Numbered, MessagingTypeOK
<1>11. \E i \in Numbered(n) : \A j \in Numbered(n) : i <= j
  BY <1>10, Least
<1>12. QED
  BY <1>10, <1>11 DEF indexOf

LEMMA UnsubscribeKeeps ==
    ASSUME SubscriptionInv, NEW s \in AnySubscription, unsubscribeFrom(s)
    PROVE  SubscriptionInv'
<1> USE DEF SubscriptionInv, ListInv
<1>1. s \in wanted /\ s.number \in Numbers
  BY DEF unsubscribeFrom, AnySubscription
<1>2. PICK i : i = indexOf(s.number)
  OBVIOUS
<1>3. /\ i \in DOMAIN subscriptions /\ subscriptions[i].number = s.number
      /\ \A j \in DOMAIN subscriptions : subscriptions[j].number = s.number => i <= j
      /\ Numbered(s.number) # {}
  BY <1>1, <1>2, FirstIsFound DEF Numbered
<1>4. PICK x : x = subscriptions[i]
  OBVIOUS
<1>5. /\ subscriptions' = RemoveAt(subscriptions, i)
      /\ live' = live \ {x} /\ wanted' = wanted \ {s}
      /\ UNCHANGED <<attempt, natsConnection, numbered>>
  BY <1>2, <1>3, <1>4 DEF unsubscribeFrom
<1> DEFINE n == Len(subscriptions)
<1>6. /\ subscriptions \in Seq(AnySubscription) /\ n \in Nat /\ DOMAIN subscriptions = 1 .. n
      /\ \A j \in 1 .. n : subscriptions[j] \in live /\ subscriptions[j] \in AnySubscription
  BY DEF MessagingTypeOK, ListedIsLive
<1>7. /\ subscriptions' \in Seq(AnySubscription) /\ DOMAIN subscriptions' = 1 .. n - 1
      /\ \A j \in 1 .. n - 1 :
            subscriptions'[j] = IF j < i THEN subscriptions[j] ELSE subscriptions[j + 1]
  BY <1>3, <1>5, <1>6, RemoveOne
<1> HIDE DEF n
<1>8. x \in live /\ x.number = s.number /\ i \in 1 .. n
  BY <1>3, <1>4, <1>6
(* Where each entry that stays was before. *)
<1>9. PICK f : f = [j \in 1 .. n - 1 |-> IF j < i THEN j ELSE j + 1]
  OBVIOUS
<1>10. /\ \A j \in 1 .. n - 1 :
             f[j] \in 1 .. n /\ f[j] # i /\ subscriptions'[j] = subscriptions[f[j]]
       /\ \A j, k \in 1 .. n - 1 : j < k => f[j] < f[k]
       /\ \A j, k \in 1 .. n - 1 : f[j] = f[k] => j = k
       /\ \A k \in 1 .. n : k # i => \E j \in 1 .. n - 1 : f[j] = k
  <2>1. \A j \in 1 .. n - 1 : f[j] = IF j < i THEN j ELSE j + 1
    BY <1>9
  <2>2. \A j \in 1 .. n - 1 :
            f[j] \in 1 .. n /\ f[j] # i /\ subscriptions'[j] = subscriptions[f[j]]
    BY <1>6, <1>7, <1>8, <2>1
  <2>3. \A j, k \in 1 .. n - 1 : j < k => f[j] < f[k]
    BY <1>6, <1>8, <2>1
  <2>4. \A j, k \in 1 .. n - 1 : f[j] = f[k] => j = k
    BY <1>6, <1>8, <2>1
  <2>5. ASSUME NEW k \in 1 .. n, k # i PROVE \E j \in 1 .. n - 1 : f[j] = k
    <3>1. CASE k < i
      <4>1. k \in 1 .. n - 1 /\ f[k] = k
        BY <1>6, <1>8, <2>1, <3>1
      <4>2. QED
        BY <4>1
    <3>2. CASE k > i
      <4>1. k - 1 \in 1 .. n - 1 /\ ~(k - 1 < i) /\ (k - 1) + 1 = k
        BY <1>6, <1>8, <3>2
      <4>2. f[k - 1] = k
        BY <2>1, <4>1
      <4>3. QED
        BY <4>1, <4>2
    <3>3. QED
      BY <1>6, <1>8, <2>5, <3>1, <3>2
  <2>6. QED
    BY <2>2, <2>3, <2>4, <2>5
<1>11. MessagingTypeOK'
  BY <1>5, <1>7 DEF MessagingTypeOK
<1>12. DistinctSubscriptions'
  BY <1>6, <1>7, <1>10 DEF DistinctSubscriptions
<1>13. ListedIsLive'
  <2>1. ASSUME NEW y \in live' PROVE \E j \in 1 .. n - 1 : y = subscriptions'[j]
    <3>1. PICK k \in 1 .. n : y = subscriptions[k]
      BY <1>5, <1>6 DEF ListedIsLive
    <3>2. k # i
      BY <1>4, <1>5, <3>1
    <3>3. PICK j \in 1 .. n - 1 : f[j] = k
      BY <1>10, <3>2
    <3>4. QED
      BY <1>10, <3>1, <3>3
  <2>2. ASSUME NEW j \in 1 .. n - 1 PROVE subscriptions'[j] \in live'
    <3>1. f[j] \in 1 .. n /\ f[j] # i /\ subscriptions'[j] = subscriptions[f[j]]
      BY <1>10
    <3>2. subscriptions[f[j]] # x
      BY <1>4, <1>6, <1>8, <3>1 DEF DistinctSubscriptions
    <3>3. QED
      BY <1>5, <1>6, <3>1, <3>2
  <2>3. QED
    BY <1>7, <2>1, <2>2 DEF ListedIsLive
<1>14. Made'
  BY <1>5 DEF Made
<1>15. InUseLast'
  BY <1>5, <1>6, <1>7, <1>10 DEF InUseLast
<1>16. EnoughLeft'
  <2>1. IsFiniteSet(wanted') /\ IsFiniteSet(live')
    BY <1>5, FS_RemoveElement DEF EnoughLeft
  <2>2. ASSUME NEW m \in Numbers
        PROVE  Cardinality(WantedOf(m))' <= Cardinality(LiveOf(m))'
    <3>1. IsFiniteSet(WantedOf(m)) /\ IsFiniteSet(LiveOf(m))
      BY FS_Subset DEF EnoughLeft, WantedOf, LiveOf
    <3>2. Cardinality(WantedOf(m)) \in Nat /\ Cardinality(LiveOf(m)) \in Nat
      BY <3>1, FS_CardinalityType
    <3>3. CASE s.number = m
      <4>1. WantedOf(m)' = WantedOf(m) \ {s} /\ LiveOf(m)' = LiveOf(m) \ {x}
        BY <1>5, <3>3 DEF WantedOf, LiveOf
      <4>2. s \in WantedOf(m) /\ x \in LiveOf(m)
        BY <1>1, <1>8, <3>3 DEF WantedOf, LiveOf
      <4>3. /\ Cardinality(WantedOf(m))' = Cardinality(WantedOf(m)) - 1
            /\ Cardinality(LiveOf(m))' = Cardinality(LiveOf(m)) - 1
        BY <3>1, <4>1, <4>2, FS_RemoveElement
      <4>4. QED
        BY <3>2, <4>3 DEF EnoughLeft
    <3>4. CASE s.number # m
      <4>1. WantedOf(m)' = WantedOf(m) /\ LiveOf(m)' = LiveOf(m)
        BY <1>5, <1>8, <3>4 DEF WantedOf, LiveOf
      <4>2. QED
        BY <4>1 DEF EnoughLeft
    <3>5. QED
      BY <3>3, <3>4
  <2>3. QED
    BY <2>1, <2>2 DEF EnoughLeft
<1>17. WantedStaysLive'
  <2> SUFFICES ASSUME NEW t \in wanted', t.connection = natsConnection
               PROVE  t \in live'
    BY <1>5 DEF WantedStaysLive
  <2>1. t \in wanted /\ t # s /\ t \in live /\ t \in AnySubscription /\ x \in AnySubscription
    BY <1>5, <1>6, <1>8 DEF WantedStaysLive, MessagingTypeOK
  <2>2. SUFFICES ASSUME t = x PROVE FALSE
    BY <1>5, <2>1
  <2>3. LiveOf(s.number) = {x}
    <3>1. ASSUME NEW y \in live, y.number = s.number PROVE y = x
      <4>1. PICK k \in 1 .. n : y = subscriptions[k]
        BY <1>6 DEF ListedIsLive
      <4>2. i <= k
        BY <1>3, <1>6, <3>1, <4>1
      <4>3. CASE i = k
        BY <1>4, <4>1, <4>3
      <4>4. CASE i < k
        <5>1. y.connection = natsConnection
          BY <1>4, <1>6, <1>8, <2>2, <4>1, <4>4 DEF InUseLast
        <5>2. y \in AnySubscription
          BY <1>6, <4>1
        <5>3. y = x
          BY <1>8, <2>1, <2>2, <3>1, <5>1, <5>2 DEF AnySubscription
        <5>4. QED
          BY <5>3
      <4>5. QED
        BY <1>8, <4>2, <4>3, <4>4
    <3>2. QED
      BY <1>8, <3>1 DEF LiveOf
  <2>4. Cardinality(LiveOf(s.number)) = 1
    BY <2>3, FS_Singleton
  <2>5. t \in WantedOf(s.number) /\ s \in WantedOf(s.number) /\ IsFiniteSet(WantedOf(s.number))
    BY <1>1, <1>8, <2>1, <2>2, FS_Subset DEF WantedOf, EnoughLeft
  <2>6. {s, t} \in SUBSET WantedOf(s.number) /\ {s, t} = {s} \cup {t}
    BY <2>5
  <2>7. Cardinality({s, t}) = 2
    <3>1. IsFiniteSet({s}) /\ Cardinality({s}) = 1 /\ t \notin {s}
      BY <2>1, FS_Singleton
    <3>2. Cardinality({s} \cup {t}) = Cardinality({s}) + 1
      BY <3>1, FS_AddElement
    <3>3. QED
      BY <2>6, <3>1, <3>2
  <2>8. Cardinality({s, t}) <= Cardinality(WantedOf(s.number))
    BY <2>5, <2>6, FS_Subset
  <2>9. Cardinality(WantedOf(s.number)) \in Nat
    BY <2>5, FS_CardinalityType
  <2>10. Cardinality(WantedOf(s.number)) <= 1
    BY <1>1, <2>4 DEF EnoughLeft
  <2>11. QED
    BY <2>7, <2>8, <2>9, <2>10
<1>18. QED
  BY <1>11, <1>12, <1>13, <1>14, <1>15, <1>16, <1>17

LEMMA SubscriptionInvHolds == MessagingSpec => []SubscriptionInv
<1>1. SubscriptionInv /\ [MessagingNext]_messagingVars => SubscriptionInv'
  <2> SUFFICES ASSUME SubscriptionInv, [MessagingNext]_messagingVars
               PROVE  SubscriptionInv'
    OBVIOUS
  <2>1. ASSUME NEW k \in Connections, ConnectStep(k) PROVE SubscriptionInv'
    BY <2>1, ConnectKeeps
  <2>2. CASE subscribeTo
    BY <2>2, SubscribeKeeps
  <2>3. ASSUME NEW s \in AnySubscription, unsubscribeFrom(s) PROVE SubscriptionInv'
    BY <2>3, UnsubscribeKeeps
  <2>4. CASE UNCHANGED messagingVars
    BY <2>4 DEF messagingVars, SubscriptionInv, ListInv, MessagingTypeOK,
                DistinctSubscriptions, ListedIsLive, Made, InUseLast, EnoughLeft,
                WantedOf, LiveOf, WantedStaysLive
  <2>5. QED
    BY <2>1, <2>2, <2>3, <2>4 DEF MessagingNext
<1>2. QED
  BY <1>1, InitSubscriptions, PTL DEF MessagingSpec

(* Every variable keeps its type, for any number of connections. *)
THEOREM TypeCorrect == MessagingSpec => []MessagingTypeOK
<1>1. SubscriptionInv => MessagingTypeOK
  BY DEF SubscriptionInv, ListInv
<1>2. QED
  BY <1>1, SubscriptionInvHolds, PTL

(* unsubscribeFrom: numbers repeat on every connection, and still nobody   *)
(* who unsubscribes ends what is wanted on the connection in use.          *)
THEOREM WantedIsDelivered == MessagingSpec => []WantedStaysLive
<1>1. SubscriptionInv => WantedStaysLive
  BY DEF SubscriptionInv
<1>2. QED
  BY <1>1, SubscriptionInvHolds, PTL
=============================================================================
