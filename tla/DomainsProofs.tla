---------------------------- MODULE DomainsProofs ----------------------------
EXTENDS Domains, FiniteSetTheorems, SequenceTheorems, TLAPS

Labels == Organizations \cup Applications \cup RoleNames \cup {"roles", "apps", "iam"}

LEMMA ParentOf ==
    ASSUME NEW l \in Labels, NEW n \in Seq(Labels)
    PROVE  /\ <<l>> \o n \in Seq(Labels)
           /\ Parent(<<l>> \o n) = n
           /\ Len(<<l>> \o n) = Len(n) + 1
           /\ (<<l>> \o n)[1] = l
<1>1. <<l>> \in Seq(Labels) /\ Len(<<l>>) = 1 /\ <<l>>[1] = l
  OBVIOUS
<1>2. <<l>> \o n \in Seq(Labels) /\ Len(<<l>> \o n) = Len(n) + 1
  BY <1>1
<1>3. (<<l>> \o n)[1] = l
  BY <1>1, <1>2
<1>4. Tail(<<l>> \o n) = n
  <2>1. Tail(<<l>> \o n) \in Seq(Labels) /\ Len(Tail(<<l>> \o n)) = Len(n)
    BY <1>2
  <2>2. \A i \in 1..Len(n) : Tail(<<l>> \o n)[i] = n[i]
    BY <1>1, <1>2
  <2>3. QED
    BY <2>1, <2>2, SeqEqual
<1>5. QED
  BY <1>2, <1>3, <1>4 DEF Parent

LEMMA OrgFacts ==
    ASSUME NEW g \in Orgs
    PROVE  /\ g \in Seq(Labels) /\ Len(g) = 2 /\ g[1] \in Organizations
           /\ Parent(g) = Root /\ g \in Nodes /\ Root \in Nodes
<1>1. PICK o \in Organizations : g = <<o>> \o Root
  BY DEF Orgs
<1>2. o \in Labels /\ Root \in Seq(Labels) /\ Len(Root) = 1
  BY DEF Labels, Root
<1>3. g \in Nodes /\ Root \in Nodes
  BY DEF Nodes
<1>4. /\ <<o>> \o Root \in Seq(Labels) /\ Parent(<<o>> \o Root) = Root
      /\ Len(<<o>> \o Root) = Len(Root) + 1 /\ (<<o>> \o Root)[1] = o
  BY <1>2, ParentOf
<1>5. QED
  BY <1>1, <1>2, <1>3, <1>4

LEMMA AppsOfFacts ==
    ASSUME NEW g \in Orgs
    PROVE  /\ AppsOf(g) \in Seq(Labels) /\ Len(AppsOf(g)) = 3 /\ AppsOf(g)[1] = "apps"
           /\ Parent(AppsOf(g)) = g /\ AppsOf(g) \in Nodes
<1>1. "apps" \in Labels /\ g \in Seq(Labels) /\ Len(g) = 2
  BY OrgFacts DEF Labels
<1>2. AppsOf(g) \in Nodes
  BY DEF Nodes
<1>3. /\ <<"apps">> \o g \in Seq(Labels) /\ Parent(<<"apps">> \o g) = g
      /\ Len(<<"apps">> \o g) = Len(g) + 1 /\ (<<"apps">> \o g)[1] = "apps"
  BY <1>1, ParentOf
<1>4. QED
  BY <1>1, <1>2, <1>3 DEF AppsOf

LEMMA AppFacts ==
    ASSUME NEW a \in Apps
    PROVE  /\ a \in Seq(Labels) /\ Len(a) = 4 /\ a[1] \in Applications
           /\ \E g \in Orgs : Parent(a) = AppsOf(g)
           /\ a \in Nodes /\ Parent(a) \in Nodes
<1>1. PICK l \in Applications, g \in Orgs : a = <<l>> \o AppsOf(g)
  BY DEF Apps
<1>2. l \in Labels /\ AppsOf(g) \in Seq(Labels) /\ Len(AppsOf(g)) = 3 /\ AppsOf(g) \in Nodes
  BY AppsOfFacts DEF Labels
<1>3. a \in Nodes
  BY DEF Nodes
<1>4. /\ <<l>> \o AppsOf(g) \in Seq(Labels) /\ Parent(<<l>> \o AppsOf(g)) = AppsOf(g)
      /\ Len(<<l>> \o AppsOf(g)) = Len(AppsOf(g)) + 1 /\ (<<l>> \o AppsOf(g))[1] = l
  BY <1>2, ParentOf
<1>5. QED
  BY <1>1, <1>2, <1>3, <1>4

LEMMA RolesOfFacts ==
    ASSUME NEW n \in Orgs \cup Apps
    PROVE  /\ RolesOf(n) \in Seq(Labels) /\ (Len(RolesOf(n)) = 3 \/ Len(RolesOf(n)) = 5)
           /\ RolesOf(n)[1] = "roles" /\ Parent(RolesOf(n)) = n
           /\ RolesOf(n) \in Nodes /\ n \in Nodes
<1>1. "roles" \in Labels
  BY DEF Labels
<1>2. RolesOf(n) \in Nodes
  BY DEF Nodes, RoleSpaces
<1>3. n \in Seq(Labels) /\ (Len(n) = 2 \/ Len(n) = 4) /\ n \in Nodes
  BY OrgFacts, AppFacts
<1>4. /\ <<"roles">> \o n \in Seq(Labels) /\ Parent(<<"roles">> \o n) = n
      /\ Len(<<"roles">> \o n) = Len(n) + 1 /\ (<<"roles">> \o n)[1] = "roles"
  BY <1>1, <1>3, ParentOf
<1>5. /\ RolesOf(n) \in Seq(Labels) /\ Parent(RolesOf(n)) = n /\ RolesOf(n)[1] = "roles"
      /\ Len(RolesOf(n)) = Len(n) + 1
  BY <1>4, Zenon DEF RolesOf
<1>6. Len(RolesOf(n)) = 3 \/ Len(RolesOf(n)) = 5
  <2>1. CASE Len(n) = 2
    BY <1>5, <2>1
  <2>2. CASE Len(n) = 4
    BY <1>5, <2>2
  <2>3. QED
    BY <1>3, <2>1, <2>2
<1>7. QED
  BY <1>2, <1>3, <1>5, <1>6

LEMMA RoleFacts ==
    ASSUME NEW r \in Roles
    PROVE  /\ r \in Seq(Labels) /\ (Len(r) = 4 \/ Len(r) = 6)
           /\ \E n \in Orgs \cup Apps : Parent(r) = RolesOf(n)
           /\ r \in Nodes /\ Parent(r) \in Nodes
<1>1. PICK l \in RoleNames, n \in Orgs \cup Apps : r = <<l>> \o RolesOf(n)
  BY DEF Roles, RoleSpaces
<1>2. /\ l \in Labels /\ RolesOf(n) \in Seq(Labels) /\ (Len(RolesOf(n)) = 3 \/ Len(RolesOf(n)) = 5)
      /\ RolesOf(n) \in Nodes
  BY RolesOfFacts DEF Labels
<1>3. r \in Nodes
  BY DEF Nodes
<1>4. /\ <<l>> \o RolesOf(n) \in Seq(Labels) /\ Parent(<<l>> \o RolesOf(n)) = RolesOf(n)
      /\ Len(<<l>> \o RolesOf(n)) = Len(RolesOf(n)) + 1
  BY <1>2, ParentOf
<1>5. r \in Seq(Labels) /\ Parent(r) = RolesOf(n) /\ Len(r) = Len(RolesOf(n)) + 1
  BY <1>1, <1>4, Zenon
<1>6. Len(r) = 4 \/ Len(r) = 6
  <2>1. CASE Len(RolesOf(n)) = 3
    BY <1>5, <2>1
  <2>2. CASE Len(RolesOf(n)) = 5
    BY <1>5, <2>2
  <2>3. QED
    BY <1>2, <2>1, <2>2
<1>7. QED
  BY <1>2, <1>3, <1>5, <1>6

(* An application is not a role: the names below differ.                   *)
LEMMA Apart ==
    /\ Apps \cap Roles = {}
    /\ \A g \in Orgs : g \notin Apps \cup Roles
    /\ \A n \in Orgs \cup Apps : RolesOf(n) \notin Orgs \cup Apps \cup Roles
    /\ \A g \in Orgs : AppsOf(g) \notin Orgs \cup Apps \cup Roles
    /\ \A g \in Orgs, n \in Orgs \cup Apps : AppsOf(g) # RolesOf(n)
<1>1. Apps \cap Roles = {}
  <2> SUFFICES ASSUME NEW a \in Apps, a \in Roles PROVE FALSE
    OBVIOUS
  <2>1. PICK g \in Orgs : Parent(a) = AppsOf(g)
    BY AppFacts
  <2>2. PICK n \in Orgs \cup Apps : Parent(a) = RolesOf(n)
    BY RoleFacts
  <2>3. Parent(a)[1] = "apps" /\ Parent(a)[1] = "roles"
    BY <2>1, <2>2, AppsOfFacts, RolesOfFacts
  <2>4. QED
    BY <2>3
<1>2. /\ \A g \in Orgs : Len(g) = 2 /\ Len(AppsOf(g)) = 3 /\ AppsOf(g)[1] = "apps"
      /\ \A a \in Apps : Len(a) = 4
      /\ \A r \in Roles : Len(r) = 4 \/ Len(r) = 6
      /\ \A n \in Orgs \cup Apps : /\ Len(RolesOf(n)) = 3 \/ Len(RolesOf(n)) = 5
                                   /\ RolesOf(n)[1] = "roles"
  BY OrgFacts, AppFacts, RoleFacts, RolesOfFacts, AppsOfFacts
<1>3. ASSUME NEW n \in Orgs \cup Apps PROVE RolesOf(n) \notin Orgs \cup Apps \cup Roles
  BY <1>2
<1>4. ASSUME NEW g \in Orgs PROVE AppsOf(g) \notin Orgs \cup Apps \cup Roles
  BY <1>2
<1>5. ASSUME NEW g \in Orgs, NEW n \in Orgs \cup Apps PROVE AppsOf(g) # RolesOf(n)
  BY <1>2
<1>6. QED
  BY <1>1, <1>2, <1>3, <1>4, <1>5

(* SetToSeqs lists the elements of a finite set, each once.                *)
LEMMA Listed ==
    ASSUME NEW S, IsFiniteSet(S), NEW s \in SetToSeqs(S)
    PROVE  /\ s \in Seq(S) /\ \A x \in S : \E i \in DOMAIN s : s[i] = x
           /\ \A i, j \in DOMAIN s : s[i] = s[j] => i = j
<1> DEFINE D == 1..Cardinality(S)
<1>1. Cardinality(S) \in Nat
  BY FS_CardinalityType
<1>2. s \in [D -> S] /\ \A i, j \in D : i # j => s[i] # s[j]
  BY DEF SetToSeqs
<1>3. s \in Seq(S)
  BY <1>1, <1>2, IsASeq
<1>4. s \in Injection(D, S)
  BY <1>2 DEF Injection, IsInjective
<1>5. IsFiniteSet(D) /\ Cardinality(D) = Cardinality(S)
  BY <1>1, FS_Interval
<1>6. s \in Surjection(D, S)
  BY <1>4, <1>5, FS_Injection
<1>7. DOMAIN s = D /\ \A x \in S : \E i \in D : s[i] = x
  BY <1>2, <1>6 DEF Surjection
<1>8. QED
  BY <1>2, <1>3, <1>7

----------------------------------------------------------------------------
(* Transactions and lists of them.                                         *)

LEMMA TxTypes ==
    ASSUME NEW n \in Nodes, NEW w \in Users \cup {Nobody}
    PROVE  /\ createSubdomainTx(n, w) \in Txs
           /\ changeDomainOwnerTx(n, w) \in Txs
           /\ deleteDomainTx(n) \in Txs
           /\ setResolverTx(n) \in Txs
           /\ newDomain(n) \in Txs
           /\ editDomain(n) \in Txs
           /\ setDomainNameTx(n) \in Txs
  BY DEF createSubdomainTx, changeDomainOwnerTx, deleteDomainTx, setResolverTx, newDomain,
         editDomain, setDomainNameTx, Tx, Txs

(* Every element of s \o t is one of s or one of t, in this order.         *)
LEMMA Concat ==
    ASSUME NEW s \in Seq(Txs), NEW t \in Seq(Txs)
    PROVE  /\ s \o t \in Seq(Txs)
           /\ \A i \in DOMAIN (s \o t) :
                  \/ i \in DOMAIN s /\ (s \o t)[i] = s[i]
                  \/ \E j \in DOMAIN t : i = Len(s) + j /\ (s \o t)[i] = t[j]
           /\ \A i \in DOMAIN s : i \in DOMAIN (s \o t) /\ (s \o t)[i] = s[i]
           /\ \A j \in DOMAIN t : \E i \in DOMAIN (s \o t) : (s \o t)[i] = t[j]
<1>1. s \o t \in Seq(Txs) /\ Len(s \o t) = Len(s) + Len(t)
  OBVIOUS
<1>2. /\ DOMAIN (s \o t) = 1..(Len(s) + Len(t))
      /\ DOMAIN s = 1..Len(s) /\ DOMAIN t = 1..Len(t)
      /\ Len(s) \in Nat /\ Len(t) \in Nat
  BY <1>1
<1>3. /\ \A i \in 1..Len(s) : (s \o t)[i] = s[i]
      /\ \A j \in 1..Len(t) : (s \o t)[Len(s) + j] = t[j]
  OBVIOUS
<1>4. ASSUME NEW i \in DOMAIN (s \o t)
      PROVE  \/ i \in DOMAIN s /\ (s \o t)[i] = s[i]
             \/ \E j \in DOMAIN t : i = Len(s) + j /\ (s \o t)[i] = t[j]
  <2>1. CASE i \in 1..Len(s)
    BY <2>1, <1>2, <1>3
  <2>2. CASE i \notin 1..Len(s)
    <3>1. i - Len(s) \in 1..Len(t) /\ i = Len(s) + (i - Len(s))
      BY <2>2, <1>2
    <3>2. QED
      BY <3>1, <1>2, <1>3
  <2>3. QED
    BY <2>1, <2>2
<1>5. ASSUME NEW i \in DOMAIN s PROVE i \in DOMAIN (s \o t) /\ (s \o t)[i] = s[i]
  BY <1>2, <1>3
<1>6. ASSUME NEW j \in DOMAIN t PROVE \E i \in DOMAIN (s \o t) : (s \o t)[i] = t[j]
  <2>1. Len(s) + j \in DOMAIN (s \o t)
    BY <1>2
  <2>2. QED
    BY <2>1, <1>2, <1>3
<1>7. QED
  BY <1>1, <1>4, <1>5, <1>6

(* No two elements of s are about the same namespace.                      *)
Once(s) == \A i, j \in DOMAIN s : s[i].node = s[j].node => i = j

LEMMA ConcatOnce ==
    ASSUME NEW s \in Seq(Txs), NEW t \in Seq(Txs), Once(s), Once(t),
           NEW M, NEW N, M \cap N = {},
           \A i \in DOMAIN s : s[i].node \in M, \A i \in DOMAIN t : t[i].node \in N
    PROVE  Once(s \o t)
<1>1. ASSUME NEW i \in DOMAIN (s \o t), NEW j \in DOMAIN (s \o t),
             (s \o t)[i].node = (s \o t)[j].node
      PROVE  i = j
  <2>1. CASE i \in DOMAIN s /\ (s \o t)[i] = s[i] /\ j \in DOMAIN s /\ (s \o t)[j] = s[j]
    BY <2>1, <1>1 DEF Once
  <2>2. CASE i \in DOMAIN s /\ (s \o t)[i] = s[i]
             /\ \E k \in DOMAIN t : j = Len(s) + k /\ (s \o t)[j] = t[k]
    BY <2>2, <1>1
  <2>3. CASE j \in DOMAIN s /\ (s \o t)[j] = s[j]
             /\ \E k \in DOMAIN t : i = Len(s) + k /\ (s \o t)[i] = t[k]
    BY <2>3, <1>1
  <2>4. CASE /\ \E k \in DOMAIN t : i = Len(s) + k /\ (s \o t)[i] = t[k]
             /\ \E k \in DOMAIN t : j = Len(s) + k /\ (s \o t)[j] = t[k]
    BY <2>4, <1>1 DEF Once
  <2>5. ASSUME NEW k \in DOMAIN (s \o t)
        PROVE  \/ k \in DOMAIN s /\ (s \o t)[k] = s[k]
               \/ \E l \in DOMAIN t : k = Len(s) + l /\ (s \o t)[k] = t[l]
    BY Concat
  <2>6. QED
    BY <2>1, <2>2, <2>3, <2>4, <2>5, Zenon
<1>2. QED
  BY <1>1 DEF Once

(* s gives namespaces of N to w.                                           *)
Transfers(s, N, w) ==
    /\ s \in Seq(Txs)
    /\ \A i \in DOMAIN s : s[i].do = "setOwner" /\ s[i].owner = w /\ s[i].node \in N

(* What is not w's yet is still in s.                                      *)
Covers(s, N, w) == \A n \in N : owner[n] = w \/ \E i \in DOMAIN s : s[i].node = n

(* s gives to w, each once, the namespaces of N that are not his yet.      *)
Due(s, N, w) ==
    /\ Transfers(s, N, w) /\ Covers(s, N, w) /\ Once(s)
    /\ \A i \in DOMAIN s : owner[s[i].node] # w

LEMMA ConcatDue ==
    ASSUME NEW s, NEW t, NEW M, NEW N, NEW w, M \cap N = {}, Due(s, M, w), Due(t, N, w)
    PROVE  Due(s \o t, M \cup N, w)
<1>1. s \in Seq(Txs) /\ t \in Seq(Txs)
  BY DEF Due, Transfers
<1>2. Transfers(s \o t, M \cup N, w)
  BY <1>1, Concat DEF Due, Transfers
<1>3. ASSUME NEW n \in M \cup N
      PROVE  owner[n] = w \/ \E i \in DOMAIN (s \o t) : (s \o t)[i].node = n
  <2>1. CASE owner[n] = w
    BY <2>1
  <2>2. CASE \E i \in DOMAIN s : s[i].node = n
    <3>1. PICK i \in DOMAIN s : s[i].node = n
      BY <2>2
    <3>2. i \in DOMAIN (s \o t) /\ (s \o t)[i] = s[i]
      BY <1>1, Concat
    <3>3. QED
      BY <3>1, <3>2
  <2>3. CASE \E i \in DOMAIN t : t[i].node = n
    <3>1. PICK j \in DOMAIN t : t[j].node = n
      BY <2>3
    <3>2. PICK i \in DOMAIN (s \o t) : (s \o t)[i] = t[j]
      BY <1>1, Concat
    <3>3. QED
      BY <3>1, <3>2
  <2>4. QED
    BY <2>1, <2>2, <2>3 DEF Due, Covers
<1>4. Once(s \o t)
  BY <1>1, ConcatOnce DEF Due, Transfers
<1>5. \A i \in DOMAIN (s \o t) : owner[(s \o t)[i].node] # w
  BY <1>1, Concat DEF Due
<1>6. QED
  BY <1>2, <1>3, <1>4, <1>5 DEF Due, Covers

LEMMA TransferDue ==
    ASSUME NEW n \in Nodes, NEW w \in Users \cup {Nobody}
    PROVE  Due(transferDue(n, w), {n}, w)
<1> DEFINE tx == changeDomainOwnerTx(n, w)
<1>1. tx \in Txs /\ tx.do = "setOwner" /\ tx.owner = w /\ tx.node = n
  BY TxTypes DEF changeDomainOwnerTx, Tx
<1> HIDE DEF tx
<1>2. CASE owner[n] = w
  <2>1. transferDue(n, w) = <<>>
    BY <1>2 DEF transferDue
  <2>2. QED
    BY <1>2, <2>1 DEF Due, Transfers, Covers, Once
<1>3. CASE owner[n] # w
  <2>1. transferDue(n, w) = <<tx>>
    BY <1>3 DEF transferDue, tx
  <2>2. <<tx>> \in Seq(Txs) /\ DOMAIN <<tx>> = {1} /\ <<tx>>[1] = tx
    BY <1>1
  <2>3. QED
    BY <1>1, <1>3, <2>1, <2>2 DEF Due, Transfers, Covers, Once
<1>4. QED
  BY <1>2, <1>3

LEMMA OrgTransfers ==
    ASSUME NEW g \in Orgs, NEW w \in Users \cup {Nobody}
    PROVE  Due(orgTransfers(g, w), orgNamespaces(g), w)
<1>1. /\ RolesOf(g) \in Nodes /\ AppsOf(g) \in Nodes /\ g \in Nodes
      /\ RolesOf(g) # g /\ AppsOf(g) # g /\ AppsOf(g) # RolesOf(g)
  BY RolesOfFacts, AppsOfFacts, Apart
<1> DEFINE r == transferDue(RolesOf(g), w)
           a == transferDue(AppsOf(g), w)
           o == transferDue(g, w)
<1>2. Due(r, {RolesOf(g)}, w) /\ Due(a, {AppsOf(g)}, w) /\ Due(o, {g}, w)
  BY <1>1, TransferDue
<1>3. orgTransfers(g, w) = r \o (a \o o)
  BY DEF orgTransfers
<1>4. {AppsOf(g)} \cap {g} = {} /\ {RolesOf(g)} \cap ({AppsOf(g)} \cup {g}) = {}
  BY <1>1
<1> HIDE DEF r, a, o
<1>5. Due(a \o o, {AppsOf(g)} \cup {g}, w)
  BY <1>2, <1>4, ConcatDue
<1>6. Due(r \o (a \o o), {RolesOf(g)} \cup ({AppsOf(g)} \cup {g}), w)
  BY <1>2, <1>4, <1>5, ConcatDue
<1>7. {RolesOf(g)} \cup ({AppsOf(g)} \cup {g}) = orgNamespaces(g)
  BY DEF orgNamespaces
<1>8. QED
  BY <1>3, <1>6, <1>7

LEMMA AppTransfers ==
    ASSUME NEW a \in Apps, NEW w \in Users \cup {Nobody}, NEW s \in appTransfers(a, w)
    PROVE  Due(s, appNamespaces(a), w)
<1> DEFINE R == {r \in rolesKnown(a) : owner[r] # w}
<1>1. PICK roles \in SetToSeqs(R) :
          s = [i \in DOMAIN roles |-> changeDomainOwnerTx(roles[i], w)]
                  \o (transferDue(RolesOf(a), w) \o transferDue(a, w))
  BY DEF appTransfers
<1>2. /\ R \subseteq Nodes /\ R \subseteq rolesKnown(a) /\ rolesKnown(a) \subseteq Roles
      /\ \A r \in R : owner[r] # w
  BY RoleFacts DEF rolesKnown
<1>3. IsFiniteSet(R)
  BY <1>2, NodesAssumption, FS_Subset
<1> HIDE DEF R
<1>4. /\ roles \in Seq(R) /\ \A r \in R : \E i \in DOMAIN roles : roles[i] = r
      /\ \A i, j \in DOMAIN roles : roles[i] = roles[j] => i = j
  BY <1>3, Listed
<1> DEFINE q == [i \in DOMAIN roles |-> changeDomainOwnerTx(roles[i], w)]
           t == transferDue(RolesOf(a), w)
           u == transferDue(a, w)
<1>5. \A i \in DOMAIN roles : roles[i] \in R
  BY <1>4
<1>6. \A i \in DOMAIN q : /\ q[i] \in Txs /\ q[i].do = "setOwner" /\ q[i].owner = w
                          /\ q[i].node = roles[i]
  BY <1>2, <1>5, TxTypes DEF changeDomainOwnerTx, Tx
<1>7. q \in Seq(Txs) /\ DOMAIN q = DOMAIN roles
  BY <1>4, <1>6
<1> HIDE DEF q
<1>8. Transfers(q, rolesKnown(a), w)
  BY <1>2, <1>5, <1>6, <1>7 DEF Transfers
<1>9. Covers(q, rolesKnown(a), w)
  <2> SUFFICES ASSUME NEW n \in rolesKnown(a), owner[n] # w
               PROVE  \E i \in DOMAIN q : q[i].node = n
    BY DEF Covers
  <2>1. n \in R
    BY DEF R
  <2>2. QED
    BY <2>1, <1>4, <1>6, <1>7
<1>10. Due(q, rolesKnown(a), w)
  BY <1>2, <1>4, <1>5, <1>6, <1>7, <1>8, <1>9 DEF Due, Once
<1>11. /\ a \in Nodes /\ RolesOf(a) \in Nodes /\ RolesOf(a) # a
       /\ RolesOf(a) \notin Roles /\ a \notin Roles
  BY AppFacts, RolesOfFacts, Apart
<1>12. Due(t, {RolesOf(a)}, w) /\ Due(u, {a}, w)
  BY <1>11, TransferDue
<1>13. s = q \o (t \o u)
  BY <1>1 DEF q
<1>14. {RolesOf(a)} \cap {a} = {} /\ rolesKnown(a) \cap ({RolesOf(a)} \cup {a}) = {}
  BY <1>2, <1>11
<1> HIDE DEF t, u
<1>15. Due(t \o u, {RolesOf(a)} \cup {a}, w)
  BY <1>12, <1>14, ConcatDue
<1>16. Due(q \o (t \o u), rolesKnown(a) \cup ({RolesOf(a)} \cup {a}), w)
  BY <1>10, <1>14, <1>15, ConcatDue
<1>17. appNamespaces(a) = rolesKnown(a) \cup ({RolesOf(a)} \cup {a})
  BY DEF appNamespaces
<1>18. QED
  BY <1>13, <1>16, <1>17

(* s removes namespaces of N that there are, each once.                    *)
Removes(s, N) ==
    /\ s \in Seq(Txs)
    /\ \A i \in DOMAIN s : /\ s[i].do = "setRecord" /\ s[i].owner = Nobody
                           /\ s[i].node \in N /\ owner[s[i].node] # Nobody
    /\ Once(s)

LEMMA ConcatRemoves ==
    ASSUME NEW s, NEW t, NEW M, NEW N, M \cap N = {}, Removes(s, M), Removes(t, N)
    PROVE  Removes(s \o t, M \cup N)
<1>1. s \in Seq(Txs) /\ t \in Seq(Txs) /\ s \o t \in Seq(Txs)
  BY Concat DEF Removes
<1>2. ASSUME NEW i \in DOMAIN (s \o t)
      PROVE  /\ (s \o t)[i].do = "setRecord" /\ (s \o t)[i].owner = Nobody
             /\ (s \o t)[i].node \in M \cup N /\ owner[(s \o t)[i].node] # Nobody
  BY <1>1, Concat DEF Removes
<1>3. Once(s \o t)
  BY <1>1, ConcatOnce DEF Removes
<1>4. QED
  BY <1>1, <1>2, <1>3 DEF Removes

LEMMA RemovalDue ==
    ASSUME NEW n \in Nodes
    PROVE  Removes(removalDue(n), {n})
<1> DEFINE tx == deleteDomainTx(n)
<1>1. tx \in Txs /\ tx.do = "setRecord" /\ tx.owner = Nobody /\ tx.node = n
  BY TxTypes DEF deleteDomainTx, Tx
<1> HIDE DEF tx
<1>2. CASE owner[n] = Nobody
  <2>1. removalDue(n) = <<>>
    BY <1>2 DEF removalDue
  <2>2. QED
    BY <2>1 DEF Removes, Once
<1>3. CASE owner[n] # Nobody
  <2>1. removalDue(n) = <<tx>>
    BY <1>3 DEF removalDue, tx
  <2>2. <<tx>> \in Seq(Txs) /\ DOMAIN <<tx>> = {1} /\ <<tx>>[1] = tx
    BY <1>1
  <2>3. QED
    BY <1>1, <1>3, <2>1, <2>2 DEF Removes, Once
<1>4. QED
  BY <1>2, <1>3

LEMMA AppRemovals ==
    ASSUME NEW a \in Apps
    PROVE  Removes(removalDue(RolesOf(a)) \o removalDue(a), {RolesOf(a), a})
<1>1. RolesOf(a) \in Nodes /\ a \in Nodes /\ RolesOf(a) # a
  BY RolesOfFacts, Apart
<1>2. Removes(removalDue(RolesOf(a)), {RolesOf(a)}) /\ Removes(removalDue(a), {a})
  BY <1>1, RemovalDue
<1>3. {RolesOf(a)} \cap {a} = {} /\ {RolesOf(a)} \cup {a} = {RolesOf(a), a}
  BY <1>1
<1>4. Removes(removalDue(RolesOf(a)) \o removalDue(a), {RolesOf(a)} \cup {a})
  BY <1>2, <1>3, ConcatRemoves
<1>5. QED
  BY <1>3, <1>4

LEMMA OrgRemovals ==
    ASSUME NEW g \in Orgs
    PROVE  Removes(removalDue(RolesOf(g)) \o (removalDue(AppsOf(g)) \o removalDue(g)),
                   orgNamespaces(g))
<1>1. /\ RolesOf(g) \in Nodes /\ AppsOf(g) \in Nodes /\ g \in Nodes
      /\ RolesOf(g) # g /\ AppsOf(g) # g /\ AppsOf(g) # RolesOf(g)
  BY RolesOfFacts, AppsOfFacts, Apart
<1>2. /\ Removes(removalDue(RolesOf(g)), {RolesOf(g)})
      /\ Removes(removalDue(AppsOf(g)), {AppsOf(g)})
      /\ Removes(removalDue(g), {g})
  BY <1>1, RemovalDue
<1>3. {AppsOf(g)} \cap {g} = {} /\ {RolesOf(g)} \cap ({AppsOf(g)} \cup {g}) = {}
  BY <1>1
<1>4. Removes(removalDue(AppsOf(g)) \o removalDue(g), {AppsOf(g)} \cup {g})
  BY <1>2, <1>3, ConcatRemoves
<1>5. Removes(removalDue(RolesOf(g)) \o (removalDue(AppsOf(g)) \o removalDue(g)),
              {RolesOf(g)} \cup ({AppsOf(g)} \cup {g}))
  BY <1>2, <1>3, <1>4, ConcatRemoves
<1>6. {RolesOf(g)} \cup ({AppsOf(g)} \cup {g}) = orgNamespaces(g)
  BY DEF orgNamespaces
<1>7. QED
  BY <1>5, <1>6

----------------------------------------------------------------------------
(* What is known of an operation `f` that user `u` has under way.          *)

Site(tx) == IF tx.do = "setSubnodeRecord" THEN Parent(tx.node) ELSE tx.node

(* A transaction of s that u may send when its turn comes.                 *)
Granted(u, s, i) ==
    \/ owner[Site(s[i])] = u
    \/ \E j \in DOMAIN s : /\ j < i
                           /\ s[j].do = "setSubnodeRecord" /\ s[j].owner = u
                           /\ s[j].node = Site(s[i])

(* The owner of the parent was not compared with the caller, but he has    *)
(* sent the first step, or may.                                            *)
CreationOK(u, f) ==
    f.op \in Creations =>
        /\ \A i \in DOMAIN f.steps :
               /\ f.steps[i].do \in {"setSubnodeRecord", "newDomain", "setName"}
               /\ f.steps[i].do = "setSubnodeRecord" => f.steps[i].owner = f.to
               /\ Site(f.steps[i]) \in Nodes
        /\ f.begun \/ (f.steps # <<>> /\ owner[Site(f.steps[1])] = u)
               => f.to = u /\ \A i \in DOMAIN f.steps : Granted(u, f.steps, i)

Gone(f) == IF f.op = "deleteApplication" THEN {RolesOf(f.node), f.node}
                                         ELSE orgNamespaces(f.node)

RemovalOK(u, f) ==
    f.op \in {"deleteOrganization", "deleteApplication"} =>
        /\ f.node \in IF f.op = "deleteApplication" THEN Apps ELSE Orgs
        /\ f.to = Nobody
        /\ \A i \in DOMAIN f.steps :
               /\ f.steps[i].do = "setRecord" /\ f.steps[i].owner = Nobody
               /\ f.steps[i].node \in Gone(f)
               /\ \/ owner[f.steps[i].node] = u
                  \/ f.stepwise /\ i = 1 /\ owner[f.steps[i].node] = Nobody
        /\ Once(f.steps)
        /\ mayDelete(u, Gone(f))
        /\ \A n \in Gone(f), m \in f.known \cap (Roles \cup Apps) :
               n \notin {Parent(m), Parent(Parent(m))}

TransferOK(u, f) ==
    f.op \in {"changeAppOwnership", "changeOrgOwnership", "changeRoleOwnership"} =>
        /\ f.to \in Users
        /\ Transfers(f.steps, Nodes, f.to) /\ Transfers(f.later, Nodes, f.to)
        /\ f.op = "changeOrgOwnership" =>
               f.node \in Orgs /\ mayChange(u, orgNamespaces(f.node), f.to)
        /\ f.op = "changeAppOwnership" =>
               /\ f.node \in Apps
               /\ ~Lag => /\ indexed = Registered
                          /\ Covers(f.steps, appNamespaces(f.node), f.to)
                          /\ mayChange(u, appNamespaces(f.node), f.to)

OtherOK(f) ==
    /\ f.op = "none" => f.steps = <<>>
    /\ f.op = "setRoleDefinition" =>
           \A i \in DOMAIN f.steps : f.steps[i].do \in {"setResolver", "newDomain", "editDomain"}
    /\ f.op = "deleteRole" =>
           /\ f.node \in Roles
           /\ \A i \in DOMAIN f.steps : f.steps[i].do = "setRecord" /\ f.steps[i].node = f.node
    /\ f.op # "changeOrgOwnership" => f.apps = {} /\ f.later = <<>>

FlowOK(u, f) == CreationOK(u, f) /\ RemovalOK(u, f) /\ TransferOK(u, f) /\ OtherOK(f)

LEMMA NoFlowFacts ==
    /\ NoFlow \in Flows /\ NoFlow.op = "none" /\ NoFlow.to = Nobody
    /\ NoFlow.stepwise = FALSE /\ NoFlow.begun = FALSE /\ NoFlow.apps = {}
    /\ NoFlow.known = {} /\ NoFlow.steps = <<>> /\ NoFlow.later = <<>>
<1>1. Root \in Nodes /\ <<>> \in Seq(Txs)
  BY DEF Nodes
<1>2. QED
  BY <1>1 DEF NoFlow, Flows

LEMMA BeginCreateOrganization ==
    ASSUME TypeOK, NEW u \in Users, NEW g \in Orgs, NEW s \in BOOLEAN,
           createOrganization(u, g, s)
    PROVE  \E f \in Flows : Start(u, f) /\ FlowOK(u, f)
<1>1. /\ g \in Nodes /\ RolesOf(g) \in Nodes /\ AppsOf(g) \in Nodes
      /\ Parent(g) \in Nodes /\ Parent(RolesOf(g)) = g /\ Parent(AppsOf(g)) = g
  BY OrgFacts, RolesOfFacts, AppsOfFacts
<1> DEFINE t1 == createSubdomainTx(g, u)
           t2 == newDomain(g)
           t3 == createSubdomainTx(RolesOf(g), u)
           t4 == setDomainNameTx(RolesOf(g))
           t5 == createSubdomainTx(AppsOf(g), u)
           t6 == setDomainNameTx(AppsOf(g))
           txs == <<t1, t2, t3, t4, t5, t6>>
           f == [NoFlow EXCEPT !.op = "createOrganization", !.node = g, !.to = u,
                               !.stepwise = s, !.steps = txs]
<1>2. /\ t1 \in Txs /\ t2 \in Txs /\ t3 \in Txs /\ t4 \in Txs /\ t5 \in Txs /\ t6 \in Txs
  BY <1>1, TxTypes
<1>3. /\ t1.do = "setSubnodeRecord" /\ t1.node = g /\ t1.owner = u /\ Site(t1) = Parent(g)
      /\ t2.do = "newDomain" /\ Site(t2) = g
      /\ t3.do = "setSubnodeRecord" /\ t3.node = RolesOf(g) /\ t3.owner = u /\ Site(t3) = g
      /\ t4.do = "setName" /\ Site(t4) = RolesOf(g)
      /\ t5.do = "setSubnodeRecord" /\ t5.node = AppsOf(g) /\ t5.owner = u /\ Site(t5) = g
      /\ t6.do = "setName" /\ Site(t6) = AppsOf(g)
  BY <1>1 DEF createSubdomainTx, newDomain, setDomainNameTx, Tx, Site
<1>4. Start(u, f) /\ owner[Parent(g)] = u
  BY DEF createOrganization
<1> HIDE DEF t1, t2, t3, t4, t5, t6
<1>5. txs \in Seq(Txs) /\ DOMAIN txs = 1..6 /\ txs # <<>>
  BY <1>2
<1>6. /\ txs[1] = t1 /\ txs[2] = t2 /\ txs[3] = t3 /\ txs[4] = t4 /\ txs[5] = t5 /\ txs[6] = t6
  OBVIOUS
<1>7. \A i \in DOMAIN txs : i \in {1, 2, 3, 4, 5, 6}
  BY <1>5
<1> HIDE DEF txs
<1>8. f \in Flows /\ f.op = "createOrganization" /\ f.to = u /\ f.steps = txs
      /\ f.apps = {} /\ f.later = <<>>
  BY <1>1, <1>5, NoFlowFacts DEF Flows, Creations
<1> HIDE DEF f
<1>9. \A i \in DOMAIN txs :
          /\ txs[i].do \in {"setSubnodeRecord", "newDomain", "setName"}
          /\ txs[i].do = "setSubnodeRecord" => txs[i].owner = u
          /\ Site(txs[i]) \in Nodes
  BY <1>1, <1>3, <1>6, <1>7
<1>10. ASSUME NEW i \in DOMAIN txs PROVE Granted(u, txs, i)
  BY <1>3, <1>4, <1>5, <1>6, <1>7 DEF Granted
<1>11. CreationOK(u, f)
  BY <1>8, <1>9, <1>10 DEF CreationOK
<1>12. FlowOK(u, f)
  BY <1>8, <1>11 DEF FlowOK, RemovalOK, TransferOK, OtherOK
<1>13. QED
  BY <1>4, <1>8, <1>12

LEMMA BeginCreateApplication ==
    ASSUME TypeOK, NEW u \in Users, NEW a \in Apps, NEW s \in BOOLEAN,
           createApplication(u, a, s)
    PROVE  \E f \in Flows : Start(u, f) /\ FlowOK(u, f)
<1> DEFINE from == owner[Parent(a)]
           t1 == createSubdomainTx(a, from)
           t2 == newDomain(a)
           t3 == createSubdomainTx(RolesOf(a), from)
           t4 == setDomainNameTx(RolesOf(a))
           txs == <<t1, t2, t3, t4>>
           f == [NoFlow EXCEPT !.op = "createApplication", !.node = a, !.to = from,
                               !.stepwise = s, !.steps = txs]
<1>1. /\ a \in Nodes /\ RolesOf(a) \in Nodes /\ Parent(a) \in Nodes /\ Parent(RolesOf(a)) = a
      /\ from \in Users \cup {Nobody}
  BY AppFacts, RolesOfFacts DEF TypeOK
<1>2. t1 \in Txs /\ t2 \in Txs /\ t3 \in Txs /\ t4 \in Txs
  BY <1>1, TxTypes
<1>3. /\ t1.do = "setSubnodeRecord" /\ t1.node = a /\ t1.owner = from /\ Site(t1) = Parent(a)
      /\ t2.do = "newDomain" /\ Site(t2) = a
      /\ t3.do = "setSubnodeRecord" /\ t3.node = RolesOf(a) /\ t3.owner = from /\ Site(t3) = a
      /\ t4.do = "setName" /\ Site(t4) = RolesOf(a)
  BY <1>1 DEF createSubdomainTx, newDomain, setDomainNameTx, Tx, Site
<1>4. Start(u, f)
  BY DEF createApplication, createApplicationFrom
<1> HIDE DEF t1, t2, t3, t4
<1>5. txs \in Seq(Txs) /\ DOMAIN txs = 1..4 /\ txs # <<>>
  BY <1>2
<1>6. txs[1] = t1 /\ txs[2] = t2 /\ txs[3] = t3 /\ txs[4] = t4
  OBVIOUS
<1>7. \A i \in DOMAIN txs : i \in {1, 2, 3, 4}
  BY <1>5
<1> HIDE DEF txs
<1>8. f \in Flows /\ f.op = "createApplication" /\ f.to = from /\ f.steps = txs
      /\ f.apps = {} /\ f.later = <<>> /\ f.begun = FALSE
  BY <1>1, <1>5, NoFlowFacts DEF Flows, Creations
<1> HIDE DEF f
<1>9. \A i \in DOMAIN txs :
          /\ txs[i].do \in {"setSubnodeRecord", "newDomain", "setName"}
          /\ txs[i].do = "setSubnodeRecord" => txs[i].owner = from
          /\ Site(txs[i]) \in Nodes
  BY <1>1, <1>3, <1>6, <1>7
<1>10. Site(txs[1]) = Parent(a)
  BY <1>3, <1>6
<1>11. ASSUME from = u, NEW i \in DOMAIN txs PROVE Granted(u, txs, i)
  BY <1>3, <1>5, <1>6, <1>7, <1>11 DEF Granted
<1>12. CreationOK(u, f)
  BY <1>8, <1>9, <1>10, <1>11 DEF CreationOK
<1>13. FlowOK(u, f)
  BY <1>8, <1>12 DEF FlowOK, RemovalOK, TransferOK, OtherOK
<1>14. QED
  BY <1>4, <1>8, <1>13

LEMMA BeginCreateRole ==
    ASSUME TypeOK, NEW u \in Users, NEW r \in Roles, NEW s \in BOOLEAN, createRole(u, r, s)
    PROVE  \E f \in Flows : Start(u, f) /\ FlowOK(u, f)
<1> DEFINE from == owner[Parent(r)]
           t1 == createSubdomainTx(r, from)
           t2 == newDomain(r)
           txs == <<t1, t2>>
           f == [NoFlow EXCEPT !.op = "createRole", !.node = r, !.to = from,
                               !.stepwise = s, !.steps = txs]
<1>1. r \in Nodes /\ Parent(r) \in Nodes /\ from \in Users \cup {Nobody}
  BY RoleFacts DEF TypeOK
<1>2. t1 \in Txs /\ t2 \in Txs
  BY <1>1, TxTypes
<1>3. /\ t1.do = "setSubnodeRecord" /\ t1.node = r /\ t1.owner = from /\ Site(t1) = Parent(r)
      /\ t2.do = "newDomain" /\ Site(t2) = r
  BY <1>1 DEF createSubdomainTx, newDomain, Tx, Site
<1>4. Start(u, f)
  BY DEF createRole
<1> HIDE DEF t1, t2
<1>5. txs \in Seq(Txs) /\ DOMAIN txs = 1..2 /\ txs # <<>>
  BY <1>2
<1>6. txs[1] = t1 /\ txs[2] = t2
  OBVIOUS
<1>7. \A i \in DOMAIN txs : i \in {1, 2}
  BY <1>5
<1> HIDE DEF txs
<1>8. f \in Flows /\ f.op = "createRole" /\ f.to = from /\ f.steps = txs
      /\ f.apps = {} /\ f.later = <<>> /\ f.begun = FALSE
  BY <1>1, <1>5, NoFlowFacts DEF Flows, Creations
<1> HIDE DEF f
<1>9. \A i \in DOMAIN txs :
          /\ txs[i].do \in {"setSubnodeRecord", "newDomain", "setName"}
          /\ txs[i].do = "setSubnodeRecord" => txs[i].owner = from
          /\ Site(txs[i]) \in Nodes
  BY <1>1, <1>3, <1>6, <1>7
<1>10. Site(txs[1]) = Parent(r)
  BY <1>3, <1>6
<1>11. ASSUME from = u, NEW i \in DOMAIN txs PROVE Granted(u, txs, i)
  BY <1>3, <1>5, <1>6, <1>7, <1>11 DEF Granted
<1>12. CreationOK(u, f)
  BY <1>8, <1>9, <1>10, <1>11 DEF CreationOK
<1>13. FlowOK(u, f)
  BY <1>8, <1>12 DEF FlowOK, RemovalOK, TransferOK, OtherOK
<1>14. QED
  BY <1>4, <1>8, <1>13

LEMMA BeginTransfers ==
    ASSUME TypeOK, NEW u \in Users, NEW v \in Users
    PROVE  /\ \A g \in Orgs, s, w \in BOOLEAN : changeOrgOwnership(u, g, v, s, w)
                  => \E f \in Flows : Start(u, f) /\ FlowOK(u, f)
           /\ \A a \in Apps, s \in BOOLEAN : changeAppOwnership(u, a, v, s)
                  => \E f \in Flows : Start(u, f) /\ FlowOK(u, f)
           /\ \A r \in Roles : changeRoleOwnership(u, r, v)
                  => \E f \in Flows : Start(u, f) /\ FlowOK(u, f)
<1>0. <<>> \in Seq(Txs) /\ DOMAIN <<>> = {}
  OBVIOUS
<1>1. ASSUME NEW g \in Orgs, NEW s \in BOOLEAN, NEW w \in BOOLEAN,
             changeOrgOwnership(u, g, v, s, w)
      PROVE  \E f \in Flows : Start(u, f) /\ FlowOK(u, f)
  <2> DEFINE apps == IF s THEN {} ELSE getAppsOfOrg(g)
             txs == orgTransfers(g, v)
             f == [NoFlow EXCEPT !.op = "changeOrgOwnership", !.node = g, !.to = v,
                                 !.stepwise = s, !.apps = apps, !.later = txs]
  <2>1. Start(u, f) /\ mayChange(u, orgNamespaces(g), v)
    BY <1>1 DEF changeOrgOwnership
  <2>2. apps \subseteq Apps
    BY DEF getAppsOfOrg
  <2>3. /\ orgNamespaces(g) \subseteq Nodes /\ g \in Nodes
        /\ Transfers(txs, orgNamespaces(g), v)
    BY OrgTransfers, RolesOfFacts, AppsOfFacts DEF orgNamespaces, Due
  <2> HIDE DEF txs, apps
  <2>4. txs \in Seq(Txs) /\ Transfers(txs, Nodes, v) /\ Transfers(<<>>, Nodes, v)
    BY <2>3, <1>0 DEF Transfers
  <2>5. f \in Flows /\ f.op = "changeOrgOwnership" /\ f.to = v /\ f.node = g
        /\ f.steps = <<>> /\ f.later = txs
    BY <2>2, <2>3, <2>4, NoFlowFacts DEF Flows
  <2> HIDE DEF f
  <2>6. TransferOK(u, f)
    BY <2>1, <2>4, <2>5 DEF TransferOK
  <2>7. FlowOK(u, f)
    BY <2>5, <2>6 DEF FlowOK, CreationOK, RemovalOK, OtherOK, Creations
  <2>8. QED
    BY <2>1, <2>5, <2>7
<1>2. ASSUME NEW a \in Apps, NEW s \in BOOLEAN, changeAppOwnership(u, a, v, s)
      PROVE  \E f \in Flows : Start(u, f) /\ FlowOK(u, f)
  <2>1. PICK txs \in appTransfers(a, v) :
            Start(u, [NoFlow EXCEPT !.op = "changeAppOwnership", !.node = a, !.to = v,
                                    !.stepwise = s, !.steps = txs])
    BY <1>2 DEF changeAppOwnership
  <2> DEFINE f == [NoFlow EXCEPT !.op = "changeAppOwnership", !.node = a, !.to = v,
                                 !.stepwise = s, !.steps = txs]
  <2>2. /\ Transfers(txs, appNamespaces(a), v) /\ Covers(txs, appNamespaces(a), v)
        /\ appNamespaces(a) \subseteq Nodes /\ a \in Nodes
    BY AppTransfers, RoleFacts, RolesOfFacts, AppFacts DEF appNamespaces, rolesKnown, Due
  <2>3. txs \in Seq(Txs) /\ Transfers(txs, Nodes, v) /\ Transfers(<<>>, Nodes, v)
    BY <2>2, <1>0 DEF Transfers
  <2>4. mayChange(u, appNamespaces(a), v) /\ (~Lag => indexed = Registered)
    BY <1>2, <2>1 DEF changeAppOwnership, Start, Ready
  <2>5. f \in Flows /\ f.op = "changeAppOwnership" /\ f.to = v /\ f.node = a
        /\ f.steps = txs /\ f.later = <<>> /\ f.apps = {}
    BY <2>2, <2>3, NoFlowFacts DEF Flows
  <2>6. Start(u, f)
    BY <2>1
  <2> HIDE DEF f
  <2>7. TransferOK(u, f)
    BY <2>2, <2>3, <2>4, <2>5 DEF TransferOK
  <2>8. FlowOK(u, f)
    BY <2>5, <2>7 DEF FlowOK, CreationOK, RemovalOK, OtherOK, Creations
  <2>9. QED
    BY <2>6, <2>5, <2>8
<1>3. ASSUME NEW r \in Roles, changeRoleOwnership(u, r, v)
      PROVE  \E f \in Flows : Start(u, f) /\ FlowOK(u, f)
  <2> DEFINE tx == changeDomainOwnerTx(r, v)
             f == [NoFlow EXCEPT !.op = "changeRoleOwnership", !.node = r, !.to = v,
                                 !.steps = <<tx>>]
  <2>1. Start(u, f)
    BY <1>3 DEF changeRoleOwnership
  <2>2. r \in Nodes /\ tx \in Txs /\ tx.do = "setOwner" /\ tx.owner = v /\ tx.node = r
    BY RoleFacts, TxTypes DEF changeDomainOwnerTx, Tx
  <2> HIDE DEF tx
  <2>3. <<tx>> \in Seq(Txs) /\ DOMAIN <<tx>> = {1} /\ <<tx>>[1] = tx
    BY <2>2
  <2>4. Transfers(<<tx>>, Nodes, v) /\ Transfers(<<>>, Nodes, v)
    BY <2>2, <2>3, <1>0 DEF Transfers
  <2>5. f \in Flows /\ f.op = "changeRoleOwnership" /\ f.to = v /\ f.steps = <<tx>>
        /\ f.later = <<>> /\ f.apps = {}
    BY <2>2, <2>3, NoFlowFacts DEF Flows
  <2> HIDE DEF f
  <2>6. TransferOK(u, f)
    BY <2>4, <2>5 DEF TransferOK
  <2>7. FlowOK(u, f)
    BY <2>5, <2>6 DEF FlowOK, CreationOK, RemovalOK, OtherOK, Creations
  <2>8. QED
    BY <2>1, <2>5, <2>7
<1>4. QED
  BY <1>1, <1>2, <1>3

(* What has to be gone before a namespace is removed.                      *)
LEMMA BelowApp ==
    ASSUME NEW a \in Apps, NEW m \in Roles \cup Apps, NEW n \in {RolesOf(a), a},
           n \in {Parent(m), Parent(Parent(m))}
    PROVE  m \in Roles /\ Parent(m) = RolesOf(a)
<1>1. CASE m \in Roles
  <2>1. PICK k \in Orgs \cup Apps : Parent(m) = RolesOf(k)
    BY <1>1, RoleFacts
  <2>2. Parent(Parent(m)) = k
    BY <2>1, RolesOfFacts
  <2>3. QED
    BY <1>1, <2>1, <2>2, Apart
<1>2. CASE m \in Apps
  <2>1. PICK g \in Orgs : Parent(m) = AppsOf(g)
    BY <1>2, AppFacts
  <2>2. Parent(Parent(m)) = g
    BY <2>1, AppsOfFacts
  <2>3. QED
    BY <2>1, <2>2, Apart
<1>3. QED
  BY <1>1, <1>2

LEMMA BelowOrg ==
    ASSUME NEW g \in Orgs, NEW m \in Roles \cup Apps, NEW n \in orgNamespaces(g),
           n \in {Parent(m), Parent(Parent(m))}
    PROVE  \/ m \in Roles /\ Parent(m) = RolesOf(g)
           \/ m \in Apps /\ Parent(m) = AppsOf(g)
<1>0. n \in {RolesOf(g), AppsOf(g), g}
  BY DEF orgNamespaces
<1>1. CASE m \in Roles
  <2>1. PICK k \in Orgs \cup Apps : Parent(m) = RolesOf(k)
    BY <1>1, RoleFacts
  <2>2. Parent(Parent(m)) = k
    BY <2>1, RolesOfFacts
  <2>3. QED
    BY <1>0, <1>1, <2>1, <2>2, Apart
<1>2. CASE m \in Apps
  <2>1. PICK h \in Orgs : Parent(m) = AppsOf(h)
    BY <1>2, AppFacts
  <2>2. Parent(Parent(m)) = h
    BY <2>1, AppsOfFacts
  <2>3. QED
    BY <1>0, <1>2, <2>1, <2>2, Apart
<1>3. QED
  BY <1>1, <1>2

LEMMA BelowRole ==
    ASSUME NEW r \in Roles, NEW m \in Roles \cup Apps
    PROVE  r \notin {Parent(m), Parent(Parent(m))}
<1>1. CASE m \in Roles
  <2>1. PICK k \in Orgs \cup Apps : Parent(m) = RolesOf(k)
    BY <1>1, RoleFacts
  <2>2. Parent(Parent(m)) = k
    BY <2>1, RolesOfFacts
  <2>3. QED
    BY <2>1, <2>2, Apart
<1>2. CASE m \in Apps
  <2>1. PICK g \in Orgs : Parent(m) = AppsOf(g)
    BY <1>2, AppFacts
  <2>2. Parent(Parent(m)) = g
    BY <2>1, AppsOfFacts
  <2>3. QED
    BY <2>1, <2>2, Apart
<1>3. QED
  BY <1>1, <1>2

LEMMA BeginRemovals ==
    ASSUME TypeOK, NEW u \in Users
    PROVE  /\ \A g \in Orgs, s \in BOOLEAN : deleteOrganization(u, g, s)
                  => \E f \in Flows : Start(u, f) /\ FlowOK(u, f)
           /\ \A a \in Apps, s \in BOOLEAN : deleteApplication(u, a, s)
                  => \E f \in Flows : Start(u, f) /\ FlowOK(u, f)
           /\ \A r \in Roles : deleteRole(u, r)
                  => \E f \in Flows : Start(u, f) /\ FlowOK(u, f)
<1>1. ASSUME NEW g \in Orgs, NEW s \in BOOLEAN, deleteOrganization(u, g, s)
      PROVE  \E f \in Flows : Start(u, f) /\ FlowOK(u, f)
  <2> DEFINE txs == removalDue(RolesOf(g)) \o (removalDue(AppsOf(g)) \o removalDue(g))
             f == [NoFlow EXCEPT !.op = "deleteOrganization", !.node = g,
                                 !.stepwise = s, !.known = indexed, !.steps = txs]
  <2>1. Start(u, f) /\ mayDelete(u, orgNamespaces(g))
    BY <1>1 DEF deleteOrganization
  <2>2. getAppsOfOrg(g) = {} /\ rolesKnown(g) = {} /\ indexed \subseteq Nodes
    BY <1>1 DEF deleteOrganization, TypeOK
  <2>3. Removes(txs, orgNamespaces(g)) /\ g \in Nodes
    BY OrgRemovals, OrgFacts
  <2> HIDE DEF txs
  <2>4. /\ f \in Flows /\ f.op = "deleteOrganization" /\ f.to = Nobody /\ f.node = g
        /\ f.steps = txs /\ f.later = <<>> /\ f.apps = {} /\ f.known = indexed
    BY <2>2, <2>3, NoFlowFacts DEF Flows, Removes
  <2> HIDE DEF f
  <2>5. Gone(f) = orgNamespaces(g)
    BY <2>4 DEF Gone
  <2>6. \A i \in DOMAIN txs : owner[txs[i].node] = u
    BY <2>1, <2>3 DEF mayDelete, Removes
  <2>7. \A n \in orgNamespaces(g), m \in indexed \cap (Roles \cup Apps) :
            n \notin {Parent(m), Parent(Parent(m))}
    BY <2>2, BelowOrg DEF getAppsOfOrg, rolesKnown
  <2>8. RemovalOK(u, f)
    BY <2>1, <2>3, <2>4, <2>5, <2>6, <2>7 DEF RemovalOK, Removes
  <2>9. FlowOK(u, f)
    BY <2>4, <2>8 DEF FlowOK, CreationOK, TransferOK, OtherOK, Creations
  <2>10. QED
    BY <2>1, <2>4, <2>9
<1>2. ASSUME NEW a \in Apps, NEW s \in BOOLEAN, deleteApplication(u, a, s)
      PROVE  \E f \in Flows : Start(u, f) /\ FlowOK(u, f)
  <2> DEFINE txs == removalDue(RolesOf(a)) \o removalDue(a)
             f == [NoFlow EXCEPT !.op = "deleteApplication", !.node = a,
                                 !.stepwise = s, !.known = indexed, !.steps = txs]
  <2>1. Start(u, f) /\ mayDelete(u, {RolesOf(a), a})
    BY <1>2 DEF deleteApplication
  <2>2. rolesKnown(a) = {} /\ indexed \subseteq Nodes
    BY <1>2 DEF deleteApplication, TypeOK
  <2>3. Removes(txs, {RolesOf(a), a}) /\ a \in Nodes
    BY AppRemovals, AppFacts
  <2> HIDE DEF txs
  <2>4. /\ f \in Flows /\ f.op = "deleteApplication" /\ f.to = Nobody /\ f.node = a
        /\ f.steps = txs /\ f.later = <<>> /\ f.apps = {} /\ f.known = indexed
    BY <2>2, <2>3, NoFlowFacts DEF Flows, Removes
  <2> HIDE DEF f
  <2>5. Gone(f) = {RolesOf(a), a}
    BY <2>4 DEF Gone
  <2>6. \A i \in DOMAIN txs : owner[txs[i].node] = u
    BY <2>1, <2>3 DEF mayDelete, Removes
  <2>7. \A n \in {RolesOf(a), a}, m \in indexed \cap (Roles \cup Apps) :
            n \notin {Parent(m), Parent(Parent(m))}
    BY <2>2, BelowApp DEF rolesKnown
  <2>8. RemovalOK(u, f)
    BY <2>1, <2>3, <2>4, <2>5, <2>6, <2>7 DEF RemovalOK, Removes
  <2>9. FlowOK(u, f)
    BY <2>4, <2>8 DEF FlowOK, CreationOK, TransferOK, OtherOK, Creations
  <2>10. QED
    BY <2>1, <2>4, <2>9
<1>3. ASSUME NEW r \in Roles, deleteRole(u, r)
      PROVE  \E f \in Flows : Start(u, f) /\ FlowOK(u, f)
  <2> DEFINE tx == deleteDomainTx(r)
             f == [NoFlow EXCEPT !.op = "deleteRole", !.node = r, !.steps = <<tx>>]
  <2>1. Start(u, f)
    BY <1>3 DEF deleteRole
  <2>2. r \in Nodes /\ tx \in Txs /\ tx.do = "setRecord" /\ tx.node = r
    BY RoleFacts, TxTypes DEF deleteDomainTx, Tx
  <2> HIDE DEF tx
  <2>3. <<tx>> \in Seq(Txs) /\ DOMAIN <<tx>> = {1} /\ <<tx>>[1] = tx
    BY <2>2
  <2>4. /\ f \in Flows /\ f.op = "deleteRole" /\ f.node = r /\ f.steps = <<tx>>
        /\ f.later = <<>> /\ f.apps = {}
    BY <2>2, <2>3, NoFlowFacts DEF Flows
  <2> HIDE DEF f
  <2>5. FlowOK(u, f)
    BY <2>2, <2>3, <2>4 DEF FlowOK, CreationOK, RemovalOK, TransferOK, OtherOK, Creations
  <2>6. QED
    BY <2>1, <2>4, <2>5
<1>4. QED
  BY <1>1, <1>2, <1>3

LEMMA BeginDefinition ==
    ASSUME TypeOK, NEW u \in Users, NEW n \in Orgs \cup Apps \cup Roles, setRoleDefinition(u, n)
    PROVE  \E f \in Flows : Start(u, f) /\ FlowOK(u, f)
<1>1. n \in Nodes
  BY DEF Nodes
<1> DEFINE t1 == setResolverTx(n)
           t2 == newDomain(n)
           t3 == editDomain(n)
           txs == IF resolver[n] = "public" THEN <<t1, t2>> ELSE <<t3>>
           f == [NoFlow EXCEPT !.op = "setRoleDefinition", !.node = n, !.steps = txs]
<1>2. Start(u, f)
  BY DEF setRoleDefinition
<1>3. /\ t1 \in Txs /\ t2 \in Txs /\ t3 \in Txs
      /\ t1.do = "setResolver" /\ t2.do = "newDomain" /\ t3.do = "editDomain"
  BY <1>1, TxTypes DEF setResolverTx, newDomain, editDomain, Tx
<1> HIDE DEF t1, t2, t3
<1>4. txs \in Seq(Txs)
      /\ \A i \in DOMAIN txs : txs[i].do \in {"setResolver", "newDomain", "editDomain"}
  <2>1. /\ <<t1, t2>> \in Seq(Txs) /\ DOMAIN <<t1, t2>> = 1..2
        /\ <<t1, t2>>[1] = t1 /\ <<t1, t2>>[2] = t2
    BY <1>3
  <2>2. <<t3>> \in Seq(Txs) /\ DOMAIN <<t3>> = {1} /\ <<t3>>[1] = t3
    BY <1>3
  <2>3. \A i \in 1..2 : i = 1 \/ i = 2
    OBVIOUS
  <2>4. CASE resolver[n] = "public"
    BY <2>1, <2>3, <2>4, <1>3
  <2>5. CASE resolver[n] # "public"
    BY <2>2, <2>5, <1>3
  <2>6. QED
    BY <2>4, <2>5
<1> HIDE DEF txs
<1>5. /\ f \in Flows /\ f.op = "setRoleDefinition" /\ f.steps = txs
      /\ f.later = <<>> /\ f.apps = {}
  BY <1>1, <1>4, NoFlowFacts DEF Flows
<1> HIDE DEF f
<1>6. FlowOK(u, f)
  BY <1>4, <1>5 DEF FlowOK, CreationOK, RemovalOK, TransferOK, OtherOK, Creations
<1>7. QED
  BY <1>2, <1>5, <1>6

(* Every operation starts with steps that are in order.                    *)
LEMMA Begin ==
    ASSUME TypeOK, NEW u \in Users, Operation(u)
    PROVE  \E f \in Flows : Start(u, f) /\ FlowOK(u, f)
<1>1. CASE \E g \in Orgs, s \in BOOLEAN : createOrganization(u, g, s)
  BY <1>1, BeginCreateOrganization
<1>2. CASE \E a \in Apps, s \in BOOLEAN : createApplication(u, a, s)
  BY <1>2, BeginCreateApplication
<1>3. CASE \E r \in Roles, s \in BOOLEAN : createRole(u, r, s)
  BY <1>3, BeginCreateRole
<1>4. CASE \E g \in Orgs, v \in Users, s, w \in BOOLEAN : changeOrgOwnership(u, g, v, s, w)
  BY <1>4, BeginTransfers
<1>5. CASE \E a \in Apps, v \in Users, s \in BOOLEAN : changeAppOwnership(u, a, v, s)
  BY <1>5, BeginTransfers
<1>6. CASE \E r \in Roles, v \in Users : changeRoleOwnership(u, r, v)
  BY <1>6, BeginTransfers
<1>7. CASE \E g \in Orgs, s \in BOOLEAN : deleteOrganization(u, g, s)
  BY <1>7, BeginRemovals
<1>8. CASE \E a \in Apps, s \in BOOLEAN : deleteApplication(u, a, s)
  BY <1>8, BeginRemovals
<1>9. CASE \E r \in Roles : deleteRole(u, r)
  BY <1>9, BeginRemovals
<1>10. CASE \E n \in Orgs \cup Apps \cup Roles : setRoleDefinition(u, n)
  BY <1>10, BeginDefinition
<1>11. QED
  BY <1>1, <1>2, <1>3, <1>4, <1>5, <1>6, <1>7, <1>8, <1>9, <1>10 DEF Operation

----------------------------------------------------------------------------
(* Type correctness.                                                       *)

LEMMA TailFacts ==
    ASSUME NEW s \in Seq(Txs), s # <<>>
    PROVE  /\ Tail(s) \in Seq(Txs) /\ 1 \in DOMAIN s /\ Head(s) = s[1] /\ Head(s) \in Txs
           /\ \A i \in DOMAIN s : i \in Nat /\ s[i] \in Txs
           /\ \A i \in DOMAIN Tail(s) : i + 1 \in DOMAIN s /\ Tail(s)[i] = s[i + 1]
           /\ \A i \in DOMAIN s : i # 1 => i - 1 \in DOMAIN Tail(s) /\ Tail(s)[i - 1] = s[i]
<1>1. Len(s) \in Nat /\ Len(s) >= 1 /\ DOMAIN s = 1..Len(s)
  OBVIOUS
<1>2. Tail(s) \in Seq(Txs) /\ Len(Tail(s)) = Len(s) - 1 /\ DOMAIN Tail(s) = 1..(Len(s) - 1)
  OBVIOUS
<1>3. \A i \in 1..(Len(s) - 1) : Tail(s)[i] = s[i + 1]
  OBVIOUS
<1>4. ASSUME NEW i \in DOMAIN s, i # 1
      PROVE  i - 1 \in DOMAIN Tail(s) /\ Tail(s)[i - 1] = s[i]
  <2>1. i - 1 \in 1..(Len(s) - 1) /\ (i - 1) + 1 = i
    BY <1>1, <1>4
  <2>2. QED
    BY <2>1, <1>2, <1>3
<1>5. Head(s) = s[1] /\ s[1] \in Txs /\ 1 \in DOMAIN s
  BY <1>1
<1>6. QED
  BY <1>1, <1>2, <1>3, <1>4, <1>5

LEMMA TailOnce ==
    ASSUME NEW s \in Seq(Txs), s # <<>>, Once(s)
    PROVE  Once(Tail(s)) /\ \A i \in DOMAIN Tail(s) : Tail(s)[i].node # s[1].node
<1>1. \A i \in DOMAIN Tail(s) : /\ i \in Nat /\ i + 1 # 1
                                /\ i + 1 \in DOMAIN s /\ Tail(s)[i] = s[i + 1]
  <2>1. \A i \in DOMAIN Tail(s) : i \in Nat /\ i >= 1
    OBVIOUS
  <2>2. QED
    BY <2>1, TailFacts
<1>2. ASSUME NEW i \in DOMAIN Tail(s), NEW j \in DOMAIN Tail(s), Tail(s)[i].node = Tail(s)[j].node
      PROVE  i = j
  <2>1. i + 1 = j + 1
    BY <1>1, <1>2 DEF Once
  <2>2. QED
    BY <1>1, <2>1
<1>3. 1 \in DOMAIN s
  BY TailFacts
<1>4. QED
  BY <1>1, <1>2, <1>3 DEF Once

LEMMA MinedTypes ==
    ASSUME TypeOK, NEW tx \in Txs, Mined(tx)
    PROVE  /\ owner' \in [Nodes -> Users \cup {Nobody}]
           /\ resolver' \in [Nodes -> {"none", "public", "ens"}]
           /\ defined' \subseteq Nodes /\ named' \subseteq Legacy
<1>1. tx.node \in Nodes /\ tx.owner \in Users \cup {Nobody}
  BY DEF Txs
<1>2. owner' \in [Nodes -> Users \cup {Nobody}]
  BY <1>1 DEF Mined, TypeOK
<1>3. resolver' \in [Nodes -> {"none", "public", "ens"}]
  BY <1>1 DEF Mined, TypeOK
<1>4. defined' \subseteq Nodes /\ named' \subseteq Legacy
  BY <1>1 DEF Mined, TypeOK
<1>5. QED
  BY <1>2, <1>3, <1>4

LEMMA ProgressTypes ==
    ASSUME TypeOK, NEW u \in Users, Progress(u)
    PROVE  TypeOK'
<1> DEFINE f == flow[u]
<1>1. f \in Flows /\ f.steps \in Seq(Txs) /\ f.later \in Seq(Txs)
      /\ f.apps \subseteq Apps /\ f.to \in Users \cup {Nobody}
  BY DEF TypeOK, Flows
<1>2. ASSUME f.steps # <<>> PROVE step(u) \in Txs /\ Advanced(u) \in Flows
  <2>1. Head(f.steps) \in Txs /\ Tail(f.steps) \in Seq(Txs)
    BY <1>1, <1>2, TailFacts
  <2>2. QED
    BY <2>1, <1>1 DEF step, Advanced, Flows
<1>3. NoFlow \in Flows
  BY NoFlowFacts
<1>4. ASSUME NEW g \in Flows, Go(u, g), UNCHANGED <<registry, indexed>> PROVE TypeOK'
  BY <1>4 DEF TypeOK, Go, registry
<1>5. ASSUME NEW g \in Flows, Go(u, g), Running(u), Mined(step(u)), UNCHANGED indexed
      PROVE  TypeOK'
  <2>1. step(u) \in Txs
    BY <1>2, <1>5 DEF Running
  <2>2. QED
    BY <2>1, <1>5, MinedTypes DEF TypeOK, Go
<1>6. CASE Confirmed(u)
  BY <1>6, <1>2, <1>5 DEF Confirmed, Running
<1>7. CASE Unanswered(u)
  <2>1. [flow[u] EXCEPT !.begun = TRUE] \in Flows
    BY <1>1 DEF Flows
  <2>2. QED
    BY <2>1, <1>7, <1>3, <1>5 DEF Unanswered
<1>8. CASE Revert(u)
  BY <1>8, <1>3, <1>4 DEF Revert
<1>9. CASE Skip(u)
  BY <1>9, <1>2, <1>4 DEF Skip, Running
<1>10. CASE NextApp(u)
  <2>1. PICK a \in f.apps :
            IF mayChange(u, appNamespaces(a), f.to)
            THEN \E txs \in appTransfers(a, f.to) :
                     Go(u, [f EXCEPT !.apps = @ \ {a}, !.steps = txs])
            ELSE Go(u, NoFlow)
    BY <1>10 DEF NextApp
  <2>2. CASE mayChange(u, appNamespaces(a), f.to)
    <3>1. PICK txs \in appTransfers(a, f.to) :
              Go(u, [f EXCEPT !.apps = @ \ {a}, !.steps = txs])
      BY <2>1, <2>2
    <3>2. txs \in Seq(Txs)
      BY <1>1, AppTransfers DEF Due, Transfers
    <3>3. [f EXCEPT !.apps = @ \ {a}, !.steps = txs] \in Flows
      BY <3>2, <1>1 DEF Flows
    <3>4. QED
      BY <3>1, <3>3, <1>4, <1>10 DEF NextApp
  <2>3. CASE ~mayChange(u, appNamespaces(a), f.to)
    BY <2>1, <2>3, <1>3, <1>4, <1>10 DEF NextApp
  <2>4. QED
    BY <2>2, <2>3
<1>11. CASE OwnSteps(u)
  <2>0. <<>> \in Seq(Txs)
    OBVIOUS
  <2>1. [flow[u] EXCEPT !.steps = flow[u].later, !.later = <<>>] \in Flows
    BY <1>1, <2>0 DEF Flows
  <2>2. QED
    BY <2>1, <1>4, <1>11 DEF OwnSteps
<1>12. QED
  BY <1>6, <1>7, <1>8, <1>9, <1>10, <1>11 DEF Progress

LEMMA TypeStep ==
    ASSUME TypeOK, [Next]_vars
    PROVE  TypeOK'
<1>1. CASE Reindex
  BY <1>1 DEF Reindex, TypeOK, registry, Registered
<1>2. ASSUME NEW u \in Users, Operation(u) PROVE TypeOK'
  <2>1. PICK f \in Flows : Start(u, f)
    BY <1>2, Begin
  <2>2. QED
    BY <2>1 DEF Start, TypeOK, registry
<1>3. ASSUME NEW u \in Users, Progress(u) PROVE TypeOK'
  BY <1>3, ProgressTypes
<1>4. ASSUME NEW u \in Users, Stop(u) PROVE TypeOK'
  BY <1>4, NoFlowFacts DEF Stop, Go, TypeOK, registry
<1>5. CASE UNCHANGED vars
  BY <1>5 DEF vars, registry, TypeOK
<1>6. QED
  BY <1>1, <1>2, <1>3, <1>4, <1>5 DEF Next

LEMMA InitTypes == Init => TypeOK
<1> SUFFICES ASSUME Init PROVE TypeOK
  OBVIOUS
<1>1. Orgs \subseteq Nodes /\ Roles \subseteq Nodes /\ Root \in Nodes
  BY DEF Nodes
<1>2. RootOwner \in Users \cup {Nobody} /\ NoFlow \in Flows
  BY UsersAssumption, NoFlowFacts
<1>3. owner \in [Nodes -> Users \cup {Nobody}]
  BY <1>2 DEF Init
<1>4. resolver \in [Nodes -> {"none", "public", "ens"}]
  BY DEF Init
<1>5. defined \subseteq Nodes /\ named \subseteq Legacy /\ indexed \subseteq Nodes
  BY <1>1, LegacyAssumption DEF Init
<1>6. flow \in [Users -> Flows]
  BY <1>2 DEF Init
<1>7. QED
  BY <1>3, <1>4, <1>5, <1>6 DEF TypeOK

(* The registry, the index and every operation under way stay well-formed, *)
(* however many users there are and however their operations interleave.   *)
THEOREM TypeCorrect == Spec => []TypeOK
<1>1. TypeOK /\ [Next]_vars => TypeOK'
  BY TypeStep
<1>2. QED
  BY <1>1, InitTypes, PTL DEF Spec

----------------------------------------------------------------------------
(* Operations that do not overlap.                                         *)

Solo == \A v, w \in Users : v # w => flow[v] = NoFlow \/ flow[w] = NoFlow

SerialInv == Solo /\ \A u \in Users : FlowOK(u, flow[u])

LEMMA IdleOK ==
    ASSUME NEW u \in Users
    PROVE  FlowOK(u, NoFlow) /\ FlowOK(u, NoFlow)'
  BY NoFlowFacts DEF FlowOK, CreationOK, RemovalOK, TransferOK, OtherOK, Creations

(* What one user does leaves the others idle.                              *)
LEMMA StaysSolo ==
    ASSUME TypeOK, Solo, NEW u \in Users, NEW g, flow' = [flow EXCEPT ![u] = g],
           flow[u] # NoFlow \/ \A v \in Users : flow[v] = NoFlow,
           FlowOK(u, g)'
    PROVE  SerialInv'
<1>1. \A v \in Users : v # u => flow[v] = NoFlow
  BY DEF Solo
<1>2. flow'[u] = g /\ \A v \in Users : v # u => flow'[v] = NoFlow
  BY <1>1 DEF TypeOK
<1>3. Solo'
  BY <1>2 DEF Solo
<1>4. ASSUME NEW v \in Users PROVE FlowOK(v, flow[v])'
  <2>1. CASE v = u
    BY <2>1, <1>2
  <2>2. CASE v # u
    BY <2>2, <1>2, IdleOK
  <2>3. QED
    BY <2>1, <2>2
<1>5. QED
  BY <1>3, <1>4 DEF SerialInv

LEMMA SameRegistered ==
    ASSUME UNCHANGED registry
    PROVE  Registered' = Registered
  BY DEF Registered, registry

LEMMA FrameOK ==
    ASSUME NEW u \in Users, NEW f \in Flows, FlowOK(u, f), UNCHANGED <<registry, indexed>>
    PROVE  FlowOK(u, f)'
<1>1. owner' = owner /\ indexed' = indexed /\ Registered' = Registered
  BY SameRegistered DEF registry
<1>2. CreationOK(u, f)'
  BY <1>1 DEF FlowOK, CreationOK, Granted
<1>3. RemovalOK(u, f)'
  BY <1>1 DEF FlowOK, RemovalOK, mayDelete
<1>4. TransferOK(u, f)'
  BY <1>1 DEF FlowOK, TransferOK, mayChange, Covers, appNamespaces, rolesKnown
<1>5. QED
  BY <1>2, <1>3, <1>4 DEF FlowOK

(* `g` is `f` after its first step, which is still before the caller if he *)
(* got no answer.                                                          *)
After(f, g) ==
    /\ g.op = f.op /\ g.node = f.node /\ g.to = f.to /\ g.stepwise = f.stepwise
    /\ g.begun = TRUE /\ g.apps = f.apps /\ g.known = f.known /\ g.later = f.later
    /\ \/ g.steps = Tail(f.steps)
       \/ f.stepwise /\ g.steps = f.steps

LEMMA CreationKept ==
    ASSUME TypeOK, NEW u \in Users, NEW f \in Flows, NEW g, f.steps # <<>>, After(f, g),
           owner[Site(f.steps[1])] = u, Mined(f.steps[1]), CreationOK(u, f)
    PROVE  CreationOK(u, g)'
<1> SUFFICES ASSUME f.op \in Creations
             PROVE  /\ \A i \in DOMAIN g.steps :
                           /\ g.steps[i].do \in {"setSubnodeRecord", "newDomain", "setName"}
                           /\ g.steps[i].do = "setSubnodeRecord" => g.steps[i].owner = g.to
                           /\ Site(g.steps[i]) \in Nodes
                    /\ g.to = u /\ \A i \in DOMAIN g.steps : Granted(u, g.steps, i)'
  BY DEF CreationOK, After
<1> DEFINE s == f.steps
           tx == s[1]
<1>1. s \in Seq(Txs)
  BY DEF Flows
<1>2. /\ \A i \in DOMAIN s :
             /\ s[i].do \in {"setSubnodeRecord", "newDomain", "setName"}
             /\ s[i].do = "setSubnodeRecord" => s[i].owner = f.to
             /\ Site(s[i]) \in Nodes
      /\ f.to = u /\ \A i \in DOMAIN s : Granted(u, s, i)
  BY DEF CreationOK
<1>3. tx \in Txs /\ tx.node \in Nodes /\ 1 \in DOMAIN s
  BY <1>1, TailFacts DEF Txs
<1>4. /\ \A n \in Nodes : owner[n] = u => owner'[n] = u
      /\ tx.do = "setSubnodeRecord" => owner'[tx.node] = u
  BY <1>2, <1>3 DEF Mined, TypeOK
<1>5. CASE g.steps = s
  <2>1. ASSUME NEW i \in DOMAIN s PROVE Granted(u, s, i)'
    BY <2>1, <1>2, <1>4 DEF Granted
  <2>2. QED
    BY <1>2, <1>5, <2>1 DEF After
<1>6. CASE g.steps = Tail(s)
  <2>1. ASSUME NEW i \in DOMAIN Tail(s) PROVE Granted(u, Tail(s), i)'
    <3>1. i + 1 \in DOMAIN s /\ Tail(s)[i] = s[i + 1] /\ i \in Nat
      BY <1>1, TailFacts
    <3>2. CASE owner[Site(s[i + 1])] = u
      BY <3>1, <3>2, <1>2, <1>4 DEF Granted
    <3>3. CASE \E j \in DOMAIN s : /\ j < i + 1
                                   /\ s[j].do = "setSubnodeRecord" /\ s[j].owner = u
                                   /\ s[j].node = Site(s[i + 1])
      <4>1. PICK j \in DOMAIN s : /\ j < i + 1
                                  /\ s[j].do = "setSubnodeRecord" /\ s[j].owner = u
                                  /\ s[j].node = Site(s[i + 1])
        BY <3>3
      <4>2. CASE j = 1
        BY <4>1, <4>2, <3>1, <1>4 DEF Granted
      <4>3. CASE j # 1
        <5>1. j - 1 \in DOMAIN Tail(s) /\ Tail(s)[j - 1] = s[j] /\ j \in Nat
          BY <4>3, <1>1, TailFacts
        <5>2. j - 1 < i
          BY <4>1, <5>1, <3>1
        <5>3. QED
          BY <4>1, <5>1, <5>2, <3>1 DEF Granted
      <4>4. QED
        BY <4>2, <4>3
    <3>4. QED
      BY <3>1, <3>2, <3>3, <1>2 DEF Granted
  <2>2. \A i \in DOMAIN Tail(s) : i + 1 \in DOMAIN s /\ Tail(s)[i] = s[i + 1]
    BY <1>1, TailFacts
  <2>3. QED
    BY <1>2, <1>6, <2>1, <2>2 DEF After
<1>7. QED
  BY <1>5, <1>6 DEF After

LEMMA RemovalKept ==
    ASSUME TypeOK, NEW u \in Users, NEW f \in Flows, NEW g, f.steps # <<>>, After(f, g),
           owner[Site(f.steps[1])] = u, Mined(f.steps[1]), RemovalOK(u, f)
    PROVE  RemovalOK(u, g)'
<1> SUFFICES ASSUME f.op \in {"deleteOrganization", "deleteApplication"}
             PROVE  RemovalOK(u, g)'
  BY DEF RemovalOK, After
<1> DEFINE s == f.steps
           tx == s[1]
<1>1. s \in Seq(Txs)
  BY DEF Flows
<1>2. /\ f.node \in IF f.op = "deleteApplication" THEN Apps ELSE Orgs
      /\ f.to = Nobody /\ mayDelete(u, Gone(f))
      /\ \A i \in DOMAIN s :
             /\ s[i].do = "setRecord" /\ s[i].owner = Nobody /\ s[i].node \in Gone(f)
             /\ \/ owner[s[i].node] = u
                \/ f.stepwise /\ i = 1 /\ owner[s[i].node] = Nobody
      /\ Once(s)
      /\ \A n \in Gone(f), m \in f.known \cap (Roles \cup Apps) :
             n \notin {Parent(m), Parent(Parent(m))}
  BY DEF RemovalOK
<1>3. tx \in Txs /\ tx.node \in Nodes /\ 1 \in DOMAIN s /\ tx.owner = Nobody
      /\ tx.do = "setRecord"
  BY <1>1, <1>2, TailFacts DEF Txs
<1>4. /\ owner' = [owner EXCEPT ![tx.node] = Nobody]
      /\ resolver' = [resolver EXCEPT ![tx.node] = "none"]
      /\ defined' = defined
  BY <1>3 DEF Mined
<1>5. \A i \in DOMAIN s : s[i].node \in Nodes
  BY <1>1, TailFacts DEF Txs
<1>6. \A n \in Nodes : owner'[n] = IF n = tx.node THEN Nobody ELSE owner[n]
  BY <1>3, <1>4 DEF TypeOK
<1>7. Registered' \subseteq Registered
  BY <1>3, <1>4, <1>6 DEF Registered, TypeOK
<1>8. Gone(f) \subseteq Nodes
  BY <1>2, RolesOfFacts, AppsOfFacts, OrgFacts, AppFacts DEF Gone, orgNamespaces
<1>9. mayDelete(u, Gone(f))'
  BY <1>2, <1>6, <1>8 DEF mayDelete
<1>10. Gone(g) = Gone(f)
  BY DEF Gone, After
<1>11. \A i \in DOMAIN s : i # 1 => owner'[s[i].node] = u
  BY <1>2, <1>3, <1>5, <1>6 DEF Once
<1>12. owner'[tx.node] = Nobody
  BY <1>3, <1>6
<1>13. /\ \A i \in DOMAIN g.steps :
              /\ g.steps[i].do = "setRecord" /\ g.steps[i].owner = Nobody
              /\ g.steps[i].node \in Gone(f)
              /\ \/ owner'[g.steps[i].node] = u
                 \/ g.stepwise /\ i = 1 /\ owner'[g.steps[i].node] = Nobody
       /\ Once(g.steps)
  <2>1. CASE f.stepwise /\ g.steps = s
    BY <2>1, <1>2, <1>11, <1>12 DEF After
  <2>2. CASE g.steps = Tail(s)
    <3>1. \A i \in DOMAIN Tail(s) : /\ i + 1 \in DOMAIN s /\ Tail(s)[i] = s[i + 1]
                                    /\ i \in Nat /\ i + 1 # 1
      <4>1. \A i \in DOMAIN Tail(s) : i \in Nat /\ i >= 1
        BY <1>1
      <4>2. QED
        BY <4>1, <1>1, TailFacts
    <3>2. ASSUME NEW i \in DOMAIN Tail(s)
          PROVE  /\ Tail(s)[i].do = "setRecord" /\ Tail(s)[i].owner = Nobody
                 /\ Tail(s)[i].node \in Gone(f) /\ owner'[Tail(s)[i].node] = u
      BY <3>1, <1>2, <1>11
    <3>3. Once(Tail(s))
      BY <1>1, <1>2, TailOnce
    <3>4. QED
      BY <2>2, <3>2, <3>3
  <2>3. QED
    BY <2>1, <2>2 DEF After
<1>14. QED
  BY <1>2, <1>7, <1>9, <1>10, <1>13 DEF RemovalOK, After

LEMMA TailOK ==
    ASSUME NEW s, NEW N, NEW w, s # <<>>, Transfers(s, N, w)
    PROVE  Transfers(Tail(s), N, w)
  BY TailFacts DEF Transfers

(* A step of a transfer registers nothing and removes nothing.             *)
LEMMA TransferMined ==
    ASSUME TypeOK, NEW u \in Users, NEW f \in Flows, f.steps # <<>>,
           f.op \in {"changeAppOwnership", "changeOrgOwnership", "changeRoleOwnership"},
           owner[Site(f.steps[1])] = u, Mined(f.steps[1]), TransferOK(u, f)
    PROVE  /\ f.steps[1].node \in Nodes /\ owner[f.steps[1].node] = u
           /\ \A n \in Nodes : owner'[n] = IF n = f.steps[1].node THEN f.to ELSE owner[n]
           /\ Registered' = Registered
<1> DEFINE tx == f.steps[1]
<1>1. f.steps \in Seq(Txs) /\ f.to \in Users /\ Transfers(f.steps, Nodes, f.to)
  BY DEF Flows, TransferOK
<1>2. tx.node \in Nodes /\ tx.owner = f.to /\ tx.do = "setOwner"
  BY <1>1, TailFacts DEF Transfers
<1>3. owner[tx.node] = u
  BY <1>2 DEF Site
<1>4. owner' = [owner EXCEPT ![tx.node] = f.to] /\ resolver' = resolver /\ defined' = defined
  BY <1>2 DEF Mined
<1>5. \A n \in Nodes : owner'[n] = IF n = tx.node THEN f.to ELSE owner[n]
  BY <1>2, <1>4 DEF TypeOK
<1>6. Registered' = Registered
  BY <1>1, <1>2, <1>3, <1>4, <1>5, UsersAssumption DEF Registered
<1>7. QED
  BY <1>2, <1>3, <1>5, <1>6

LEMMA TransferKept ==
    ASSUME TypeOK, NEW u \in Users, NEW f \in Flows, NEW g, f.steps # <<>>, After(f, g),
           owner[Site(f.steps[1])] = u, Mined(f.steps[1]), UNCHANGED indexed, TransferOK(u, f)
    PROVE  TransferOK(u, g)'
<1> SUFFICES ASSUME f.op \in {"changeAppOwnership", "changeOrgOwnership", "changeRoleOwnership"}
             PROVE  TransferOK(u, g)'
  BY DEF TransferOK, After
<1> DEFINE s == f.steps
           tx == s[1]
<1>1. s \in Seq(Txs)
  BY DEF Flows
<1>2. /\ f.to \in Users /\ Transfers(s, Nodes, f.to) /\ Transfers(f.later, Nodes, f.to)
  BY DEF TransferOK
<1>3. tx.node \in Nodes
  BY TransferMined
<1>4. \A n \in Nodes : owner'[n] = IF n = tx.node THEN f.to ELSE owner[n]
  BY TransferMined
<1>5. Registered' = Registered
  BY TransferMined
<1>6. ASSUME NEW N \in SUBSET Nodes, mayChange(u, N, f.to) PROVE mayChange(u, N, f.to)'
  BY <1>4, <1>6 DEF mayChange
<1>7. Transfers(g.steps, Nodes, g.to) /\ Transfers(g.later, Nodes, g.to) /\ g.to \in Users
  BY <1>2, TailOK DEF After
<1>8. f.op = "changeOrgOwnership" =>
           g.node \in Orgs /\ mayChange(u, orgNamespaces(g.node), g.to)'
  <2> SUFFICES ASSUME f.op = "changeOrgOwnership"
               PROVE  g.node \in Orgs /\ mayChange(u, orgNamespaces(g.node), g.to)'
    OBVIOUS
  <2>1. f.node \in Orgs /\ mayChange(u, orgNamespaces(f.node), f.to)
    BY DEF TransferOK
  <2>2. orgNamespaces(f.node) \in SUBSET Nodes
    BY <2>1, RolesOfFacts, AppsOfFacts, OrgFacts DEF orgNamespaces
  <2>3. QED
    BY <2>1, <2>2, <1>6 DEF After
<1>9. f.op = "changeAppOwnership" =>
           /\ g.node \in Apps
           /\ ~Lag => /\ indexed' = Registered'
                      /\ Covers(g.steps, appNamespaces(g.node), g.to)'
                      /\ mayChange(u, appNamespaces(g.node), g.to)'
  <2> SUFFICES ASSUME f.op = "changeAppOwnership"
               PROVE  /\ f.node \in Apps
                      /\ ~Lag => /\ indexed' = Registered'
                                 /\ Covers(g.steps, appNamespaces(f.node), f.to)'
                                 /\ mayChange(u, appNamespaces(f.node), f.to)'
    BY DEF After
  <2>1. f.node \in Apps
    BY DEF TransferOK
  <2> SUFFICES ASSUME ~Lag
               PROVE  /\ indexed' = Registered'
                      /\ Covers(g.steps, appNamespaces(f.node), f.to)'
                      /\ mayChange(u, appNamespaces(f.node), f.to)'
    BY <2>1
  <2> DEFINE N == appNamespaces(f.node)
  <2>2. indexed = Registered /\ Covers(s, N, f.to) /\ mayChange(u, N, f.to)
    BY DEF TransferOK
  <2>3. N \in SUBSET Nodes
    BY <2>1, RoleFacts, RolesOfFacts, AppFacts DEF appNamespaces, rolesKnown
  <2>4. N' = N
    BY DEF appNamespaces, rolesKnown
  <2> HIDE DEF N
  <2>5. ASSUME NEW n \in N, owner'[n] # f.to PROVE \E i \in DOMAIN g.steps : g.steps[i].node = n
    <3>1. n # tx.node /\ owner[n] # f.to
      BY <2>3, <2>5, <1>4
    <3>2. PICK i \in DOMAIN s : s[i].node = n
      BY <2>2, <3>1 DEF Covers
    <3>3. i - 1 \in DOMAIN Tail(s) /\ Tail(s)[i - 1] = s[i]
      BY <1>1, <3>1, <3>2, TailFacts
    <3>4. QED
      BY <3>2, <3>3 DEF After
  <2>6. Covers(g.steps, N, f.to)'
    BY <2>4, <2>5 DEF Covers
  <2>7. mayChange(u, N, f.to)'
    BY <2>2, <2>3, <2>4, <1>6 DEF mayChange
  <2>8. QED
    BY <2>2, <2>6, <2>7, <1>5 DEF N
<1>10. QED
  BY <1>7, <1>8, <1>9 DEF TransferOK, After

LEMMA OtherKept ==
    ASSUME NEW f \in Flows, NEW g, f.steps # <<>>, After(f, g), OtherOK(f)
    PROVE  OtherOK(g)
<1>1. f.steps \in Seq(Txs)
  BY DEF Flows
<1>2. \A i \in DOMAIN g.steps : \E j \in DOMAIN f.steps : g.steps[i] = f.steps[j]
  <2>1. CASE g.steps = f.steps
    BY <2>1
  <2>2. CASE g.steps = Tail(f.steps)
    BY <2>2, <1>1, TailFacts
  <2>3. QED
    BY <2>1, <2>2 DEF After
<1>3. f.op # "none"
  BY DEF OtherOK
<1>4. QED
  BY <1>2, <1>3 DEF OtherOK, After

(* A transaction that is mined.                                            *)
LEMMA MinedKeeps ==
    ASSUME TypeOK, NEW u \in Users, NEW g, Running(u), Authorised(u, step(u)), Mined(step(u)),
           UNCHANGED indexed, After(flow[u], g), FlowOK(u, flow[u])
    PROVE  FlowOK(u, g)'
<1>1. PICK f \in Flows : f = flow[u]
  BY DEF TypeOK
<1>2. f.steps # <<>> /\ step(u) = f.steps[1]
  BY <1>1, TailFacts DEF Running, step, Flows
<1>3. owner[Site(f.steps[1])] = u /\ Mined(f.steps[1])
  BY <1>2 DEF Authorised, Site
<1>4. CreationOK(u, f) /\ RemovalOK(u, f) /\ TransferOK(u, f) /\ OtherOK(f) /\ After(f, g)
  BY <1>1 DEF FlowOK
<1>5. CreationOK(u, g)'
  BY <1>2, <1>3, <1>4, CreationKept
<1>6. RemovalOK(u, g)'
  BY <1>2, <1>3, <1>4, RemovalKept
<1>7. TransferOK(u, g)'
  BY <1>2, <1>3, <1>4, TransferKept
<1>8. OtherOK(g)'
  BY <1>2, <1>4, OtherKept DEF OtherOK
<1>9. QED
  BY <1>5, <1>6, <1>7, <1>8 DEF FlowOK

(* A step that is found done leaves nothing out.                           *)
LEMMA SkipCovers ==
    ASSUME NEW s \in Seq(Txs), s # <<>>, NEW N, NEW w, owner[s[1].node] = w, Covers(s, N, w)
    PROVE  Covers(Tail(s), N, w)
<1> SUFFICES ASSUME NEW n \in N, owner[n] # w
             PROVE  \E i \in DOMAIN Tail(s) : Tail(s)[i].node = n
  BY DEF Covers
<1>1. PICK i \in DOMAIN s : s[i].node = n
  BY DEF Covers
<1>2. i - 1 \in DOMAIN Tail(s) /\ Tail(s)[i - 1] = s[i]
  BY <1>1, TailFacts
<1>3. QED
  BY <1>1, <1>2

(* A step that is found done.                                              *)
LEMMA SkipKeeps ==
    ASSUME TypeOK, NEW u \in Users, NEW f \in Flows, NEW g \in Flows, f.steps # <<>>, After(f, g),
           g.steps = Tail(f.steps), f.op \notin Creations, owner[f.steps[1].node] = f.to,
           FlowOK(u, f)
    PROVE  FlowOK(u, g)
<1> DEFINE s == f.steps
<1>1. s \in Seq(Txs)
  BY DEF Flows
<1>2. \A i \in DOMAIN Tail(s) : /\ i + 1 \in DOMAIN s /\ Tail(s)[i] = s[i + 1]
                                /\ i \in Nat /\ i + 1 # 1
  <2>1. \A i \in DOMAIN Tail(s) : i \in Nat /\ i >= 1
    BY <1>1
  <2>2. QED
    BY <2>1, <1>1, TailFacts
<1>3. CreationOK(u, g)
  BY DEF CreationOK, After
<1>4. RemovalOK(u, g)
  <2> SUFFICES ASSUME f.op \in {"deleteOrganization", "deleteApplication"} PROVE RemovalOK(u, g)
    BY DEF RemovalOK, After
  <2>1. Gone(g) = Gone(f)
    BY DEF Gone, After
  <2>2. Once(Tail(s))
    BY <1>1, TailOnce DEF FlowOK, RemovalOK
  <2>3. ASSUME NEW i \in DOMAIN Tail(s)
        PROVE  /\ Tail(s)[i].do = "setRecord" /\ Tail(s)[i].owner = Nobody
               /\ Tail(s)[i].node \in Gone(f) /\ owner[Tail(s)[i].node] = u
    BY <1>2 DEF FlowOK, RemovalOK
  <2>4. QED
    BY <2>1, <2>2, <2>3 DEF FlowOK, RemovalOK, After
<1>5. TransferOK(u, g)
  <2> SUFFICES ASSUME f.op \in {"changeAppOwnership", "changeOrgOwnership", "changeRoleOwnership"}
               PROVE  TransferOK(u, g)
    BY DEF TransferOK, After
  <2>1. Transfers(s, Nodes, f.to) /\ Transfers(Tail(s), Nodes, f.to)
    BY TailOK DEF FlowOK, TransferOK
  <2>2. ASSUME NEW N, Covers(s, N, f.to) PROVE Covers(Tail(s), N, f.to)
    BY <1>1, <2>2, SkipCovers
  <2>3. QED
    BY <2>1, <2>2 DEF FlowOK, TransferOK, After
<1>6. OtherOK(g)
  BY OtherKept DEF FlowOK
<1>7. QED
  BY <1>3, <1>4, <1>5, <1>6 DEF FlowOK

LEMMA SerialProgress ==
    ASSUME TypeOK, SerialInv, NEW u \in Users, Progress(u)
    PROVE  SerialInv'
<1>1. PICK f \in Flows : f = flow[u]
  BY DEF TypeOK
<1>2. FlowOK(u, f) /\ Solo
  BY <1>1 DEF SerialInv
<1>3. f.steps \in Seq(Txs) /\ f.later \in Seq(Txs) /\ f.apps \subseteq Apps
      /\ f.to \in Users \cup {Nobody}
  BY DEF Flows
<1>4. ASSUME NEW g, Go(u, g), FlowOK(u, g)', f # NoFlow PROVE SerialInv'
  BY <1>1, <1>2, <1>4, StaysSolo DEF Go
<1>5. f.steps # <<>> \/ f.apps # {} \/ f.later # <<>> => f # NoFlow
  BY NoFlowFacts
<1>6. ASSUME Go(u, NoFlow), f # NoFlow PROVE SerialInv'
  BY <1>4, <1>6, IdleOK
<1>7. ASSUME f.steps # <<>>
      PROVE  \E g \in Flows : g = Advanced(u) /\ After(f, g) /\ g.steps = Tail(f.steps)
  <2>1. Tail(f.steps) \in Seq(Txs)
    BY <1>3, <1>7, TailFacts
  <2> DEFINE g == [f EXCEPT !.steps = Tail(@), !.begun = TRUE]
  <2>2. g \in Flows /\ g = Advanced(u)
    BY <1>1, <1>3, <2>1 DEF Advanced, Flows
  <2>3. After(f, g) /\ g.steps = Tail(f.steps)
    BY DEF After, Flows
  <2>4. QED
    BY <2>2, <2>3
<1>8. CASE Confirmed(u)
  <2>1. PICK g \in Flows : g = Advanced(u) /\ After(f, g)
    BY <1>1, <1>7, <1>8 DEF Confirmed, Running
  <2>2. FlowOK(u, g)'
    BY <1>1, <1>2, <1>8, <2>1, MinedKeeps DEF Confirmed
  <2>3. QED
    BY <1>1, <1>4, <1>5, <1>8, <2>1, <2>2 DEF Confirmed, Running
<1>9. CASE Unanswered(u)
  <2>1. CASE f.stepwise
    <3> DEFINE g == [f EXCEPT !.begun = TRUE]
    <3>1. After(f, g) /\ Go(u, g)
      BY <1>1, <1>9, <2>1 DEF After, Flows, Unanswered
    <3> HIDE DEF g
    <3>2. FlowOK(u, g)'
      BY <1>1, <1>2, <1>9, <3>1, MinedKeeps DEF Unanswered
    <3>3. QED
      BY <1>1, <1>4, <1>5, <1>9, <3>1, <3>2 DEF Unanswered, Running
  <2>2. CASE ~f.stepwise
    BY <1>1, <1>5, <1>6, <1>9, <2>2 DEF Unanswered, Running
  <2>3. QED
    BY <2>1, <2>2
<1>10. CASE Revert(u)
  BY <1>1, <1>5, <1>6, <1>10 DEF Revert, Running
<1>11. CASE Skip(u)
  <2>1. PICK g \in Flows : g = Advanced(u) /\ After(f, g) /\ g.steps = Tail(f.steps)
    BY <1>1, <1>7, <1>11 DEF Skip, Running
  <2>2. f.steps # <<>> /\ f.op \notin Creations /\ owner[f.steps[1].node] = f.to
    BY <1>1, <1>3, <1>11, TailFacts DEF Skip, Running, step
  <2>3. FlowOK(u, g)
    BY <1>2, <2>1, <2>2, SkipKeeps
  <2>4. FlowOK(u, g)'
    BY <1>11, <2>3, FrameOK DEF Skip
  <2>5. QED
    BY <1>4, <1>5, <1>11, <2>1, <2>2, <2>4 DEF Skip
<1>12. CASE NextApp(u)
  <2>1. PICK a \in f.apps :
            IF mayChange(u, appNamespaces(a), f.to)
            THEN \E txs \in appTransfers(a, f.to) :
                     Go(u, [f EXCEPT !.apps = @ \ {a}, !.steps = txs])
            ELSE Go(u, NoFlow)
    BY <1>1, <1>12 DEF NextApp
  <2>2. f # NoFlow /\ f.op = "changeOrgOwnership"
    BY <1>2, <1>5, <2>1 DEF FlowOK, OtherOK
  <2>3. CASE mayChange(u, appNamespaces(a), f.to)
    <3>1. PICK txs \in appTransfers(a, f.to) :
              Go(u, [f EXCEPT !.apps = @ \ {a}, !.steps = txs])
      BY <2>1, <2>3
    <3>2. a \in Apps /\ Transfers(txs, appNamespaces(a), f.to)
      BY <1>3, AppTransfers DEF Due
    <3>3. appNamespaces(a) \subseteq Nodes
      BY <3>2, RoleFacts, RolesOfFacts, AppFacts DEF appNamespaces, rolesKnown
    <3>4. txs \in Seq(Txs) /\ Transfers(txs, Nodes, f.to)
      BY <3>2, <3>3 DEF Transfers
    <3>5. PICK g \in Flows : /\ g = [f EXCEPT !.apps = @ \ {a}, !.steps = txs]
                             /\ g.op = f.op /\ g.node = f.node /\ g.to = f.to
                             /\ g.later = f.later /\ g.steps = txs
      <4> DEFINE h == [f EXCEPT !.apps = @ \ {a}, !.steps = txs]
      <4>1. h \in Flows /\ h.op = f.op /\ h.node = f.node /\ h.to = f.to
            /\ h.later = f.later /\ h.steps = txs
        BY <1>3, <3>4 DEF Flows
      <4>2. QED
        BY <4>1
    <3>6. FlowOK(u, g)
      BY <1>2, <2>2, <3>4, <3>5
         DEF FlowOK, CreationOK, RemovalOK, TransferOK, OtherOK, Creations
    <3>7. FlowOK(u, g)'
      BY <1>12, <3>6, FrameOK DEF NextApp
    <3>8. QED
      BY <1>4, <2>2, <3>1, <3>5, <3>7
  <2>4. CASE ~mayChange(u, appNamespaces(a), f.to)
    BY <1>6, <2>1, <2>2, <2>4
  <2>5. QED
    BY <2>3, <2>4
<1>13. CASE OwnSteps(u)
  <2>1. f.later # <<>> /\ f # NoFlow /\ f.op = "changeOrgOwnership"
    BY <1>1, <1>2, <1>5, <1>13 DEF OwnSteps, FlowOK, OtherOK
  <2>2. PICK g \in Flows : /\ g = [f EXCEPT !.steps = f.later, !.later = <<>>]
                           /\ g.op = f.op /\ g.node = f.node /\ g.to = f.to
                           /\ g.later = <<>> /\ g.steps = f.later
    <3> DEFINE h == [f EXCEPT !.steps = f.later, !.later = <<>>]
    <3>0. <<>> \in Seq(Txs)
      OBVIOUS
    <3>1. h \in Flows /\ h.op = f.op /\ h.node = f.node /\ h.to = f.to
          /\ h.later = <<>> /\ h.steps = f.later
      BY <1>3, <3>0 DEF Flows
    <3>2. QED
      BY <3>1
  <2>3. Transfers(<<>>, Nodes, f.to)
    BY DEF Transfers
  <2>4. FlowOK(u, g)
    BY <1>2, <2>1, <2>2, <2>3 DEF FlowOK, CreationOK, RemovalOK, TransferOK, OtherOK, Creations
  <2>5. FlowOK(u, g)'
    BY <1>13, <2>4, FrameOK DEF OwnSteps
  <2>6. QED
    BY <1>1, <1>4, <1>13, <2>1, <2>2, <2>5 DEF OwnSteps
<1>14. QED
  BY <1>8, <1>9, <1>10, <1>11, <1>12, <1>13 DEF Progress

LEMMA SerialStep ==
    ASSUME ~Concurrent, TypeOK, SerialInv, [Next]_vars
    PROVE  SerialInv'
<1>1. CASE Reindex
  <2>1. UNCHANGED registry /\ flow' = flow /\ indexed # Registered
    BY <1>1 DEF Reindex
  <2>2. owner' = owner /\ Registered' = Registered
    BY <2>1, SameRegistered DEF registry
  <2>3. ASSUME NEW u \in Users PROVE FlowOK(u, flow[u])'
    <3>1. PICK f : f = flow[u]
      OBVIOUS
    <3>2. FlowOK(u, f)
      BY <3>1 DEF SerialInv
    <3>3. CreationOK(u, f)'
      BY <2>2, <3>2 DEF FlowOK, CreationOK, Granted
    <3>4. RemovalOK(u, f)'
      BY <2>2, <3>2 DEF FlowOK, RemovalOK, mayDelete
    <3>5. TransferOK(u, f)'
      BY <2>1, <2>2, <3>2 DEF FlowOK, TransferOK, mayChange
    <3>6. flow'[u] = f
      BY <2>1, <3>1
    <3>7. QED
      BY <3>2, <3>3, <3>4, <3>5, <3>6 DEF FlowOK
  <2>4. QED
    BY <2>1, <2>3 DEF SerialInv, Solo
<1>2. ASSUME NEW u \in Users, Operation(u) PROVE SerialInv'
  <2>1. PICK f \in Flows : Start(u, f) /\ FlowOK(u, f)
    BY <1>2, Begin
  <2>2. FlowOK(u, f)'
    BY <2>1, FrameOK DEF Start
  <2>3. \A v \in Users : flow[v] = NoFlow
    BY <2>1 DEF Start, Ready
  <2>4. flow' = [flow EXCEPT ![u] = f]
    BY <2>1 DEF Start
  <2>5. QED
    BY <2>2, <2>3, <2>4, StaysSolo DEF SerialInv
<1>3. ASSUME NEW u \in Users, Progress(u) PROVE SerialInv'
  BY <1>3, SerialProgress
<1>4. ASSUME NEW u \in Users, Stop(u) PROVE SerialInv'
  <2>1. flow[u] # NoFlow /\ flow' = [flow EXCEPT ![u] = NoFlow]
    BY <1>4 DEF Stop, Go
  <2>2. QED
    BY <2>1, IdleOK, StaysSolo DEF SerialInv
<1>5. CASE UNCHANGED vars
  <2>1. flow' = flow /\ UNCHANGED <<registry, indexed>>
    BY <1>5 DEF vars
  <2>2. ASSUME NEW u \in Users PROVE FlowOK(u, flow[u])'
    <3>1. PICK f \in Flows : f = flow[u]
      BY DEF TypeOK
    <3>2. FlowOK(u, f)'
      BY <2>1, <3>1, FrameOK DEF SerialInv
    <3>3. QED
      BY <2>1, <3>1, <3>2
  <2>3. QED
    BY <2>1, <2>2 DEF SerialInv, Solo
<1>6. QED
  BY <1>1, <1>2, <1>3, <1>4, <1>5 DEF Next

LEMMA InitSerial == Init => SerialInv
<1> SUFFICES ASSUME Init PROVE SerialInv
  OBVIOUS
<1>1. \A u \in Users : flow[u] = NoFlow
  BY DEF Init
<1>2. QED
  BY <1>1, IdleOK DEF SerialInv, Solo

LEMMA Serial == ASSUME ~Concurrent PROVE Spec => [](TypeOK /\ SerialInv)
<1>1. Init => TypeOK /\ SerialInv
  BY InitTypes, InitSerial
<1>2. (TypeOK /\ SerialInv) /\ [Next]_vars => (TypeOK /\ SerialInv)'
  BY TypeStep, SerialStep
<1>3. QED
  BY <1>1, <1>2, PTL DEF Spec

(* Unless operations overlap, one that creates or removes reverts at its   *)
(* first step or not at all, although createApplication and createRole     *)
(* never compare the owner they read with the caller.                      *)
THEOREM StartedGoesThrough == ASSUME ~Concurrent PROVE Spec => []LaterStepsGoThrough
<1>1. TypeOK /\ SerialInv => LaterStepsGoThrough
  <2> SUFFICES ASSUME TypeOK, SerialInv, NEW u \in Users, Running(u), flow[u].begun,
                      flow[u].op \in Creations \cup {"deleteOrganization", "deleteApplication"}
               PROVE  \/ Authorised(u, step(u))
                      \/ flow[u].stepwise /\ owner[step(u).node] = flow[u].to
    BY DEF LaterStepsGoThrough, Removals
  <2>1. PICK f \in Flows : f = flow[u]
    BY DEF TypeOK
  <2>2. /\ f.steps # <<>> /\ 1 \in DOMAIN f.steps /\ step(u) = f.steps[1]
        /\ \A i \in DOMAIN f.steps : ~(i < 1)
    <3>1. f.steps \in Seq(Txs) /\ f.steps # <<>>
      BY <2>1 DEF Flows, Running
    <3>2. QED
      BY <2>1, <3>1, TailFacts DEF step
  <2>3. FlowOK(u, f)
    BY <2>1 DEF SerialInv
  <2>4. CASE f.op \in Creations
    <3>1. Granted(u, f.steps, 1)
      BY <2>1, <2>2, <2>3, <2>4 DEF FlowOK, CreationOK
    <3>2. owner[Site(f.steps[1])] = u
      BY <2>2, <3>1 DEF Granted
    <3>3. QED
      BY <2>2, <3>2 DEF Authorised, Site
  <2>5. CASE f.op \in {"deleteOrganization", "deleteApplication"}
    <3>1. /\ f.steps[1].do = "setRecord" /\ f.to = Nobody
          /\ \/ owner[f.steps[1].node] = u
             \/ f.stepwise /\ owner[f.steps[1].node] = Nobody
      BY <2>2, <2>3, <2>5 DEF FlowOK, RemovalOK
    <3>2. QED
      BY <2>1, <2>2, <3>1 DEF Authorised
  <2>6. QED
    BY <2>1, <2>4, <2>5
<1>2. QED
  BY <1>1, Serial, PTL

(* Unless operations overlap or the index lags, a transfer or a removal    *)
(* that stops in the middle passes the validation of a second call.        *)
THEOREM CanBeResumed == ASSUME ~Concurrent, ~Lag PROVE Spec => []ResumesAfterFailure
<1>1. TypeOK /\ SerialInv => ResumesAfterFailure
  <2> SUFFICES ASSUME TypeOK, SerialInv, NEW u \in Users, NEW f, f = flow[u]
               PROVE  CASE f.op = "changeAppOwnership" -> mayChange(u, appNamespaces(f.node), f.to)
                        [] f.op = "changeOrgOwnership" -> mayChange(u, orgNamespaces(f.node), f.to)
                        [] f.op = "deleteApplication" -> mayDelete(u, {RolesOf(f.node), f.node})
                        [] f.op = "deleteOrganization" -> mayDelete(u, orgNamespaces(f.node))
                        [] OTHER -> TRUE
    BY DEF ResumesAfterFailure
  <2>1. FlowOK(u, f)
    BY DEF SerialInv
  <2>2. QED
    BY <2>1 DEF FlowOK, TransferOK, RemovalOK, Gone
<1>2. QED
  BY <1>1, Serial, PTL

(* Unless operations overlap or the index lags, an application that        *)
(* changeAppOwnership has transferred is the new owner's with all its      *)
(* registered roles.                                                       *)
THEOREM AppsMoveWhole == ASSUME ~Concurrent, ~Lag PROVE Spec => []AppTransferMovesAll
<1>1. TypeOK /\ SerialInv => AppTransferMovesAll
  <2> SUFFICES ASSUME TypeOK, SerialInv, NEW u \in Users, NEW f, f = flow[u],
                      f.op = "changeAppOwnership", Done(u),
                      NEW n \in {r \in Registered \cap Roles : Parent(r) = RolesOf(f.node)}
                                    \cup {RolesOf(f.node), f.node}
               PROVE  owner[n] = f.to
    BY DEF AppTransferMovesAll
  <2>1. /\ indexed = Registered /\ Covers(f.steps, appNamespaces(f.node), f.to)
        /\ f.steps = <<>>
    BY DEF SerialInv, FlowOK, TransferOK, Done, Running
  <2>2. n \in appNamespaces(f.node)
    BY <2>1 DEF appNamespaces, rolesKnown
  <2>3. QED
    BY <2>1, <2>2 DEF Covers
<1>2. QED
  BY <1>1, Serial, PTL

(* How far a removal has looked, whichever operations overlap: a step that *)
(* leaves a namespace to nobody is of a removal that knew of nothing below *)
(* it, of a role, or of a creation under what nobody owned.                *)
RemovesKnown(f, tx) ==
    tx.do \in {"setSubnodeRecord", "setOwner", "setRecord"} /\ tx.owner = Nobody =>
        \/ f.op \in Creations /\ f.to = Nobody
        \/ f.op \in Removals /\ \A m \in f.known \cap (Roles \cup Apps) :
                                    tx.node \notin {Parent(m), Parent(Parent(m))}
        \/ tx.node \in Roles

AllKnown(f, s) == \A i \in DOMAIN s : RemovesKnown(f, s[i])

KnownOK(f) ==
    /\ AllKnown(f, f.steps) /\ AllKnown(f, f.later)
    /\ f.apps # {} => f.to \in Users

KnownInv == \A u \in Users : KnownOK(flow[u])

LEMMA TransfersKnown ==
    ASSUME NEW f, NEW s, NEW N, NEW w \in Users, Transfers(s, N, w)
    PROVE  AllKnown(f, s)
  BY UsersAssumption DEF Transfers, AllKnown, RemovesKnown

(* An operation that begins.                                               *)
LEMMA BeginKnown ==
    ASSUME NEW u \in Users, NEW f \in Flows, FlowOK(u, f)
    PROVE  KnownOK(f)
<1>0. CreationOK(u, f) /\ RemovalOK(u, f) /\ TransferOK(u, f) /\ OtherOK(f)
  BY DEF FlowOK
<1>1. CASE f.op \in Creations
  BY <1>0, <1>1 DEF CreationOK, OtherOK, KnownOK, AllKnown, RemovesKnown, Creations
<1>2. CASE f.op \in Removals
  <2>1. AllKnown(f, f.steps)
    BY <1>0, <1>2 DEF RemovalOK, AllKnown, RemovesKnown, Removals
  <2>2. f.apps = {} /\ f.later = <<>>
    BY <1>0, <1>2 DEF OtherOK, Removals
  <2>3. QED
    BY <2>1, <2>2 DEF KnownOK, AllKnown
<1>3. CASE f.op \in {"changeAppOwnership", "changeOrgOwnership", "changeRoleOwnership"}
  BY <1>0, <1>3, TransfersKnown DEF TransferOK, KnownOK
<1>4. CASE f.op \in {"deleteRole", "setRoleDefinition", "none"}
  <2>1. AllKnown(f, f.steps)
    BY <1>0, <1>4 DEF OtherOK, AllKnown, RemovesKnown
  <2>2. f.apps = {} /\ f.later = <<>>
    BY <1>0, <1>4 DEF OtherOK
  <2>3. QED
    BY <2>1, <2>2 DEF KnownOK, AllKnown
<1>5. QED
  BY <1>1, <1>2, <1>3, <1>4 DEF Flows, Removals

(* What is left of an operation.                                           *)
LEMMA RestKnown ==
    ASSUME NEW f \in Flows, NEW g, KnownOK(f), g.op = f.op, g.to = f.to, g.known = f.known,
           AllKnown(f, g.steps), AllKnown(f, g.later), g.apps \subseteq f.apps
    PROVE  KnownOK(g)
  BY DEF KnownOK, AllKnown, RemovesKnown

LEMMA KnownProgress ==
    ASSUME TypeOK, KnownInv, NEW u \in Users, Progress(u)
    PROVE  KnownInv'
<1>1. PICK f \in Flows : f = flow[u]
  BY DEF TypeOK
<1>2. /\ KnownOK(f) /\ f.steps \in Seq(Txs) /\ f.later \in Seq(Txs) /\ f.apps \subseteq Apps
  BY <1>1 DEF KnownInv, Flows
<1>3. ASSUME NEW g, Go(u, g), KnownOK(g) PROVE KnownInv'
  <2>1. flow' = [flow EXCEPT ![u] = g]
    BY <1>3 DEF Go
  <2>2. \A v \in Users : flow'[v] = g \/ flow'[v] = flow[v]
    BY <2>1 DEF TypeOK
  <2>3. QED
    BY <2>2, <1>3 DEF KnownInv
<1>4. Go(u, NoFlow) => KnownInv'
  <2>1. KnownOK(NoFlow)
    BY NoFlowFacts DEF KnownOK, AllKnown
  <2>2. QED
    BY <2>1, <1>3
<1>5. ASSUME Running(u), Go(u, Advanced(u)) PROVE KnownInv'
  <2> DEFINE g == [f EXCEPT !.steps = Tail(@), !.begun = TRUE]
  <2>1. g = Advanced(u)
    BY <1>1 DEF Advanced
  <2>2. f.steps # <<>>
    BY <1>1, <1>5 DEF Running
  <2>3. AllKnown(f, Tail(f.steps))
    BY <1>2, <2>2, TailFacts DEF KnownOK, AllKnown
  <2>4. g.op = f.op /\ g.to = f.to /\ g.known = f.known /\ g.steps = Tail(f.steps)
        /\ g.later = f.later /\ g.apps = f.apps
    BY DEF Flows
  <2> HIDE DEF g
  <2>5. KnownOK(g)
    BY <1>2, <2>3, <2>4, RestKnown DEF KnownOK
  <2>6. QED
    BY <1>3, <1>5, <2>1, <2>5
<1>6. CASE Confirmed(u)
  BY <1>6, <1>5 DEF Confirmed
<1>7. CASE Unanswered(u)
  <2>1. CASE f.stepwise
    <3> DEFINE g == [f EXCEPT !.begun = TRUE]
    <3>1. Go(u, g)
      BY <1>1, <1>7, <2>1 DEF Unanswered
    <3>2. g.op = f.op /\ g.to = f.to /\ g.known = f.known /\ g.steps = f.steps
          /\ g.later = f.later /\ g.apps = f.apps
      BY DEF Flows
    <3> HIDE DEF g
    <3>3. KnownOK(g)
      BY <1>2, <3>2, RestKnown DEF KnownOK
    <3>4. QED
      BY <1>3, <3>1, <3>3
  <2>2. CASE ~f.stepwise
    BY <1>1, <1>4, <1>7, <2>2 DEF Unanswered
  <2>3. QED
    BY <2>1, <2>2
<1>8. CASE Revert(u)
  BY <1>8, <1>4 DEF Revert
<1>9. CASE Skip(u)
  BY <1>9, <1>5 DEF Skip
<1>10. CASE NextApp(u)
  <2>1. PICK a \in f.apps :
            IF mayChange(u, appNamespaces(a), f.to)
            THEN \E txs \in appTransfers(a, f.to) :
                     Go(u, [f EXCEPT !.apps = @ \ {a}, !.steps = txs])
            ELSE Go(u, NoFlow)
    BY <1>1, <1>10 DEF NextApp
  <2>2. CASE mayChange(u, appNamespaces(a), f.to)
    <3>1. PICK txs \in appTransfers(a, f.to) :
              Go(u, [f EXCEPT !.apps = @ \ {a}, !.steps = txs])
      BY <2>1, <2>2
    <3>2. f.to \in Users /\ a \in Apps
      BY <1>2, <2>1 DEF KnownOK
    <3>3. AllKnown(f, txs)
      BY <3>1, <3>2, AppTransfers, TransfersKnown DEF Due
    <3> DEFINE g == [f EXCEPT !.apps = @ \ {a}, !.steps = txs]
    <3>4. g.op = f.op /\ g.to = f.to /\ g.known = f.known /\ g.steps = txs
          /\ g.later = f.later /\ g.apps \subseteq f.apps
      BY DEF Flows
    <3>5. Go(u, g)
      BY <3>1
    <3> HIDE DEF g
    <3>6. KnownOK(g)
      BY <1>2, <3>3, <3>4, RestKnown DEF KnownOK
    <3>7. QED
      BY <1>3, <3>5, <3>6
  <2>3. CASE ~mayChange(u, appNamespaces(a), f.to)
    BY <1>4, <2>1, <2>3
  <2>4. QED
    BY <2>2, <2>3
<1>11. CASE OwnSteps(u)
  <2> DEFINE g == [f EXCEPT !.steps = f.later, !.later = <<>>]
  <2>1. Go(u, g)
    BY <1>1, <1>11 DEF OwnSteps
  <2>2. g.op = f.op /\ g.to = f.to /\ g.known = f.known /\ g.steps = f.later
        /\ g.later = <<>> /\ g.apps = f.apps
    BY DEF Flows
  <2> HIDE DEF g
  <2>3. AllKnown(f, <<>>)
    BY DEF AllKnown
  <2>4. KnownOK(g)
    BY <1>2, <2>2, <2>3, RestKnown DEF KnownOK
  <2>5. QED
    BY <1>3, <2>1, <2>4
<1>12. QED
  BY <1>6, <1>7, <1>8, <1>9, <1>10, <1>11 DEF Progress

LEMMA KnownStep ==
    ASSUME TypeOK, KnownInv, [Next]_vars
    PROVE  KnownInv'
<1>1. ASSUME NEW u \in Users, NEW f, KnownOK(f), flow' = [flow EXCEPT ![u] = f]
      PROVE  KnownInv'
  <2>1. \A v \in Users : flow'[v] = f \/ flow'[v] = flow[v]
    BY <1>1 DEF TypeOK
  <2>2. QED
    BY <1>1, <2>1 DEF KnownInv
<1>2. ASSUME NEW u \in Users, Operation(u) PROVE KnownInv'
  <2>1. PICK f \in Flows : Start(u, f) /\ FlowOK(u, f)
    BY <1>2, Begin
  <2>2. KnownOK(f)
    BY <2>1, BeginKnown
  <2>3. QED
    BY <1>1, <2>1, <2>2 DEF Start
<1>3. ASSUME NEW u \in Users, Progress(u) PROVE KnownInv'
  BY <1>3, KnownProgress
<1>4. ASSUME NEW u \in Users, Stop(u) PROVE KnownInv'
  <2>1. KnownOK(NoFlow)
    BY NoFlowFacts DEF KnownOK, AllKnown
  <2>2. QED
    BY <1>1, <1>4, <2>1 DEF Stop, Go
<1>5. CASE flow' = flow
  BY <1>5 DEF KnownInv
<1>6. QED
  BY <1>2, <1>3, <1>4, <1>5 DEF Next, Reindex, vars

LEMMA RemovalStep ==
    ASSUME TypeOK, KnownInv, NEW u \in Users, Running(u), Authorised(u, step(u)),
           Mined(step(u)), NEW n \in Nodes, owner[n] # Nobody, owner'[n] = Nobody
    PROVE  /\ step(u).node = n
           /\ \A m \in Registered \cap (Roles \cup Apps) :
                  n \in {Parent(m), Parent(Parent(m))} =>
                      \/ flow[u].op \in Removals /\ m \notin flow[u].known
                      \/ flow[u].op \in Creations /\ flow[u].to = Nobody
<1>1. PICK f \in Flows : f = flow[u]
  BY DEF TypeOK
<1> DEFINE tx == f.steps[1]
<1>2. f.steps \in Seq(Txs) /\ f.steps # <<>>
  BY <1>1 DEF Flows, Running
<1>3. step(u) = tx /\ tx \in Txs /\ 1 \in DOMAIN f.steps
  BY <1>1, <1>2, TailFacts DEF step
<1>4. tx.do \in {"setSubnodeRecord", "setOwner", "setRecord"} /\ tx.owner = Nobody /\ tx.node = n
  BY <1>3 DEF Mined, TypeOK, Txs
<1>5. RemovesKnown(f, tx)
  BY <1>1, <1>3 DEF KnownInv, KnownOK, AllKnown
<1>6. \A m \in Roles \cup Apps : n \in Roles => n \notin {Parent(m), Parent(Parent(m))}
  BY BelowRole
<1>7. QED
  BY <1>1, <1>3, <1>4, <1>5, <1>6 DEF RemovesKnown

(* Whichever operations overlap and however far the index is behind, what  *)
(* is registered below a namespace that is removed was not in the index    *)
(* when the removal was called, unless something is created for nobody.    *)
THEOREM OnlyEmptyRemoved == Spec => RemovesOnlyEmpty
<1> DEFINE Emptied(n, u) ==
               /\ Running(u) /\ Authorised(u, step(u)) /\ step(u).node = n
               /\ \A m \in Registered \cap (Roles \cup Apps) :
                      n \in {Parent(m), Parent(Parent(m))} =>
                          \/ flow[u].op \in Removals /\ m \notin flow[u].known
                          \/ flow[u].op \in Creations /\ flow[u].to = Nobody
           Step == \A n \in Nodes : owner[n] # Nobody /\ owner'[n] = Nobody =>
                       \E u \in Users : Emptied(n, u)
<1>1. Init => TypeOK /\ KnownInv
  <2>1. ASSUME Init PROVE KnownInv
    BY <2>1, NoFlowFacts DEF Init, KnownInv, KnownOK, AllKnown
  <2>2. QED
    BY <2>1, InitTypes
<1>2. (TypeOK /\ KnownInv) /\ [Next]_vars => (TypeOK /\ KnownInv)'
  BY TypeStep, KnownStep
<1>3. TypeOK /\ KnownInv /\ [Next]_vars => [Step]_vars
  <2> SUFFICES ASSUME TypeOK, KnownInv, Next PROVE Step
    OBVIOUS
  <2>1. ASSUME NEW u \in Users, Confirmed(u) \/ Unanswered(u) PROVE Step
    <3>1. Running(u) /\ Authorised(u, step(u)) /\ Mined(step(u))
      BY <2>1 DEF Confirmed, Unanswered
    <3>2. ASSUME NEW n \in Nodes, owner[n] # Nobody, owner'[n] = Nobody PROVE Emptied(n, u)
      BY <3>1, <3>2, RemovalStep
    <3> HIDE DEF Emptied
    <3>3. QED
      BY <3>2
  <2>2. ASSUME owner' = owner PROVE Step
    BY <2>2
  <2> HIDE DEF Step
  <2>3. ASSUME NEW u \in Users, Operation(u) PROVE owner' = owner
    BY <2>3, Begin DEF Start, registry
  <2>4. ASSUME NEW u \in Users,
               Revert(u) \/ Skip(u) \/ NextApp(u) \/ OwnSteps(u) \/ Stop(u)
        PROVE  owner' = owner
    BY <2>4 DEF Revert, Skip, NextApp, OwnSteps, Stop, registry
  <2>5. Reindex => owner' = owner
    BY DEF Reindex, registry
  <2>6. QED
    BY <2>1, <2>2, <2>3, <2>4, <2>5 DEF Next, Progress
<1>4. QED
  BY <1>1, <1>2, <1>3, PTL DEF Spec, RemovesOnlyEmpty

----------------------------------------------------------------------------
(* Transfers: what is left to do of one, and what is done.                 *)

TransferOps == {"changeAppOwnership", "changeOrgOwnership", "changeRoleOwnership"}

(* Each step is of a namespace that is the caller's, or nobody's, and is   *)
(* so until its turn comes.  He may have sent the first without an answer. *)
ClearOK(u, f) ==
    f.op \in TransferOps =>
        /\ Once(f.steps)
        /\ \A i \in DOMAIN f.steps :
               \/ owner[f.steps[i].node] \in {u, Nobody}
               \/ f.stepwise /\ f.begun /\ i = 1 /\ owner[f.steps[i].node] = f.to

(* The organization's own namespaces but those left for later.             *)
OwnNow(f) == {n \in orgNamespaces(f.node) : \A i \in DOMAIN f.later : f.later[i].node # n}

LaterOK(u, f) ==
    f.op = "changeOrgOwnership" =>
        /\ Once(f.later)
        /\ \A i \in DOMAIN f.later :
               /\ f.later[i].node \in orgNamespaces(f.node)
               /\ owner[f.later[i].node] \in {u, Nobody}
               /\ \A j \in DOMAIN f.steps : f.steps[j].node # f.later[i].node
        /\ Covers(f.steps, OwnNow(f), f.to)
        /\ ~f.stepwise /\ ~Lag =>
               /\ indexed = Registered
               /\ \A a \in getAppsOfOrg(f.node) \ f.apps :
                      Covers(f.steps, appNamespaces(a), f.to)

TransitOK(u, f) == ClearOK(u, f) /\ LaterOK(u, f)

TransitInv == \A u \in Users : TransitOK(u, flow[u])

LEMMA OthersInTransit ==
    ASSUME NEW u \in Users, NEW f, f.op \notin TransferOps
    PROVE  TransitOK(u, f)
  BY DEF TransitOK, ClearOK, LaterOK, TransferOps

LEMMA NamespacesApart ==
    ASSUME NEW a \in Apps, NEW g \in Orgs
    PROVE  appNamespaces(a) \cap orgNamespaces(g) = {}
<1>1. /\ Parent(RolesOf(a)) = a /\ Parent(RolesOf(g)) = g /\ a # g
  BY RolesOfFacts, Apart
<1>2. RolesOf(a) # RolesOf(g)
  BY <1>1
<1>3. rolesKnown(a) \subseteq Roles
  BY DEF rolesKnown
<1>4. QED
  BY <1>2, <1>3, Apart DEF appNamespaces, orgNamespaces

(* The steps of a transfer when they are computed.                         *)
LEMMA DueIsClear ==
    ASSUME NEW s, NEW N, NEW w, NEW u, Due(s, N, w), mayChange(u, N, w)
    PROVE  Once(s) /\ \A i \in DOMAIN s : s[i].node \in N /\ owner[s[i].node] \in {u, Nobody}
  BY DEF Due, Transfers, mayChange

LEMMA BeginOthers ==
    ASSUME NEW u \in Users, Operation(u)
    PROVE  \/ \E f : Start(u, f) /\ f.op \notin TransferOps
           \/ \E g \in Orgs, v \in Users, s, w \in BOOLEAN : changeOrgOwnership(u, g, v, s, w)
           \/ \E a \in Apps, v \in Users, s \in BOOLEAN : changeAppOwnership(u, a, v, s)
           \/ \E r \in Roles, v \in Users : changeRoleOwnership(u, r, v)
<1>1. ASSUME NEW o, NEW n, NEW t, NEW s, NEW k, NEW x, o \notin TransferOps,
             \/ Start(u, [NoFlow EXCEPT !.op = o, !.node = n, !.to = t, !.stepwise = s, !.steps = x])
             \/ Start(u, [NoFlow EXCEPT !.op = o, !.node = n, !.stepwise = s,
                                        !.known = k, !.steps = x])
             \/ Start(u, [NoFlow EXCEPT !.op = o, !.node = n, !.steps = x])
      PROVE  \E f : Start(u, f) /\ f.op \notin TransferOps
  <2>1. /\ [NoFlow EXCEPT !.op = o, !.node = n, !.to = t, !.stepwise = s, !.steps = x].op = o
        /\ [NoFlow EXCEPT !.op = o, !.node = n, !.stepwise = s, !.known = k, !.steps = x].op = o
        /\ [NoFlow EXCEPT !.op = o, !.node = n, !.steps = x].op = o
    BY DEF NoFlow
  <2>2. QED
    BY <1>1, <2>1, Zenon
<1>2. \A o \in Creations \cup {"deleteOrganization", "deleteApplication", "deleteRole",
                               "setRoleDefinition"} : o \notin TransferOps
  BY DEF Creations, TransferOps
<1>3. CASE \E g \in Orgs, s \in BOOLEAN : createOrganization(u, g, s)
  <2>1. PICK g, s : createOrganization(u, g, s)
    BY <1>3
  <2>2. "createOrganization" \notin TransferOps
    BY <1>2 DEF Creations
  <2>3. PICK x : Start(u, [NoFlow EXCEPT !.op = "createOrganization", !.node = g, !.to = u,
                                         !.stepwise = s, !.steps = x])
    BY <2>1, Zenon DEF createOrganization
  <2>4. QED
    BY <1>1, <2>2, <2>3, Zenon
<1>4. CASE \E a \in Apps, s \in BOOLEAN : createApplication(u, a, s)
  BY <1>1, <1>2, <1>4, Zenon DEF createApplication, createApplicationFrom, Creations
<1>5. CASE \E r \in Roles, s \in BOOLEAN : createRole(u, r, s)
  BY <1>1, <1>2, <1>5, Zenon DEF createRole, Creations
<1>6. CASE \E g \in Orgs, s \in BOOLEAN : deleteOrganization(u, g, s)
  BY <1>1, <1>2, <1>6, Zenon DEF deleteOrganization
<1>7. CASE \E a \in Apps, s \in BOOLEAN : deleteApplication(u, a, s)
  BY <1>1, <1>2, <1>7, Zenon DEF deleteApplication
<1>8. CASE \E r \in Roles : deleteRole(u, r)
  BY <1>1, <1>2, <1>8, Zenon DEF deleteRole
<1>9. CASE \E n \in Orgs \cup Apps \cup Roles : setRoleDefinition(u, n)
  <2>1. PICK n : setRoleDefinition(u, n)
    BY <1>9
  <2>2. "setRoleDefinition" \notin TransferOps
    BY <1>2
  <2>3. PICK x : Start(u, [NoFlow EXCEPT !.op = "setRoleDefinition", !.node = n, !.steps = x])
    BY <2>1 DEF setRoleDefinition
  <2>4. QED
    BY <1>1, <2>2, <2>3, Zenon
<1>10. QED
  BY <1>3, <1>4, <1>5, <1>6, <1>7, <1>8, <1>9 DEF Operation

LEMMA BeginTransit ==
    ASSUME TypeOK, NEW u \in Users, Operation(u)
    PROVE  \E f : Start(u, f) /\ TransitOK(u, f)
<1>0. <<>> \in Seq(Txs) /\ DOMAIN <<>> = {}
  OBVIOUS
<1>1. CASE \E f : Start(u, f) /\ f.op \notin TransferOps
  BY <1>1, OthersInTransit
<1>2. ASSUME NEW g \in Orgs, NEW v \in Users, NEW s \in BOOLEAN, NEW w \in BOOLEAN,
             changeOrgOwnership(u, g, v, s, w)
      PROVE  \E f : Start(u, f) /\ TransitOK(u, f)
  <2> DEFINE apps == IF s THEN {} ELSE getAppsOfOrg(g)
             txs == orgTransfers(g, v)
             f == [NoFlow EXCEPT !.op = "changeOrgOwnership", !.node = g, !.to = v,
                                 !.stepwise = s, !.apps = apps, !.later = txs]
  <2>1. Start(u, f) /\ mayChange(u, orgNamespaces(g), v)
    BY <1>2 DEF changeOrgOwnership
  <2>2. Due(txs, orgNamespaces(g), v)
    BY OrgTransfers
  <2> HIDE DEF txs
  <2>3. /\ Once(txs) /\ Covers(txs, orgNamespaces(g), v)
        /\ \A i \in DOMAIN txs : txs[i].node \in orgNamespaces(g) /\ owner[txs[i].node] \in {u, Nobody}
    BY <2>1, <2>2, DueIsClear DEF Due
  <2>4. /\ f.op = "changeOrgOwnership" /\ f.to = v /\ f.node = g /\ f.stepwise = s
        /\ f.steps = <<>> /\ f.later = txs /\ f.apps = apps
    BY DEF NoFlow
  <2>5. ~Lag => indexed = Registered
    BY <2>1 DEF Start, Ready
  <2> HIDE DEF f
  <2>6. ClearOK(u, f)
    BY <1>0, <2>4 DEF ClearOK, Once
  <2>7. Covers(f.steps, OwnNow(f), f.to)
    BY <2>3, <2>4 DEF Covers, OwnNow
  <2>8. ~f.stepwise => getAppsOfOrg(f.node) \ f.apps = {}
    BY <2>4
  <2>9. LaterOK(u, f)
    BY <1>0, <2>3, <2>4, <2>5, <2>7, <2>8 DEF LaterOK
  <2>10. QED
    BY <2>1, <2>6, <2>9 DEF TransitOK
<1>3. ASSUME NEW a \in Apps, NEW v \in Users, NEW s \in BOOLEAN, changeAppOwnership(u, a, v, s)
      PROVE  \E f : Start(u, f) /\ TransitOK(u, f)
  <2>1. PICK txs \in appTransfers(a, v) :
            Start(u, [NoFlow EXCEPT !.op = "changeAppOwnership", !.node = a, !.to = v,
                                    !.stepwise = s, !.steps = txs])
    BY <1>3 DEF changeAppOwnership
  <2> DEFINE f == [NoFlow EXCEPT !.op = "changeAppOwnership", !.node = a, !.to = v,
                                 !.stepwise = s, !.steps = txs]
  <2>2. mayChange(u, appNamespaces(a), v)
    BY <1>3 DEF changeAppOwnership
  <2>3. Once(txs) /\ \A i \in DOMAIN txs : owner[txs[i].node] \in {u, Nobody}
    BY <2>2, AppTransfers, DueIsClear
  <2>4. f.op = "changeAppOwnership" /\ f.steps = txs /\ Start(u, f)
    BY <2>1 DEF NoFlow
  <2> HIDE DEF f
  <2>5. TransitOK(u, f)
    BY <2>3, <2>4 DEF TransitOK, ClearOK, LaterOK
  <2>6. QED
    BY <2>4, <2>5
<1>4. ASSUME NEW r \in Roles, NEW v \in Users, changeRoleOwnership(u, r, v)
      PROVE  \E f : Start(u, f) /\ TransitOK(u, f)
  <2> DEFINE tx == changeDomainOwnerTx(r, v)
             f == [NoFlow EXCEPT !.op = "changeRoleOwnership", !.node = r, !.to = v,
                                 !.steps = <<tx>>]
  <2>1. Start(u, f) /\ owner[r] \in {u, Nobody}
    BY <1>4 DEF changeRoleOwnership
  <2>2. tx.node = r
    BY DEF changeDomainOwnerTx, Tx
  <2>3. f.op = "changeRoleOwnership" /\ f.steps = <<tx>>
    BY DEF NoFlow
  <2> HIDE DEF tx, f
  <2>4. DOMAIN <<tx>> = {1} /\ <<tx>>[1] = tx
    OBVIOUS
  <2>5. TransitOK(u, f)
    BY <2>1, <2>2, <2>3, <2>4 DEF TransitOK, ClearOK, LaterOK, Once
  <2>6. QED
    BY <2>1, <2>5
<1>5. QED
  BY <1>1, <1>2, <1>3, <1>4, BeginOthers

LEMMA TransitFrame ==
    ASSUME NEW u \in Users, NEW f, TransitOK(u, f), UNCHANGED <<registry, indexed>>
    PROVE  TransitOK(u, f)'
<1>1. owner' = owner /\ indexed' = indexed /\ Registered' = Registered
  BY SameRegistered DEF registry
<1>2. ClearOK(u, f)'
  BY <1>1 DEF TransitOK, ClearOK
<1>3. LaterOK(u, f)'
  BY <1>1 DEF TransitOK, LaterOK, Covers, getAppsOfOrg, appNamespaces, rolesKnown
<1>4. QED
  BY <1>2, <1>3 DEF TransitOK

(* What was done or to be done of N is so after the first step of s.       *)
LEMMA CoversKept ==
    ASSUME NEW s \in Seq(Txs), s # <<>>, NEW t, t \in {s, Tail(s)}, NEW w, NEW N \in SUBSET Nodes,
           Covers(s, N, w),
           \A n \in Nodes : owner'[n] = IF n = s[1].node THEN w ELSE owner[n]
    PROVE  \A n \in N : owner'[n] = w \/ \E i \in DOMAIN t : t[i].node = n
<1> SUFFICES ASSUME NEW n \in N, owner'[n] # w
             PROVE  \E i \in DOMAIN t : t[i].node = n
  OBVIOUS
<1>1. n # s[1].node /\ owner[n] # w
  OBVIOUS
<1>2. PICK i \in DOMAIN s : s[i].node = n
  BY <1>1 DEF Covers
<1>3. i - 1 \in DOMAIN Tail(s) /\ Tail(s)[i - 1] = s[i]
  BY <1>1, <1>2, TailFacts
<1>4. QED
  BY <1>2, <1>3

LEMMA TransitMined ==
    ASSUME TypeOK, NEW u \in Users, NEW f \in Flows, NEW g, f.steps # <<>>, After(f, g),
           owner[Site(f.steps[1])] = u, Mined(f.steps[1]), UNCHANGED indexed,
           TransferOK(u, f), TransitOK(u, f)
    PROVE  TransitOK(u, g)'
<1> SUFFICES ASSUME f.op \in TransferOps
             PROVE  TransitOK(u, g)'
  BY DEF TransitOK, ClearOK, LaterOK, TransferOps, After
<1> DEFINE s == f.steps
           tx == s[1]
<1>1. s \in Seq(Txs) /\ 1 \in DOMAIN s /\ \A i \in DOMAIN s : s[i].node \in Nodes
  <2>1. s \in Seq(Txs)
    BY DEF Flows
  <2>2. QED
    BY <2>1, TailFacts DEF Txs
<1>2. /\ tx.node \in Nodes /\ owner[tx.node] = u /\ Registered' = Registered
      /\ \A n \in Nodes : owner'[n] = IF n = tx.node THEN f.to ELSE owner[n]
  BY TransferMined DEF TransferOps
<1>3. g.steps = Tail(s) \/ (g.steps = s /\ g.stepwise)
  BY DEF After
<1>4. Once(s) /\ Once(Tail(s)) /\ \A i \in DOMAIN Tail(s) : Tail(s)[i].node # tx.node
  BY <1>1, TailOnce DEF TransitOK, ClearOK
<1>5. \A i \in DOMAIN s : i # 1 => s[i].node # tx.node /\ owner[s[i].node] \in {u, Nobody}
  BY <1>1, <1>4 DEF TransitOK, ClearOK, Once
<1>6. \A i \in DOMAIN Tail(s) : /\ Tail(s)[i].node \in Nodes
                                /\ owner[Tail(s)[i].node] \in {u, Nobody}
  <2>1. \A i \in DOMAIN Tail(s) : /\ i \in Nat /\ i >= 1
                                  /\ i + 1 \in DOMAIN s /\ Tail(s)[i] = s[i + 1]
    <3>1. \A i \in DOMAIN Tail(s) : i \in Nat /\ i >= 1
      BY <1>1
    <3>2. QED
      BY <1>1, <3>1, TailFacts
  <2>2. \A i \in DOMAIN Tail(s) : i + 1 # 1
    BY <2>1
  <2>3. QED
    BY <1>1, <1>5, <2>1, <2>2
<1>7. ClearOK(u, g)'
  <2>1. CASE g.steps = s /\ g.stepwise
    BY <1>1, <1>2, <1>4, <1>5, <2>1 DEF ClearOK, After
  <2>2. CASE g.steps = Tail(s)
    BY <1>2, <1>4, <1>6, <2>2 DEF ClearOK
  <2>3. QED
    BY <1>3, <2>1, <2>2
<1>8. ASSUME f.op = "changeOrgOwnership" PROVE LaterOK(u, g)'
  <2>0. g.steps \in {s, Tail(s)}
    BY <1>3
  <2>1. f.node \in Orgs
    BY <1>8 DEF TransferOK
  <2>2. orgNamespaces(f.node) \in SUBSET Nodes /\ OwnNow(f) \in SUBSET Nodes
    BY <2>1, RolesOfFacts, AppsOfFacts DEF orgNamespaces, OwnNow
  <2>3. \A i \in DOMAIN g.steps : \E j \in DOMAIN s : g.steps[i] = s[j]
    <3>1. \A i \in DOMAIN Tail(s) : \E j \in DOMAIN s : Tail(s)[i] = s[j]
      BY <1>1, TailFacts
    <3>2. QED
      BY <1>3, <3>1
  <2>4. \A i \in DOMAIN f.later :
            /\ f.later[i].node \in orgNamespaces(f.node) /\ f.later[i].node # tx.node
            /\ owner[f.later[i].node] \in {u, Nobody}
            /\ \A j \in DOMAIN s : s[j].node # f.later[i].node
    BY <1>1, <1>8 DEF TransitOK, LaterOK
  <2>5. \A i \in DOMAIN f.later :
            /\ owner'[f.later[i].node] \in {u, Nobody}
            /\ \A j \in DOMAIN g.steps : g.steps[j].node # f.later[i].node
    BY <1>2, <2>2, <2>3, <2>4
  <2>6. OwnNow(g) = OwnNow(f)
    BY DEF OwnNow, After
  <2>7. Covers(s, OwnNow(f), f.to)
    BY <1>8 DEF TransitOK, LaterOK
  <2>8. \A n \in OwnNow(f) : owner'[n] = f.to \/ \E i \in DOMAIN g.steps : g.steps[i].node = n
    BY <1>1, <1>2, <2>0, <2>2, <2>7, CoversKept
  <2>9. Covers(g.steps, OwnNow(g), g.to)'
    BY <2>6, <2>8 DEF Covers, After
  <2>10. ASSUME ~g.stepwise, ~Lag
         PROVE  /\ indexed' = Registered'
                /\ \A a \in getAppsOfOrg(g.node) \ g.apps :
                       Covers(g.steps, appNamespaces(a), g.to)'
    <3>1. /\ indexed = Registered
          /\ \A a \in getAppsOfOrg(f.node) \ f.apps : Covers(s, appNamespaces(a), f.to)
      BY <1>8, <2>10 DEF TransitOK, LaterOK, After
    <3>2. ASSUME NEW a \in getAppsOfOrg(f.node) \ f.apps
          PROVE  Covers(g.steps, appNamespaces(a), g.to)'
      <4>1. PICK N : N = appNamespaces(a)
        OBVIOUS
      <4>2. N \in SUBSET Nodes /\ Covers(s, N, f.to)
        BY <3>1, <4>1, RoleFacts, RolesOfFacts, AppFacts
           DEF appNamespaces, rolesKnown, getAppsOfOrg
      <4>3. \A n \in N : owner'[n] = f.to \/ \E i \in DOMAIN g.steps : g.steps[i].node = n
        BY <1>1, <1>2, <2>0, <4>2, CoversKept
      <4>4. appNamespaces(a)' = N
        BY <4>1 DEF appNamespaces, rolesKnown
      <4>5. QED
        BY <4>3, <4>4 DEF Covers, After
    <3>3. QED
      BY <1>2, <3>1, <3>2 DEF After
  <2>11. getAppsOfOrg(g.node)' = getAppsOfOrg(g.node)
    BY DEF getAppsOfOrg
  <2>12. QED
    BY <1>8, <2>4, <2>5, <2>9, <2>10, <2>11 DEF LaterOK, TransitOK, After
<1>9. QED
  BY <1>7, <1>8 DEF TransitOK, LaterOK, After

LEMMA TransitSkip ==
    ASSUME NEW u \in Users, NEW f \in Flows, NEW g \in Flows, f.steps # <<>>, After(f, g),
           g.steps = Tail(f.steps), owner[f.steps[1].node] = f.to, TransitOK(u, f)
    PROVE  TransitOK(u, g)
<1> SUFFICES ASSUME f.op \in TransferOps
             PROVE  TransitOK(u, g)
  BY DEF TransitOK, ClearOK, LaterOK, TransferOps, After
<1> DEFINE s == f.steps
<1>1. s \in Seq(Txs)
  BY DEF Flows
<1>2. \A i \in DOMAIN Tail(s) : /\ i + 1 # 1 /\ i + 1 \in DOMAIN s
                                /\ Tail(s)[i] = s[i + 1]
  <2>1. \A i \in DOMAIN Tail(s) : i \in Nat /\ i >= 1
    BY <1>1
  <2>2. QED
    BY <1>1, <2>1, TailFacts
<1>3. ClearOK(u, g)
  <2>1. Once(Tail(s))
    BY <1>1, TailOnce DEF TransitOK, ClearOK
  <2>2. \A i \in DOMAIN Tail(s) : owner[Tail(s)[i].node] \in {u, Nobody}
    BY <1>2 DEF TransitOK, ClearOK
  <2>3. QED
    BY <2>1, <2>2 DEF ClearOK
<1>4. ASSUME f.op = "changeOrgOwnership" PROVE LaterOK(u, g)
  <2>1. ASSUME NEW N, Covers(s, N, f.to) PROVE Covers(g.steps, N, f.to)
    BY <1>1, <2>1, SkipCovers
  <2>2. OwnNow(g) = OwnNow(f)
    BY DEF OwnNow, After
  <2>3. Covers(g.steps, OwnNow(g), g.to)
    BY <1>4, <2>1, <2>2 DEF TransitOK, LaterOK, After
  <2>4. \A i \in DOMAIN g.later : \A j \in DOMAIN g.steps : g.steps[j].node # g.later[i].node
    BY <1>2, <1>4 DEF TransitOK, LaterOK, After
  <2>5. ~g.stepwise /\ ~Lag =>
            /\ indexed = Registered
            /\ \A a \in getAppsOfOrg(g.node) \ g.apps : Covers(g.steps, appNamespaces(a), g.to)
    BY <1>4, <2>1 DEF TransitOK, LaterOK, After
  <2>6. QED
    BY <1>4, <2>3, <2>4, <2>5 DEF TransitOK, LaterOK, After
<1>5. QED
  BY <1>3, <1>4 DEF TransitOK, LaterOK, After

(* The next application: what is done stays done, its own steps are due.   *)
LEMMA TransitNextApp ==
    ASSUME NEW u \in Users, NEW f \in Flows, NEW g, f.op = "changeOrgOwnership", f.steps = <<>>,
           NEW a \in f.apps, mayChange(u, appNamespaces(a), f.to),
           NEW txs \in appTransfers(a, f.to),
           g.op = f.op, g.node = f.node, g.to = f.to, g.stepwise = f.stepwise,
           g.apps = f.apps \ {a}, g.steps = txs, g.later = f.later,
           TransferOK(u, f), TransitOK(u, f)
    PROVE  TransitOK(u, g)
<1>1. a \in Apps /\ f.to \in Users \cup {Nobody} /\ f.node \in Orgs
  BY DEF Flows, TransferOK
<1>2. Due(txs, appNamespaces(a), f.to)
  BY <1>1, AppTransfers
<1>3. /\ Once(txs)
      /\ \A i \in DOMAIN txs : txs[i].node \in appNamespaces(a) /\ owner[txs[i].node] \in {u, Nobody}
  BY <1>2, DueIsClear
<1>4. ClearOK(u, g)
  BY <1>3 DEF ClearOK
<1>5. ASSUME NEW N, Covers(f.steps, N, f.to) PROVE Covers(g.steps, N, g.to)
  BY <1>5 DEF Covers
<1>6. OwnNow(g) = OwnNow(f)
  BY DEF OwnNow
<1>7. LaterOK(u, f)
  BY DEF TransitOK
<1>8. Covers(g.steps, OwnNow(g), g.to)
  BY <1>5, <1>6, <1>7 DEF LaterOK
<1>9. \A i \in DOMAIN g.later : \A j \in DOMAIN g.steps : g.steps[j].node # g.later[i].node
  BY <1>1, <1>3, <1>7, NamespacesApart DEF LaterOK
<1>10. ASSUME ~g.stepwise, ~Lag
       PROVE  /\ indexed = Registered
              /\ \A b \in getAppsOfOrg(g.node) \ g.apps : Covers(g.steps, appNamespaces(b), g.to)
  <2>1. Covers(g.steps, appNamespaces(a), g.to)
    BY <1>2 DEF Due
  <2>2. /\ indexed = Registered
        /\ \A b \in getAppsOfOrg(f.node) \ f.apps : Covers(g.steps, appNamespaces(b), g.to)
    BY <1>5, <1>7, <1>10 DEF LaterOK
  <2>3. QED
    BY <2>1, <2>2
<1>11. LaterOK(u, g)
  BY <1>7, <1>8, <1>9, <1>10 DEF LaterOK
<1>12. QED
  BY <1>4, <1>11 DEF TransitOK

(* The applications are done: the organization's own steps.                *)
LEMMA TransitOwnSteps ==
    ASSUME NEW u \in Users, NEW f \in Flows, NEW g, f.op = "changeOrgOwnership", f.steps = <<>>,
           g.op = f.op, g.node = f.node, g.to = f.to, g.stepwise = f.stepwise,
           g.apps = f.apps, g.steps = f.later, g.later = <<>>, TransitOK(u, f)
    PROVE  TransitOK(u, g)
<1>1. DOMAIN <<>> = {}
  OBVIOUS
<1>2. LaterOK(u, f)
  BY DEF TransitOK
<1>3. ClearOK(u, g)
  BY <1>2 DEF LaterOK, ClearOK
<1>4. ASSUME NEW N, Covers(f.steps, N, f.to) PROVE Covers(g.steps, N, g.to)
  BY <1>4 DEF Covers
<1>5. Covers(g.steps, OwnNow(g), g.to)
  <2> SUFFICES ASSUME NEW n \in orgNamespaces(f.node)
               PROVE  owner[n] = g.to \/ \E i \in DOMAIN g.steps : g.steps[i].node = n
    BY DEF Covers, OwnNow
  <2>1. CASE n \in OwnNow(f)
    <3>1. Covers(g.steps, OwnNow(f), g.to)
      BY <1>2, <1>4 DEF LaterOK
    <3>2. QED
      BY <2>1, <3>1 DEF Covers
  <2>2. CASE n \notin OwnNow(f)
    BY <2>2 DEF OwnNow
  <2>3. QED
    BY <2>1, <2>2
<1>6. ~g.stepwise /\ ~Lag =>
          /\ indexed = Registered
          /\ \A a \in getAppsOfOrg(g.node) \ g.apps : Covers(g.steps, appNamespaces(a), g.to)
  BY <1>2, <1>4 DEF LaterOK
<1>7. LaterOK(u, g)
  BY <1>1, <1>5, <1>6 DEF LaterOK, Once
<1>8. QED
  BY <1>3, <1>7 DEF TransitOK

LEMMA StaysInTransit ==
    ASSUME TypeOK, Solo, NEW u \in Users, NEW g, flow' = [flow EXCEPT ![u] = g],
           flow[u] # NoFlow \/ \A v \in Users : flow[v] = NoFlow,
           TransitOK(u, g)'
    PROVE  TransitInv'
<1>1. \A v \in Users : v # u => flow[v] = NoFlow
  BY DEF Solo
<1>2. flow'[u] = g /\ \A v \in Users : v # u => flow'[v] = NoFlow
  BY <1>1 DEF TypeOK
<1>3. ASSUME NEW v \in Users PROVE TransitOK(v, NoFlow)'
  BY NoFlowFacts DEF TransitOK, ClearOK, LaterOK, TransferOps
<1>4. ASSUME NEW v \in Users PROVE TransitOK(v, flow[v])'
  <2>1. CASE v = u
    BY <2>1, <1>2
  <2>2. CASE v # u
    BY <2>2, <1>2, <1>3
  <2>3. QED
    BY <2>1, <2>2
<1>5. QED
  BY <1>4 DEF TransitInv

LEMMA TransitProgress ==
    ASSUME TypeOK, SerialInv, TransitInv, NEW u \in Users, Progress(u)
    PROVE  TransitInv'
<1>1. PICK f \in Flows : f = flow[u]
  BY DEF TypeOK
<1>2. FlowOK(u, f) /\ TransferOK(u, f) /\ OtherOK(f) /\ Solo /\ TransitOK(u, f)
  BY <1>1 DEF SerialInv, FlowOK, TransitInv
<1>3. f.steps \in Seq(Txs)
  BY DEF Flows
<1>4. f.steps # <<>> \/ f.apps # {} \/ f.later # <<>> => f # NoFlow
  BY NoFlowFacts
<1>5. ASSUME NEW g, Go(u, g), TransitOK(u, g)', f # NoFlow PROVE TransitInv'
  BY <1>1, <1>2, <1>5, StaysInTransit DEF Go
<1>6. TransitOK(u, NoFlow)'
  BY NoFlowFacts DEF TransitOK, ClearOK, LaterOK, TransferOps
<1>7. ASSUME f.steps # <<>>
      PROVE  \E g \in Flows : g = Advanced(u) /\ After(f, g) /\ g.steps = Tail(f.steps)
  <2>1. Tail(f.steps) \in Seq(Txs)
    BY <1>3, <1>7, TailFacts
  <2> DEFINE g == [f EXCEPT !.steps = Tail(@), !.begun = TRUE]
  <2>2. g \in Flows /\ g = Advanced(u)
    BY <1>1, <1>3, <2>1 DEF Advanced, Flows
  <2>3. After(f, g) /\ g.steps = Tail(f.steps)
    BY DEF After, Flows
  <2>4. QED
    BY <2>2, <2>3
<1>8. ASSUME f.steps # <<>>, Authorised(u, step(u)), Mined(step(u)), UNCHANGED indexed,
             NEW g, After(f, g)
      PROVE  TransitOK(u, g)'
  <2>1. step(u) = f.steps[1]
    BY <1>1, <1>3, <1>8, TailFacts DEF step
  <2>2. owner[Site(f.steps[1])] = u /\ Mined(f.steps[1])
    BY <1>8, <2>1 DEF Authorised, Site
  <2>3. QED
    BY <1>2, <1>8, <2>2, TransitMined
<1>9. CASE Confirmed(u)
  <2>1. /\ f.steps # <<>> /\ Authorised(u, step(u)) /\ Mined(step(u)) /\ UNCHANGED indexed
        /\ Go(u, Advanced(u))
    BY <1>1, <1>9 DEF Confirmed, Running
  <2>2. PICK g \in Flows : g = Advanced(u) /\ After(f, g)
    BY <1>7, <2>1
  <2>3. TransitOK(u, g)'
    BY <1>8, <2>1, <2>2
  <2>4. QED
    BY <1>4, <1>5, <2>1, <2>2, <2>3
<1>10. CASE Unanswered(u)
  <2>1. /\ f.steps # <<>> /\ Authorised(u, step(u)) /\ Mined(step(u)) /\ UNCHANGED indexed
        /\ Go(u, IF f.stepwise THEN [f EXCEPT !.begun = TRUE] ELSE NoFlow)
    BY <1>1, <1>10 DEF Unanswered, Running
  <2>2. CASE f.stepwise
    <3> DEFINE g == [f EXCEPT !.begun = TRUE]
    <3>1. After(f, g) /\ Go(u, g)
      BY <2>1, <2>2 DEF After, Flows
    <3> HIDE DEF g
    <3>2. TransitOK(u, g)'
      BY <1>8, <2>1, <3>1
    <3>3. QED
      BY <1>4, <1>5, <2>1, <3>1, <3>2
  <2>3. CASE ~f.stepwise
    BY <1>4, <1>5, <1>6, <2>1, <2>3
  <2>4. QED
    BY <2>2, <2>3
<1>11. CASE Revert(u)
  BY <1>1, <1>4, <1>5, <1>6, <1>11 DEF Revert, Running
<1>12. CASE Skip(u)
  <2>1. /\ f.steps # <<>> /\ owner[step(u).node] = f.to /\ Go(u, Advanced(u))
        /\ UNCHANGED <<registry, indexed>>
    BY <1>1, <1>12 DEF Skip, Running
  <2>2. PICK g \in Flows : g = Advanced(u) /\ After(f, g) /\ g.steps = Tail(f.steps)
    BY <1>7, <2>1
  <2>3. owner[f.steps[1].node] = f.to
    BY <1>1, <1>3, <2>1, TailFacts DEF step
  <2>4. TransitOK(u, g)
    BY <1>2, <2>1, <2>2, <2>3, TransitSkip
  <2>5. TransitOK(u, g)'
    BY <2>1, <2>4, TransitFrame
  <2>6. QED
    BY <1>4, <1>5, <2>1, <2>2, <2>5
<1>13. CASE NextApp(u)
  <2>1. /\ f.steps = <<>> /\ UNCHANGED <<registry, indexed>>
        /\ \E a \in f.apps :
               IF mayChange(u, appNamespaces(a), f.to)
               THEN \E txs \in appTransfers(a, f.to) :
                        Go(u, [f EXCEPT !.apps = @ \ {a}, !.steps = txs])
               ELSE Go(u, NoFlow)
    BY <1>1, <1>13 DEF NextApp, Running
  <2>2. PICK a \in f.apps :
            IF mayChange(u, appNamespaces(a), f.to)
            THEN \E txs \in appTransfers(a, f.to) :
                     Go(u, [f EXCEPT !.apps = @ \ {a}, !.steps = txs])
            ELSE Go(u, NoFlow)
    BY <2>1
  <2>3. f # NoFlow /\ f.op = "changeOrgOwnership"
    BY <1>2, <1>4, <2>2 DEF OtherOK
  <2>4. CASE mayChange(u, appNamespaces(a), f.to)
    <3>1. PICK txs \in appTransfers(a, f.to) :
              Go(u, [f EXCEPT !.apps = @ \ {a}, !.steps = txs])
      BY <2>2, <2>4
    <3> DEFINE g == [f EXCEPT !.apps = @ \ {a}, !.steps = txs]
    <3>2. /\ g.op = f.op /\ g.node = f.node /\ g.to = f.to /\ g.stepwise = f.stepwise
          /\ g.apps = f.apps \ {a} /\ g.steps = txs /\ g.later = f.later
      BY DEF Flows
    <3>3. Go(u, g)
      BY <3>1
    <3> HIDE DEF g
    <3>4. TransitOK(u, g)
      BY <1>2, <2>1, <2>3, <2>4, <3>2, TransitNextApp
    <3>5. TransitOK(u, g)'
      BY <2>1, <3>4, TransitFrame
    <3>6. QED
      BY <1>5, <2>3, <3>3, <3>5
  <2>5. CASE ~mayChange(u, appNamespaces(a), f.to)
    BY <1>5, <1>6, <2>2, <2>3, <2>5
  <2>6. QED
    BY <2>4, <2>5
<1>14. CASE OwnSteps(u)
  <2>1. /\ f.steps = <<>> /\ f.later # <<>> /\ UNCHANGED <<registry, indexed>>
        /\ Go(u, [f EXCEPT !.steps = f.later, !.later = <<>>])
    BY <1>1, <1>14 DEF OwnSteps, Running
  <2>2. f # NoFlow /\ f.op = "changeOrgOwnership"
    BY <1>2, <1>4, <2>1 DEF OtherOK
  <2> DEFINE g == [f EXCEPT !.steps = f.later, !.later = <<>>]
  <2>3. /\ g.op = f.op /\ g.node = f.node /\ g.to = f.to /\ g.stepwise = f.stepwise
        /\ g.apps = f.apps /\ g.steps = f.later /\ g.later = <<>>
    BY DEF Flows
  <2>4. Go(u, g)
    BY <2>1
  <2> HIDE DEF g
  <2>5. TransitOK(u, g)
    BY <1>2, <2>1, <2>2, <2>3, TransitOwnSteps
  <2>6. TransitOK(u, g)'
    BY <2>1, <2>5, TransitFrame
  <2>7. QED
    BY <1>5, <2>2, <2>4, <2>6
<1>15. QED
  BY <1>9, <1>10, <1>11, <1>12, <1>13, <1>14 DEF Progress

LEMMA TransitStep ==
    ASSUME ~Concurrent, TypeOK, SerialInv, TransitInv, [Next]_vars
    PROVE  TransitInv'
<1>1. CASE Reindex
  <2>1. UNCHANGED registry /\ flow' = flow /\ indexed # Registered
    BY <1>1 DEF Reindex
  <2>2. owner' = owner
    BY <2>1 DEF registry
  <2>3. ASSUME NEW u \in Users PROVE TransitOK(u, flow[u])'
    <3>1. PICK f : f = flow[u]
      OBVIOUS
    <3>2. TransitOK(u, f) /\ flow'[u] = f
      BY <2>1, <3>1 DEF TransitInv
    <3>3. ClearOK(u, f)'
      BY <2>2, <3>2 DEF TransitOK, ClearOK
    <3>4. LaterOK(u, f)'
      BY <2>1, <2>2, <3>2 DEF TransitOK, LaterOK, Covers
    <3>5. QED
      BY <3>2, <3>3, <3>4 DEF TransitOK
  <2>4. QED
    BY <2>3 DEF TransitInv
<1>2. ASSUME NEW u \in Users, Operation(u) PROVE TransitInv'
  <2>1. PICK f : Start(u, f) /\ TransitOK(u, f)
    BY <1>2, BeginTransit
  <2>2. /\ \A v \in Users : flow[v] = NoFlow
        /\ flow' = [flow EXCEPT ![u] = f] /\ UNCHANGED <<registry, indexed>>
    BY <2>1 DEF Start, Ready
  <2>3. TransitOK(u, f)'
    BY <2>1, <2>2, TransitFrame
  <2>4. QED
    BY <2>2, <2>3, StaysInTransit DEF SerialInv
<1>3. ASSUME NEW u \in Users, Progress(u) PROVE TransitInv'
  BY <1>3, TransitProgress
<1>4. ASSUME NEW u \in Users, Stop(u) PROVE TransitInv'
  <2>1. flow[u] # NoFlow /\ flow' = [flow EXCEPT ![u] = NoFlow]
    BY <1>4 DEF Stop, Go
  <2>2. TransitOK(u, NoFlow)'
    BY NoFlowFacts DEF TransitOK, ClearOK, LaterOK, TransferOps
  <2>3. QED
    BY <2>1, <2>2, StaysInTransit DEF SerialInv
<1>5. CASE UNCHANGED vars
  <2>1. flow' = flow /\ UNCHANGED <<registry, indexed>>
    BY <1>5 DEF vars
  <2>2. ASSUME NEW u \in Users PROVE TransitOK(u, flow[u])'
    <3>1. PICK f : f = flow[u]
      OBVIOUS
    <3>2. TransitOK(u, f)'
      BY <2>1, <3>1, TransitFrame DEF TransitInv
    <3>3. QED
      BY <2>1, <3>1, <3>2
  <2>3. QED
    BY <2>2 DEF TransitInv
<1>6. QED
  BY <1>1, <1>2, <1>3, <1>4, <1>5 DEF Next

LEMMA Transit == ASSUME ~Concurrent PROVE Spec => [](TypeOK /\ SerialInv /\ TransitInv)
<1>1. Init => TypeOK /\ SerialInv /\ TransitInv
  <2> SUFFICES ASSUME Init PROVE TransitInv
    BY InitTypes, InitSerial
  <2>1. ASSUME NEW u \in Users PROVE TransitOK(u, NoFlow)
    BY NoFlowFacts DEF TransitOK, ClearOK, LaterOK, TransferOps
  <2>2. \A u \in Users : flow[u] = NoFlow
    BY DEF Init
  <2>3. QED
    BY <2>1, <2>2 DEF TransitInv
<1>2. (TypeOK /\ SerialInv /\ TransitInv) /\ [Next]_vars => (TypeOK /\ SerialInv /\ TransitInv)'
  BY TypeStep, SerialStep, TransitStep
<1>3. QED
  BY <1>1, <1>2, PTL DEF Spec

(* Unless operations overlap, a transfer reverts only at a namespace that  *)
(* nobody owns, or at the step it repeats without retryCheck: whatever was *)
(* transferred, removed or abandoned before, and also if the index lags.   *)
THEOREM TransfersStopAtUnowned == ASSUME ~Concurrent PROVE Spec => []TransferStopsAtUnowned
<1>1. TypeOK /\ SerialInv /\ TransitInv => TransferStopsAtUnowned
  <2> SUFFICES ASSUME TypeOK, SerialInv, TransitInv, NEW u \in Users, Running(u),
                      flow[u].op \in TransferOps
               PROVE  \/ Authorised(u, step(u))
                      \/ owner[step(u).node] = Nobody
                      \/ flow[u].stepwise /\ flow[u].begun /\ owner[step(u).node] = flow[u].to
    BY DEF TransferStopsAtUnowned, TransferOps
  <2>1. PICK f \in Flows : f = flow[u]
    BY DEF TypeOK
  <2>2. f.steps \in Seq(Txs) /\ f.steps # <<>> /\ f.op \in TransferOps
    BY <2>1 DEF Flows, Running
  <2>3. 1 \in DOMAIN f.steps /\ step(u) = f.steps[1]
    BY <2>1, <2>2, TailFacts DEF step
  <2>4. f.steps[1].do = "setOwner"
    BY <2>1, <2>2, <2>3 DEF SerialInv, FlowOK, TransferOK, Transfers, TransferOps
  <2>5. \/ owner[f.steps[1].node] \in {u, Nobody}
        \/ f.stepwise /\ f.begun /\ owner[f.steps[1].node] = f.to
    BY <2>1, <2>2, <2>3 DEF TransitInv, TransitOK, ClearOK
  <2>6. QED
    BY <2>1, <2>3, <2>4, <2>5 DEF Authorised
<1>2. QED
  BY <1>1, Transit, PTL

(* Unless operations overlap or the index lags, changeOrgOwnership is      *)
(* through only when the organization and, unless it has returned its      *)
(* steps, each of its registered applications with the registered roles    *)
(* are the new owner's.                                                    *)
THEOREM OrgsMoveWithApps == ASSUME ~Concurrent, ~Lag PROVE Spec => []OrgTransferMovesApps
<1>1. TypeOK /\ SerialInv /\ TransitInv => OrgTransferMovesApps
  <2> SUFFICES ASSUME TypeOK, TransitInv, NEW u \in Users, NEW f, f = flow[u],
                      f.op = "changeOrgOwnership", Done(u)
               PROVE  /\ \A n \in orgNamespaces(f.node) : owner[n] = f.to
                      /\ \/ f.stepwise
                         \/ \A a \in {a \in Registered \cap Apps : Parent(a) = AppsOf(f.node)} :
                                \A n \in {a, RolesOf(a)}
                                    \cup {r \in Registered \cap Roles : Parent(r) = RolesOf(a)} :
                                    owner[n] = f.to
    BY DEF OrgTransferMovesApps
  <2>1. f.steps = <<>> /\ f.apps = {} /\ f.later = <<>> /\ DOMAIN <<>> = {}
    BY DEF Done, Running
  <2>2. LaterOK(u, f)
    BY DEF TransitInv, TransitOK
  <2>3. \A n \in orgNamespaces(f.node) : owner[n] = f.to
    BY <2>1, <2>2 DEF LaterOK, OwnNow, Covers
  <2>4. ASSUME ~f.stepwise, NEW a \in Registered \cap Apps, Parent(a) = AppsOf(f.node),
               NEW n \in {a, RolesOf(a)}
                             \cup {r \in Registered \cap Roles : Parent(r) = RolesOf(a)}
        PROVE  owner[n] = f.to
    <3>1. indexed = Registered /\ \A b \in getAppsOfOrg(f.node) \ f.apps :
                                      Covers(f.steps, appNamespaces(b), f.to)
      BY <2>2, <2>4 DEF LaterOK
    <3>2. a \in getAppsOfOrg(f.node) \ f.apps
      BY <2>1, <2>4, <3>1 DEF getAppsOfOrg
    <3>3. n \in appNamespaces(a)
      BY <2>4, <3>1 DEF appNamespaces, rolesKnown
    <3>4. QED
      BY <2>1, <3>1, <3>2, <3>3 DEF Covers
  <2>5. QED
    BY <2>3, <2>4
<1>2. QED
  BY <1>1, Transit, PTL
=============================================================================
