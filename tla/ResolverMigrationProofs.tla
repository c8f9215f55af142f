----------------------- MODULE ResolverMigrationProofs -----------------------
(***************************************************************************)
(* ResolverMigration for any tree of namespaces, any owners and any number *)
(* of runs and of pending transactions: the types, that owners come back,  *)
(* that whatever run gets through has moved everything, and that the       *)
(* migration implements ResolverHandover.                                  *)
(***************************************************************************)
EXTENDS ResolverMigration, FiniteSetTheorems, TLAPS

USE MigrationNodes, MigrationOwners, MigrationRuns

(* Without repetitions. *)
Distinct(s) == \A i, j \in DOMAIN s : s[i] = s[j] => i = j

LEMMA ChildrenSeqs ==
    ASSUME NEW n \in Nodes, NEW c \in SetToSeqs(ChildrenOf[n])
    PROVE  c \in Seq(Nodes) /\ ToSet(c) = ChildrenOf[n] /\ Distinct(c)
<1> DEFINE S == ChildrenOf[n]
           D == 1 .. Cardinality(S)
<1>1. IsFiniteSet(S) /\ Cardinality(S) \in Nat /\ S \subseteq Nodes
  BY FS_Subset, FS_CardinalityType, MigrationTree
<1>2. c \in [D -> S] /\ \A i, j \in D : i # j => c[i] # c[j]
  BY DEF SetToSeqs
<1>3. c \in Injection(D, S)
  BY <1>2 DEF Injection, IsInjective
<1>4. IsFiniteSet(D) /\ Cardinality(D) = Cardinality(S)
  BY <1>1, FS_Interval
<1>5. c \in Surjection(D, S)
  BY <1>1, <1>3, <1>4, FS_Injection
<1>6. \A x \in S : \E i \in D : c[i] = x
  BY <1>5 DEF Surjection
<1>7. ToSet(c) = S
  BY <1>2, <1>6 DEF ToSet
<1>8. c \in Seq(Nodes) /\ Distinct(c)
  BY <1>1, <1>2 DEF Distinct
<1>9. QED
  BY <1>7, <1>8

LEMMA HeadTailSets ==
    ASSUME NEW T, NEW s \in Seq(T), s # <<>>
    PROVE  /\ Head(s) \in T /\ Tail(s) \in Seq(T)
           /\ ToSet(s) = {Head(s)} \cup ToSet(Tail(s))
           /\ Distinct(s) => Head(s) \notin ToSet(Tail(s)) /\ Distinct(Tail(s))
<1>1. Len(s) \in Nat /\ Len(s) > 0 /\ DOMAIN s = 1 .. Len(s) /\ Head(s) = s[1]
  OBVIOUS
<1>2. /\ Tail(s) \in Seq(T) /\ DOMAIN Tail(s) = 1 .. Len(s) - 1
      /\ \A i \in 1 .. Len(s) - 1 : Tail(s)[i] = s[i + 1]
  BY <1>1
<1>3. \A i \in 1 .. Len(s) : i = 1 \/ (i - 1 \in 1 .. Len(s) - 1 /\ Tail(s)[i - 1] = s[i])
  BY <1>1, <1>2
<1>4. ToSet(s) = {Head(s)} \cup ToSet(Tail(s))
  <2>1. ASSUME NEW x \in ToSet(s) PROVE x \in {Head(s)} \cup ToSet(Tail(s))
    <3>1. PICK i \in 1 .. Len(s) : x = s[i]
      BY <1>1 DEF ToSet
    <3>2. CASE i = 1
      BY <1>1, <3>1, <3>2
    <3>3. CASE i - 1 \in 1 .. Len(s) - 1 /\ Tail(s)[i - 1] = s[i]
      <4>1. \E j \in DOMAIN Tail(s) : Tail(s)[j] = x
        BY <1>2, <3>1, <3>3
      <4>2. QED
        BY <4>1 DEF ToSet
    <3>4. QED
      BY <1>3, <3>1, <3>2, <3>3
  <2>2. \A i \in 1 .. Len(s) - 1 : i + 1 \in 1 .. Len(s)
    BY <1>1
  <2>3. 1 \in 1 .. Len(s)
    BY <1>1
  <2>4. \A x \in ToSet(Tail(s)) : x \in ToSet(s)
    BY <1>1, <1>2, <2>2 DEF ToSet
  <2>5. Head(s) \in ToSet(s)
    BY <1>1, <2>3 DEF ToSet
  <2>6. QED
    BY <2>1, <2>4, <2>5
<1>5. Distinct(s) => Head(s) \notin ToSet(Tail(s)) /\ Distinct(Tail(s))
  <2>1. \A i \in 1 .. Len(s) - 1 : i + 1 \in 1 .. Len(s) /\ i + 1 # 1
    BY <1>1
  <2>2. \A i, j \in 1 .. Len(s) - 1 : i + 1 = j + 1 => i = j
    OBVIOUS
  <2>3. 1 \in 1 .. Len(s)
    BY <1>1
  <2>4. QED
    BY <1>1, <1>2, <2>1, <2>2, <2>3 DEF ToSet, Distinct
<1>6. QED
  BY <1>1, <1>2, <1>4, <1>5

LEMMA ConcatSets ==
    ASSUME NEW T, NEW c \in Seq(T), NEW d \in Seq(T)
    PROVE  /\ c \o d \in Seq(T)
           /\ ToSet(c \o d) = ToSet(c) \cup ToSet(d)
           /\ Distinct(c) /\ Distinct(d) /\ ToSet(c) \cap ToSet(d) = {} => Distinct(c \o d)
<1> DEFINE m == Len(c)
           n == Len(d)
           e == c \o d
<1>1. /\ m \in Nat /\ n \in Nat /\ e \in Seq(T)
      /\ DOMAIN c = 1 .. m /\ DOMAIN d = 1 .. n /\ DOMAIN e = 1 .. m + n
      /\ \A i \in 1 .. m : e[i] = c[i]
      /\ \A i \in m + 1 .. m + n : e[i] = d[i - m]
  OBVIOUS
<1>0. m \in Nat /\ n \in Nat
  BY <1>1
<1> HIDE DEF m, n, e
<1>2. ASSUME NEW i \in 1 .. (m + n)
      PROVE  i \in 1 .. m \/ (i \in (m + 1) .. (m + n) /\ i - m \in 1 .. n)
  <2>1. CASE i <= m
    BY <1>0, <2>1
  <2>2. CASE i > m
    BY <1>0, <2>2
  <2>3. QED
    BY <1>0, <2>1, <2>2
<1>3. \A i \in 1 .. m : i \in 1 .. m + n
  BY <1>0
<1>4. \A i \in 1 .. n : i + m \in m + 1 .. m + n /\ i + m \in 1 .. m + n /\ (i + m) - m = i
  BY <1>0
<1>5. ToSet(e) = ToSet(c) \cup ToSet(d)
  <2>1. ASSUME NEW x \in ToSet(e) PROVE x \in ToSet(c) \cup ToSet(d)
    <3>1. PICK i \in 1 .. (m + n) : x = e[i]
      BY <1>1 DEF ToSet
    <3>2. CASE i \in 1 .. m
      <4>1. \E j \in DOMAIN c : c[j] = x
        BY <1>1, <3>1, <3>2
      <4>2. QED
        BY <4>1 DEF ToSet
    <3>3. CASE i \in (m + 1) .. (m + n) /\ i - m \in 1 .. n
      <4>1. \E j \in DOMAIN d : d[j] = x
        BY <1>1, <3>1, <3>3
      <4>2. QED
        BY <4>1 DEF ToSet
    <3>4. QED
      BY <1>2, <3>2, <3>3
  <2>2. \A x \in ToSet(c) : x \in ToSet(e)
    BY <1>1, <1>3 DEF ToSet
  <2>3. ASSUME NEW x \in ToSet(d) PROVE x \in ToSet(e)
    <3>1. PICK i \in 1 .. n : x = d[i]
      BY <1>1 DEF ToSet
    <3>2. i + m \in 1 .. (m + n) /\ e[i + m] = d[i]
      <4>1. i + m \in (m + 1) .. (m + n) /\ i + m \in 1 .. (m + n) /\ (i + m) - m = i
        BY <1>4
      <4>2. e[i + m] = d[(i + m) - m]
        BY <1>1, <4>1
      <4>3. QED
        BY <4>1, <4>2
    <3>3. \E j \in DOMAIN e : e[j] = x
      BY <1>1, <3>1, <3>2
    <3>4. QED
      BY <3>3 DEF ToSet
  <2>4. QED
    BY <2>1, <2>2, <2>3
<1>6. ASSUME Distinct(c), Distinct(d), ToSet(c) \cap ToSet(d) = {},
             NEW i \in 1 .. m + n, NEW j \in 1 .. m + n, e[i] = e[j]
      PROVE  i = j
  <2>1. CASE i \in 1 .. m /\ j \in 1 .. m
    BY <1>1, <1>6, <2>1 DEF Distinct
  <2>2. CASE i \in m + 1 .. m + n /\ j \in m + 1 .. m + n
    <3>1. i - m \in 1 .. n /\ j - m \in 1 .. n /\ d[i - m] = d[j - m]
      BY <1>1, <1>6, <2>2
    <3>2. i - m = j - m
      BY <1>1, <1>6, <3>1 DEF Distinct
    <3>3. QED
      BY <1>1, <3>2
  <2>3. ASSUME NEW x \in 1 .. m, NEW y \in m + 1 .. m + n PROVE e[x] # e[y]
    <3>1. y - m \in 1 .. n
      BY <1>1
    <3>2. e[x] \in ToSet(c) /\ e[y] \in ToSet(d)
      BY <1>1, <3>1 DEF ToSet
    <3>3. QED
      BY <1>6, <3>2
  <2>4. QED
    BY <1>2, <1>6, <2>1, <2>2, <2>3
<1>7. QED
  BY <1>1, <1>5, <1>6 DEF Distinct, e

----------------------------------------------------------------------------
(* OwnsBefore for any sequence of transactions q and any owners w. *)
Owned(q, w, n, o, k) ==
    \/ /\ \A j \in 1 .. k - 1 : ~ SetsOwner(q[j], n)
       /\ w[n] = o
    \/ \E i \in 1 .. k - 1 :
          /\ SetsOwner(q[i], n) /\ q[i].to = o
          /\ \A j \in i + 1 .. k - 1 : ~ SetsOwner(q[j], n)

(* n is in S, or the first k - 1 transactions of q add it. *)
Has(q, S, kind, n, k) ==
    n \in S \/ \E i \in 1 .. k - 1 : q[i].sets = kind /\ q[i].node = n

LEMMA AppendFacts ==
    ASSUME NEW q \in Seq(Transactions), NEW tx \in Transactions, NEW r, r = Append(q, tx)
    PROVE  /\ r \in Seq(Transactions) /\ Len(q) \in Nat /\ Len(r) = Len(q) + 1
           /\ \A i \in 1 .. Len(q) : r[i] = q[i]
           /\ r[Len(q) + 1] = tx
  OBVIOUS

LEMMA TailFacts ==
    ASSUME NEW q \in Seq(Transactions), q # <<>>, NEW r, r = Tail(q)
    PROVE  /\ r \in Seq(Transactions) /\ Len(q) \in Nat /\ Len(q) > 0 /\ Len(r) = Len(q) - 1
           /\ \A i \in 1 .. Len(r) : r[i] = q[i + 1]
           /\ Head(q) = q[1] /\ q[1] \in Transactions
  OBVIOUS

LEMMA OwnedAppend ==
    ASSUME NEW q \in Seq(Transactions), NEW tx \in Transactions, NEW r, r = Append(q, tx),
           NEW w, NEW n, NEW o
    PROVE  /\ \A k \in 1 .. Len(q) + 1 : Owned(q, w, n, o, k) => Owned(r, w, n, o, k)
           /\ ~ SetsOwner(tx, n) /\ Owned(q, w, n, o, Len(q) + 1) => Owned(r, w, n, o, Len(r) + 1)
           /\ SetsOwner(tx, n) /\ tx.to = o => Owned(r, w, n, o, Len(r) + 1)
<1> DEFINE Q(i) == SetsOwner(q[i], n)
           R(i) == SetsOwner(r[i], n)
<1>1. PICK m \in Nat : m = Len(q)
  BY AppendFacts
<1>2. /\ Len(r) = m + 1
      /\ \A i \in 1 .. m : (R(i) <=> Q(i)) /\ r[i].to = q[i].to
      /\ (R(m + 1) <=> SetsOwner(tx, n)) /\ r[m + 1].to = tx.to
  BY <1>1, AppendFacts
<1>a. (m + 1) - 1 = m /\ (m + 2) - 1 = m + 1
  OBVIOUS
<1> HIDE DEF Q, R
<1>3. ASSUME NEW k \in 1 .. m + 1, Owned(q, w, n, o, k) PROVE Owned(r, w, n, o, k)
  <2>1. CASE (\A j \in 1 .. k - 1 : ~ Q(j)) /\ w[n] = o
    BY <1>2, <2>1 DEF Owned, Q, R
  <2>2. CASE \E i \in 1 .. k - 1 : Q(i) /\ q[i].to = o /\ \A j \in i + 1 .. k - 1 : ~ Q(j)
    <3>1. PICK i \in 1 .. k - 1 : Q(i) /\ q[i].to = o /\ \A j \in i + 1 .. k - 1 : ~ Q(j)
      BY <2>2
    <3>2. \A j \in 1 .. k - 1 : j \in 1 .. m
      OBVIOUS
    <3>3. R(i) /\ r[i].to = o /\ \A j \in i + 1 .. k - 1 : ~ R(j)
      BY <1>2, <3>1, <3>2
    <3>4. QED
      BY <3>3 DEF Owned, R
  <2>3. QED
    BY <1>3, <2>1, <2>2 DEF Owned, Q
<1>4. ASSUME ~ SetsOwner(tx, n), Owned(q, w, n, o, m + 1) PROVE Owned(r, w, n, o, m + 2)
  <2>1. \A j \in 1 .. m + 1 : j \in 1 .. m \/ ~ R(j)
    BY <1>2, <1>4
  <2>2. CASE (\A j \in 1 .. m : ~ Q(j)) /\ w[n] = o
    <3>1. \A j \in 1 .. m + 1 : ~ R(j)
      BY <1>2, <2>1, <2>2
    <3>2. QED
      BY <1>a, <2>2, <3>1 DEF Owned, R
  <2>3. CASE \E i \in 1 .. m : Q(i) /\ q[i].to = o /\ \A j \in i + 1 .. m : ~ Q(j)
    <3>1. PICK i \in 1 .. m : Q(i) /\ q[i].to = o /\ \A j \in i + 1 .. m : ~ Q(j)
      BY <2>3
    <3>2. R(i) /\ r[i].to = o
      BY <1>2, <3>1
    <3>3. \A j \in i + 1 .. m + 1 : j \in i + 1 .. m \/ j = m + 1
      OBVIOUS
    <3>4. \A j \in i + 1 .. m + 1 : ~ R(j)
      BY <1>2, <1>4, <3>1, <3>3
    <3>5. i \in 1 .. m + 1
      OBVIOUS
    <3>6. QED
      BY <1>a, <3>2, <3>4, <3>5 DEF Owned, R
  <2>4. QED
    BY <1>a, <1>4, <2>2, <2>3 DEF Owned, Q
<1>5. ASSUME SetsOwner(tx, n), tx.to = o PROVE Owned(r, w, n, o, m + 2)
  <2>1. R(m + 1) /\ r[m + 1].to = o
    BY <1>2, <1>5
  <2>2. m + 1 \in 1 .. m + 1 /\ \A j \in (m + 1) + 1 .. m + 1 : FALSE
    OBVIOUS
  <2>3. QED
    BY <1>a, <2>1, <2>2 DEF Owned, R
<1>6. Len(q) + 1 = m + 1 /\ Len(r) + 1 = m + 2
  BY <1>1, <1>2
<1>7. QED
  BY <1>1, <1>3, <1>4, <1>5, <1>6

(* The first transaction of q makes w to x, at n. *)
LEMMA OwnedTail ==
    ASSUME NEW q \in Seq(Transactions), q # <<>>, NEW r, r = Tail(q),
           NEW w, NEW x, NEW n, NEW o,
           x[n] = IF SetsOwner(q[1], n) THEN q[1].to ELSE w[n],
           NEW k \in 1 .. Len(q), Owned(q, w, n, o, k + 1)
    PROVE  Owned(r, x, n, o, k)
<1> DEFINE Q(i) == SetsOwner(q[i], n)
           R(i) == SetsOwner(r[i], n)
<1>1. /\ Len(q) \in Nat /\ k \in Nat
      /\ \A i \in 1 .. k - 1 : (R(i) <=> Q(i + 1)) /\ r[i].to = q[i + 1].to
  BY TailFacts
<1>2. x[n] = IF Q(1) THEN q[1].to ELSE w[n]
  OBVIOUS
<1> HIDE DEF Q, R
<1>3. CASE (\A j \in 1 .. k : ~ Q(j)) /\ w[n] = o
  <2>1. \A j \in 1 .. k - 1 : j + 1 \in 1 .. k
    BY <1>1
  <2>2. \A j \in 1 .. k - 1 : ~ R(j)
    BY <1>1, <1>3, <2>1
  <2>3. 1 \in 1 .. k
    BY <1>1
  <2>4. x[n] = o
    BY <1>2, <1>3, <2>3
  <2>5. QED
    BY <2>2, <2>4 DEF Owned, R
<1>4. CASE \E i \in 1 .. k : Q(i) /\ q[i].to = o /\ \A j \in i + 1 .. k : ~ Q(j)
  <2>1. PICK i \in 1 .. k : Q(i) /\ q[i].to = o /\ \A j \in i + 1 .. k : ~ Q(j)
    BY <1>4
  <2>2. CASE i = 1
    <3>1. \A j \in 1 .. k - 1 : j + 1 \in 1 + 1 .. k
      BY <1>1
    <3>2. \A j \in 1 .. k - 1 : ~ R(j)
      BY <1>1, <2>1, <2>2, <3>1
    <3>3. x[n] = o
      BY <1>2, <2>1, <2>2
    <3>4. QED
      BY <3>2, <3>3 DEF Owned, R
  <2>3. CASE i # 1
    <3>1. PICK h \in 1 .. k - 1 : i = h + 1
      BY <1>1, <2>3
    <3>2. R(h) /\ r[h].to = o
      BY <1>1, <2>1, <3>1
    <3>3. \A j \in h + 1 .. k - 1 : j \in 1 .. k - 1 /\ j + 1 \in i + 1 .. k
      BY <1>1, <3>1
    <3>4. \A j \in h + 1 .. k - 1 : ~ R(j)
      BY <1>1, <2>1, <3>3
    <3>5. QED
      BY <3>2, <3>4 DEF Owned, R
  <2>4. QED
    BY <2>2, <2>3
<1>5. (k + 1) - 1 = k
  BY <1>1
<1>6. QED
  BY <1>3, <1>4, <1>5 DEF Owned, Q

LEMMA OwnedByOne ==
    ASSUME NEW q, NEW w, NEW n, NEW a, NEW b, NEW k \in Nat,
           Owned(q, w, n, a, k), Owned(q, w, n, b, k)
    PROVE  a = b
<1> DEFINE Q(i) == SetsOwner(q[i], n)
           Latest(i, o) == Q(i) /\ q[i].to = o /\ \A j \in i + 1 .. k - 1 : ~ Q(j)
<1>1. CASE \A j \in 1 .. k - 1 : ~ Q(j)
  BY <1>1 DEF Owned
<1>2. CASE (\E i \in 1 .. k - 1 : Latest(i, a)) /\ \E i \in 1 .. k - 1 : Latest(i, b)
  <2>1. PICK i \in 1 .. k - 1 : Latest(i, a)
    BY <1>2
  <2>2. PICK j \in 1 .. k - 1 : Latest(j, b)
    BY <1>2
  <2> HIDE DEF Q
  <2>3. ~ i < j /\ ~ j < i
    BY <2>1, <2>2
  <2>4. i = j
    BY <2>3
  <2>5. QED
    BY <2>1, <2>2, <2>4
<1>3. QED
  BY <1>1, <1>2 DEF Owned

LEMMA HasAppend ==
    ASSUME NEW q \in Seq(Transactions), NEW tx \in Transactions, NEW r, r = Append(q, tx),
           NEW S, NEW kind, NEW n
    PROVE  /\ \A k \in 1 .. Len(q) + 1 : Has(q, S, kind, n, k) => Has(r, S, kind, n, k)
           /\ Has(q, S, kind, n, Len(q) + 1) => Has(r, S, kind, n, Len(r) + 1)
           /\ tx.sets = kind /\ tx.node = n => Has(r, S, kind, n, Len(r) + 1)
<1>1. PICK m \in Nat : m = Len(q)
  BY AppendFacts
<1>2. /\ Len(r) = m + 1 /\ \A i \in 1 .. m : r[i] = q[i]
      /\ r[m + 1] = tx
  BY <1>1, AppendFacts
<1>3. \A k \in 1 .. m + 1 : \A i \in 1 .. k - 1 : i \in 1 .. m
  OBVIOUS
<1>4. /\ \A i \in 1 .. m : i \in 1 .. (m + 1)
      /\ m + 1 \in 1 .. (m + 1) /\ (m + 1) - 1 = m /\ (m + 2) - 1 = m + 1
  OBVIOUS
<1>5. Len(q) + 1 = m + 1 /\ Len(r) + 1 = m + 2
  BY <1>1, <1>2
<1>6. \A k \in 1 .. m + 1 : Has(q, S, kind, n, k) => Has(r, S, kind, n, k)
  BY <1>2, <1>3 DEF Has
<1>7. Has(q, S, kind, n, m + 1) => Has(r, S, kind, n, m + 2)
  BY <1>2, <1>4 DEF Has
<1>8. tx.sets = kind /\ tx.node = n => Has(r, S, kind, n, m + 2)
  BY <1>2, <1>4 DEF Has
<1>9. QED
  BY <1>1, <1>5, <1>6, <1>7, <1>8

(* The first transaction of q leads from S to T. *)
LEMMA HasTail ==
    ASSUME NEW q \in Seq(Transactions), q # <<>>, NEW r, r = Tail(q),
           NEW S, NEW T, S \subseteq T, NEW kind, NEW n,
           q[1].sets = kind /\ q[1].node = n => n \in T,
           NEW k \in 1 .. Len(q), Has(q, S, kind, n, k + 1)
    PROVE  Has(r, T, kind, n, k)
<1>1. /\ Len(q) \in Nat /\ k \in Nat
      /\ \A i \in 1 .. k - 1 : r[i] = q[i + 1]
  BY TailFacts
<1>2. (k + 1) - 1 = k
  BY <1>1
<1>3. CASE n \in S
  BY <1>3 DEF Has
<1>4. CASE \E i \in 1 .. k : q[i].sets = kind /\ q[i].node = n
  <2>1. PICK i \in 1 .. k : q[i].sets = kind /\ q[i].node = n
    BY <1>4
  <2>2. CASE i = 1
    BY <2>1, <2>2 DEF Has
  <2>3. CASE i # 1
    <3>1. PICK h \in 1 .. k - 1 : i = h + 1
      BY <1>1, <2>3
    <3>2. r[h] = q[i]
      BY <1>1, <3>1
    <3>3. QED
      BY <2>1, <3>2 DEF Has
  <2>4. QED
    BY <2>2, <2>3
<1>5. QED
  BY <1>2, <1>3, <1>4 DEF Has

----------------------------------------------------------------------------
(* What is pending, and what a transaction that is pending can count on:   *)
(* S are the namespaces that one had no effect on, M and C those moved and *)
(* copied or among them.                                                   *)
Shape(tx) ==
    /\ tx.sets = "subnodeOwner" => tx.node \in ChildrenOf[tx.by] /\ tx.to = RootOwner
    /\ tx.sets # "subnodeOwner" => tx.by = tx.node
    /\ tx.sets = "owner" => tx.to \in {FirstOwner[tx.node], RootOwner} /\ tx.node # RootNode

Ready(q, w, S, M, C, i) ==
    /\ Shape(q[i])
    /\ q[i].by \in S \/ Owned(q, w, q[i].by, RootOwner, i)
    /\ q[i].sets = "definition" => Has(q, M, "resolver", q[i].node, i)
    /\ q[i].sets = "owner" =>
          \A n \in Nodes : Has(q, M, "resolver", n, i) /\ Has(q, C, "definition", n, i)

LEMMA ReadyAppend ==
    ASSUME NEW q \in Seq(Transactions), NEW tx \in Transactions, NEW r, r = Append(q, tx),
           NEW w, NEW S, NEW M, NEW C,
           \A i \in 1 .. Len(q) : Ready(q, w, S, M, C, i),
           Shape(tx),
           tx.by \in S \/ Owned(q, w, tx.by, RootOwner, Len(q) + 1),
           tx.sets = "definition" => Has(q, M, "resolver", tx.node, Len(q) + 1),
           tx.sets = "owner" =>
             \A n \in Nodes : /\ Has(q, M, "resolver", n, Len(q) + 1)
                              /\ Has(q, C, "definition", n, Len(q) + 1)
    PROVE  \A i \in 1 .. Len(r) : Ready(r, w, S, M, C, i)
<1>1. /\ Len(q) \in Nat /\ Len(r) = Len(q) + 1
      /\ \A i \in 1 .. Len(q) : r[i] = q[i]
      /\ r[Len(q) + 1] = tx
  BY AppendFacts
<1>2. \A n, o : \A k \in 1 .. Len(q) + 1 : Owned(q, w, n, o, k) => Owned(r, w, n, o, k)
  BY OwnedAppend
<1>3. \A kind, n : \A k \in 1 .. Len(q) + 1 :
          /\ Has(q, M, kind, n, k) => Has(r, M, kind, n, k)
          /\ Has(q, C, kind, n, k) => Has(r, C, kind, n, k)
  BY HasAppend
<1>4. ASSUME NEW i \in 1 .. Len(q) PROVE Ready(r, w, S, M, C, i)
  <2>1. r[i] = q[i] /\ i \in 1 .. Len(q) + 1
    BY <1>1
  <2>2. Ready(q, w, S, M, C, i)
    OBVIOUS
  <2>3. QED
    BY <1>2, <1>3, <2>1, <2>2 DEF Ready
<1>5. Ready(r, w, S, M, C, Len(q) + 1)
  <2>1. Len(q) + 1 \in 1 .. Len(q) + 1 /\ r[Len(q) + 1] = tx
    BY <1>1
  <2>2. QED
    BY <1>2, <1>3, <2>1 DEF Ready
<1>6. \A i \in 1 .. Len(r) : i \in 1 .. Len(q) \/ i = Len(q) + 1
  BY <1>1
<1>7. QED
  BY <1>4, <1>5, <1>6

(* The first transaction is mined: with or without effect on the owners w, *)
(* which become x outside of the namespaces Z that it had no effect on.    *)
LEMMA ReadyTail ==
    ASSUME NEW q \in Seq(Transactions), q # <<>>, NEW r, r = Tail(q),
           NEW w, NEW x, NEW S, NEW Z, NEW M, NEW N, NEW C, NEW D,
           S \subseteq Z, M \subseteq N, C \subseteq D,
           \A n \in Nodes \ Z : x[n] = IF SetsOwner(q[1], n) THEN q[1].to ELSE w[n],
           q[1].sets = "resolver" => q[1].node \in N,
           q[1].sets = "definition" => q[1].node \in D,
           \A i \in 1 .. Len(q) : Ready(q, w, S, M, C, i)
    PROVE  \A i \in 1 .. Len(r) : Ready(r, x, Z, N, D, i)
<1> SUFFICES ASSUME NEW i \in 1 .. Len(r)
             PROVE  Ready(r, x, Z, N, D, i)
  OBVIOUS
<1>1. /\ Len(q) \in Nat /\ i \in 1 .. Len(q) /\ i + 1 \in 1 .. Len(q)
      /\ r[i] = q[i + 1] /\ q[i + 1] \in Transactions
  BY TailFacts
<1>2. q[i + 1].by \in Nodes /\ q[i + 1].node \in Nodes
  BY <1>1 DEF Transactions
<1>3. Ready(q, w, S, M, C, i + 1)
  BY <1>1
<1>4. q[i + 1].by \in Z \/ Owned(r, x, q[i + 1].by, RootOwner, i)
  <2>1. PICK b \in Nodes : b = q[i + 1].by
    BY <1>2
  <2>2. CASE b \in Z
    BY <2>1, <2>2
  <2>3. CASE b \notin Z
    <3>1. Owned(q, w, b, RootOwner, i + 1)
      BY <1>3, <2>1, <2>3 DEF Ready
    <3>2. x[b] = IF SetsOwner(q[1], b) THEN q[1].to ELSE w[b]
      BY <2>3
    <3>3. Owned(r, x, b, RootOwner, i)
      BY <1>1, <3>1, <3>2, OwnedTail
    <3>4. QED
      BY <2>1, <3>3
  <2>4. QED
    BY <2>2, <2>3
<1>5. \A n \in Nodes : Has(q, M, "resolver", n, i + 1) => Has(r, N, "resolver", n, i)
  BY <1>1, HasTail
<1>6. \A n \in Nodes : Has(q, C, "definition", n, i + 1) => Has(r, D, "definition", n, i)
  BY <1>1, HasTail
<1>7. QED
  BY <1>1, <1>2, <1>3, <1>4, <1>5, <1>6 DEF Ready

----------------------------------------------------------------------------
TodoFits == doing \in Moving => todo # <<>>

RestoringKnown == \A n \in restoring : owners[n] # Unknown

TypeInv == MigrationTypeOK /\ TodoFits /\ RestoringKnown

LEMMA CopyTodo ==
    ASSUME TypeInv, copy
    PROVE  /\ Head(todo) \in Nodes /\ todo' \in Seq(Nodes)
           /\ ToSet(todo') = ChildrenOf[Head(todo)] \cup ToSet(Tail(todo))
           /\ /\ Distinct(todo)
              /\ ChildrenOf[Head(todo)] \cap ToSet(Tail(todo)) = {}
              => Distinct(todo')
<1>1. todo \in Seq(Nodes) /\ todo # <<>>
  BY DEF TypeInv, MigrationTypeOK, TodoFits, Moving, copy
<1>2. /\ Head(todo) \in Nodes /\ Tail(todo) \in Seq(Nodes)
      /\ Distinct(todo) => Distinct(Tail(todo))
  BY <1>1, HeadTailSets
<1>3. PICK c \in SetToSeqs(ChildrenOf[Head(todo)]) : todo' = c \o Tail(todo)
  BY DEF copy, children
<1>4. c \in Seq(Nodes) /\ ToSet(c) = ChildrenOf[Head(todo)] /\ Distinct(c)
  BY <1>2, ChildrenSeqs
<1> DEFINE r == Tail(todo)
<1>5. /\ c \o r \in Seq(Nodes) /\ ToSet(c \o r) = ToSet(c) \cup ToSet(r)
      /\ Distinct(c) /\ Distinct(r) /\ ToSet(c) \cap ToSet(r) = {} => Distinct(c \o r)
  <2> HIDE DEF r
  <2>1. r \in Seq(Nodes)
    BY <1>2 DEF r
  <2>2. QED
    BY <1>4, <2>1, ConcatSets
<1>6. QED
  BY <1>2, <1>3, <1>4, <1>5

LEMMA TodoHead ==
    ASSUME TypeInv, doing \in Moving
    PROVE  todo \in Seq(Nodes) /\ todo # <<>> /\ Head(todo) \in Nodes /\ Head(todo) \in ToSet(todo)
<1>1. todo \in Seq(Nodes) /\ todo # <<>>
  BY DEF TypeInv, MigrationTypeOK, TodoFits
<1>2. QED
  BY <1>1, HeadTailSets

(* What the program sends, and the queue with it. *)
LEMMA SubmitTypes ==
    ASSUME TypeInv, NEW sets \in {"resolver", "definition", "subnodeOwner", "owner"},
           NEW by \in Nodes, NEW node \in Nodes, NEW to \in Owners
    PROVE  /\ Transaction(sets, by, node, to) \in Transactions
           /\ Submit(Transaction(sets, by, node, to)) =>
                 submitted' = Append(submitted, Transaction(sets, by, node, to))
           /\ Submit(Transaction(sets, by, node, to)) => submitted' \in Seq(Transactions)
<1> DEFINE tx == Transaction(sets, by, node, to)
<1>1. tx \in Transactions
  BY DEF Transactions, Transaction
<1>2. Submit(tx) => submitted' = Append(submitted, tx)
  BY DEF Submit
<1> HIDE DEF tx
<1>3. submitted \in Seq(Transactions)
  BY DEF TypeInv, MigrationTypeOK
<1>4. Append(submitted, tx) \in Seq(Transactions)
  BY <1>1, <1>3, AppendFacts
<1>5. QED
  BY <1>1, <1>2, <1>4 DEF tx

(* What the chain mines. *)
LEMMA MinedTypes ==
    ASSUME TypeInv, submitted # <<>>
    PROVE  /\ Head(submitted) \in Transactions /\ Tail(submitted) \in Seq(Transactions)
           /\ Head(submitted).by \in Nodes /\ Head(submitted).node \in Nodes
           /\ Head(submitted).to \in Owners
<1>1. Head(submitted) \in Transactions /\ Tail(submitted) \in Seq(Transactions)
  BY TailFacts DEF TypeInv, MigrationTypeOK
<1>2. QED
  BY <1>1 DEF Transactions

LEMMA TypeInvHolds == MigrationSpec => []TypeInv
<1>1. MigrationInit => TypeInv
  BY DEF MigrationInit, TypeInv, MigrationTypeOK, TodoFits, RestoringKnown, Moving, Forgetful
<1>2. TypeInv /\ [MigrationNext]_migrationVars => TypeInv'
  <2> SUFFICES ASSUME TypeInv, [MigrationNext]_migrationVars
               PROVE  TypeInv'
    OBVIOUS
  <2>a. MigrationTypeOK /\ TodoFits /\ RestoringKnown
    BY DEF TypeInv
  <2> USE DEF MigrationTypeOK, TodoFits, RestoringKnown, registryVars, Moving
  <2>1. CASE changeResolver
    <3>1. <<RootNode>> \in Seq(Nodes) /\ <<RootNode>> # <<>>
      OBVIOUS
    <3>2. QED
      BY <2>a, <2>1, <3>1 DEF changeResolver, TypeInv
  <2>2. CASE setResolver
    <3>1. Head(todo) \in Nodes
      BY <2>2, TodoHead DEF setResolver
    <3>2. submitted' \in Seq(Transactions)
      BY <2>2, <3>1, SubmitTypes DEF setResolver
    <3>3. QED
      BY <2>a, <2>2, <3>2 DEF setResolver, TypeInv
  <2>3. CASE copy
    <3>1. Head(todo) \in Nodes /\ todo' \in Seq(Nodes)
      BY <2>3, CopyTodo
    <3>2. submitted' \in Seq(Transactions)
      BY <2>3, <3>1, SubmitTypes DEF copy
    <3>3. QED
      BY <2>a, <2>3, <3>1, <3>2 DEF copy, TypeInv
  <2>4. CASE readOwner
    <3>1. PICK n \in Nodes : n = Head(todo)
      BY <2>4, TodoHead DEF readOwner
    <3>2. nodeOwner[n] \in Owners
      BY <2>a
    <3>3. owners' = [owners EXCEPT ![n] = nodeOwner[n]] /\ lost' \in {lost, lost \cup {n}}
      BY <2>4, <3>1 DEF readOwner
    <3>4. QED
      BY <2>a, <2>4, <3>2, <3>3 DEF readOwner, TypeInv
  <2>5. CASE setSubnodeOwner
    <3>1. PICK p \in Nodes : Submit(Transaction("subnodeOwner", p, Head(todo), RootOwner))
      BY <2>5 DEF setSubnodeOwner
    <3>2. Head(todo) \in Nodes
      BY <2>5, TodoHead DEF setSubnodeOwner
    <3>3. submitted' \in Seq(Transactions)
      BY <3>1, <3>2, SubmitTypes
    <3>4. QED
      BY <2>a, <2>5, <3>3 DEF setSubnodeOwner, TypeInv
  <2>6. CASE restoreOwners
    <3>1. PICK n \in restoring :
             Submit(Transaction("owner", n, n, owners[n])) /\ restoring' = restoring \ {n}
      BY <2>6 DEF restoreOwners
    <3>2. n \in Nodes /\ owners[n] \in Owners
      BY <2>a
    <3>3. submitted' \in Seq(Transactions)
      BY <3>1, <3>2, SubmitTypes
    <3>4. QED
      BY <2>a, <2>6, <3>1, <3>3 DEF restoreOwners, TypeInv
  <2>7. CASE Finish
    BY <2>a, <2>7 DEF Finish, TypeInv
  <2>8. CASE RunFails
    <3>1. owners' \in [Nodes -> Owners \cup {Unknown}]
      BY <2>a, <2>8 DEF RunFails, Forgetful
    <3>2. QED
      BY <2>a, <2>8, <3>1 DEF RunFails, TypeInv
  <2>9. CASE TakesEffect
    <3>1. PICK tx \in Transactions : tx = Head(submitted)
      BY <2>9, MinedTypes DEF TakesEffect
    <3>2. tx.node \in Nodes /\ tx.to \in Owners /\ Tail(submitted) \in Seq(Transactions)
      BY <2>9, <3>1, MinedTypes DEF TakesEffect
    <3>3. nodeOwner' \in [Nodes -> Owners] /\ moved' \subseteq Nodes /\ copied' \subseteq Nodes
      BY <2>a, <2>9, <3>1, <3>2 DEF TakesEffect
    <3>4. QED
      BY <2>a, <2>9, <3>2, <3>3 DEF TakesEffect, runVars, TypeInv
  <2>10. CASE Fails
    <3>1. Head(submitted).node \in Nodes /\ Tail(submitted) \in Seq(Transactions)
      BY <2>10, MinedTypes DEF Fails
    <3>2. QED
      BY <2>a, <2>10, <3>1 DEF Fails, runVars, TypeInv
  <2>11. CASE Reverts
    <3>1. Head(submitted).node \in Nodes /\ Tail(submitted) \in Seq(Transactions)
      BY <2>11, MinedTypes DEF Reverts
    <3>2. QED
      BY <2>a, <2>11, <3>1 DEF Reverts, runVars, TypeInv
  <2>12. CASE UNCHANGED migrationVars
    BY <2>a, <2>12 DEF migrationVars, runVars, TypeInv
  <2>13. QED
    BY <2>1, <2>2, <2>3, <2>4, <2>5, <2>6, <2>7, <2>8, <2>9, <2>10, <2>11, <2>12
       DEF MigrationNext
<1>3. QED
  BY <1>1, <1>2, PTL DEF MigrationSpec

(* Every variable keeps its type, for any tree, owners and number of runs  *)
(* and of pending transactions.                                            *)
THEOREM TypeCorrect == MigrationSpec => []MigrationTypeOK
<1>1. TypeInv => MigrationTypeOK
  BY DEF TypeInv
<1>2. QED
  BY <1>1, TypeInvHolds, PTL

----------------------------------------------------------------------------
(* A namespace: whether a transaction about it had no effect; whether it   *)
(* is the script's, its first owner's, moved or copied with all that is    *)
(* pending.                                                                *)
Spoilt == failed \cup reverted
Exempt == lost \cup Spoilt
Scripts(n) == n \in Spoilt \/ Owned(submitted, nodeOwner, n, RootOwner, Len(submitted) + 1)
Firsts(n) == Owned(submitted, nodeOwner, n, FirstOwner[n], Len(submitted) + 1)
Moves(n) == Has(submitted, moved \cup Spoilt, "resolver", n, Len(submitted) + 1)
Copies(n) == Has(submitted, copied \cup Spoilt, "definition", n, Len(submitted) + 1)

QueueInv ==
    \A i \in 1 .. Len(submitted) :
        Ready(submitted, nodeOwner, Spoilt, moved \cup Spoilt, copied \cup Spoilt, i)

(* What was so stays so. *)
Stays == \A n \in Nodes :
    /\ Scripts(n) => Scripts(n)'
    /\ Firsts(n) => n \in Spoilt' \/ Firsts(n)'
    /\ Moves(n) => Moves(n)'
    /\ Copies(n) => Copies(n)'

registryAll == <<nodeOwner, moved, copied, submitted, failed, reverted>>

LEMMA RegistryRests ==
    ASSUME QueueInv, UNCHANGED registryAll
    PROVE  /\ QueueInv' /\ Stays /\ Spoilt' = Spoilt
           /\ \A n \in Nodes : Firsts(n) <=> Firsts(n)'
<1>1. UNCHANGED <<nodeOwner, moved, copied, submitted, failed, reverted>>
  BY DEF registryAll
<1>2. QED
  BY <1>1 DEF QueueInv, Stays, Spoilt, Scripts, Firsts, Moves, Copies

(* A transaction more is pending. *)
Adds(tx) == \A n \in Nodes :
    /\ Moves(n) => Moves(n)'
    /\ Copies(n) => Copies(n)'
    /\ ~ SetsOwner(tx, n) => (Scripts(n) => Scripts(n)')
    /\ ~ SetsOwner(tx, n) => (Firsts(n) => Firsts(n)')
    /\ SetsOwner(tx, n) /\ tx.to = RootOwner => Scripts(n)'
    /\ SetsOwner(tx, n) /\ tx.to = FirstOwner[n] => Firsts(n)'
    /\ tx.sets = "resolver" /\ tx.node = n => Moves(n)'
    /\ tx.sets = "definition" /\ tx.node = n => Copies(n)'

(* The program sends a transaction that is Ready. *)
LEMMA Submits ==
    ASSUME TypeInv, QueueInv, UNCHANGED <<nodeOwner, moved, copied, failed, reverted>>,
           NEW tx \in Transactions, submitted' = Append(submitted, tx),
           Shape(tx), Scripts(tx.by),
           tx.sets = "definition" => Moves(tx.node),
           tx.sets = "owner" => \A n \in Nodes : Moves(n) /\ Copies(n)
    PROVE  QueueInv' /\ Spoilt' = Spoilt /\ Adds(tx)
<1>1. PICK q \in Seq(Transactions) : q = submitted
  BY DEF TypeInv, MigrationTypeOK
<1>2. PICK w : w = nodeOwner
  OBVIOUS
<1>3. PICK S, M, C : S = Spoilt /\ M = moved \cup Spoilt /\ C = copied \cup Spoilt
  OBVIOUS
<1>4. PICK r : r = Append(q, tx)
  OBVIOUS
<1>5. /\ submitted' = r /\ nodeOwner' = w
      /\ Spoilt' = S /\ (moved \cup Spoilt)' = M /\ (copied \cup Spoilt)' = C
  BY <1>1, <1>2, <1>3, <1>4 DEF Spoilt
<1>6. /\ \A i \in 1 .. Len(q) : Ready(q, w, S, M, C, i)
      /\ tx.by \in S \/ Owned(q, w, tx.by, RootOwner, Len(q) + 1)
      /\ tx.sets = "definition" => Has(q, M, "resolver", tx.node, Len(q) + 1)
      /\ tx.sets = "owner" =>
            \A n \in Nodes : /\ Has(q, M, "resolver", n, Len(q) + 1)
                             /\ Has(q, C, "definition", n, Len(q) + 1)
  BY <1>1, <1>2, <1>3 DEF QueueInv, Scripts, Moves, Copies
<1>7. \A i \in 1 .. Len(r) : Ready(r, w, S, M, C, i)
  BY <1>4, <1>6, ReadyAppend
<1>8. QueueInv'
  BY <1>5, <1>7 DEF QueueInv
<1>9. ASSUME NEW n \in Nodes
      PROVE  /\ Moves(n) => Moves(n)'
             /\ Copies(n) => Copies(n)'
             /\ tx.sets = "resolver" /\ tx.node = n => Moves(n)'
             /\ tx.sets = "definition" /\ tx.node = n => Copies(n)'
  <2>1. /\ Moves(n) <=> Has(q, M, "resolver", n, Len(q) + 1)
        /\ Copies(n) <=> Has(q, C, "definition", n, Len(q) + 1)
        /\ Moves(n)' <=> Has(r, M, "resolver", n, Len(r) + 1)
        /\ Copies(n)' <=> Has(r, C, "definition", n, Len(r) + 1)
    BY <1>1, <1>3, <1>5 DEF Moves, Copies
  <2>2. QED
    BY <1>4, <2>1, HasAppend
<1>10. ASSUME NEW n \in Nodes
       PROVE  /\ ~ SetsOwner(tx, n) => (Scripts(n) => Scripts(n)')
              /\ ~ SetsOwner(tx, n) => (Firsts(n) => Firsts(n)')
              /\ SetsOwner(tx, n) /\ tx.to = RootOwner => Scripts(n)'
              /\ SetsOwner(tx, n) /\ tx.to = FirstOwner[n] => Firsts(n)'
  <2>1. /\ Scripts(n) <=> n \in S \/ Owned(q, w, n, RootOwner, Len(q) + 1)
        /\ Firsts(n) <=> Owned(q, w, n, FirstOwner[n], Len(q) + 1)
        /\ Scripts(n)' <=> n \in S \/ Owned(r, w, n, RootOwner, Len(r) + 1)
        /\ Firsts(n)' <=> Owned(r, w, n, FirstOwner[n], Len(r) + 1)
    BY <1>1, <1>2, <1>3, <1>5 DEF Scripts, Firsts
  <2>2. QED
    BY <1>4, <2>1, OwnedAppend
<1>11. QED
  BY <1>3, <1>5, <1>8, <1>9, <1>10 DEF Adds

(* The chain mines one, with or without effect. *)
Mines == TakesEffect \/ Fails \/ Reverts

LEMMA Mining ==
    ASSUME TypeInv, QueueInv, Mines
    PROVE  QueueInv' /\ Stays /\ Spoilt \subseteq Spoilt' /\ UNCHANGED runVars /\ lost' = lost
<1>1. submitted # <<>> /\ submitted' = Tail(submitted) /\ UNCHANGED runVars /\ lost' = lost
  BY DEF Mines, TakesEffect, Fails, Reverts
<1>2. PICK q \in Seq(Transactions) : q = submitted
  BY DEF TypeInv, MigrationTypeOK
<1>3. PICK r : r = Tail(q)
  OBVIOUS
<1>4. PICK t \in Transactions : t = q[1] /\ t = Head(submitted)
  BY <1>1, <1>2, TailFacts
<1>5. PICK w, x : w = nodeOwner /\ x = nodeOwner'
  OBVIOUS
<1>6. PICK S, M, C : S = Spoilt /\ M = moved \cup Spoilt /\ C = copied \cup Spoilt
  OBVIOUS
<1>7. PICK Z, N, D : Z = Spoilt' /\ N = (moved \cup Spoilt)' /\ D = (copied \cup Spoilt)'
  OBVIOUS
<1>8. /\ S \subseteq Z /\ M \subseteq N /\ C \subseteq D
      /\ t.sets = "resolver" => t.node \in N
      /\ t.sets = "definition" => t.node \in D
  BY <1>4, <1>6, <1>7 DEF Mines, TakesEffect, Fails, Reverts, registryVars, Spoilt
<1>9. \A n \in Nodes \ Z : x[n] = IF SetsOwner(t, n) THEN t.to ELSE w[n]
  <2>1. CASE TakesEffect
    <3>1. nodeOwner \in [Nodes -> Owners] /\ t.node \in Nodes
      BY DEF TypeInv, MigrationTypeOK, Transactions
    <3>2. x = IF SetsOwner(t, t.node) THEN [w EXCEPT ![t.node] = t.to] ELSE w
      BY <1>4, <1>5, <2>1 DEF TakesEffect
    <3>3. \A n \in Nodes : SetsOwner(t, n) <=> n = t.node /\ SetsOwner(t, t.node)
      BY DEF SetsOwner
    <3>4. QED
      BY <1>5, <3>1, <3>2, <3>3
  <2>2. CASE Fails \/ Reverts
    <3>1. t.node \in Z /\ x = w
      BY <1>4, <1>5, <1>7, <2>2 DEF Fails, Reverts, registryVars, Spoilt
    <3>2. \A n \in Nodes \ Z : ~ SetsOwner(t, n)
      BY <3>1 DEF SetsOwner
    <3>3. QED
      BY <3>1, <3>2
  <2>3. QED
    BY <2>1, <2>2 DEF Mines
<1>10. /\ Len(q) \in Nat /\ Len(q) > 0 /\ Len(r) = Len(q) - 1 /\ Len(r) + 1 = Len(q)
       /\ Len(q) \in 1 .. Len(q) /\ q # <<>>
  BY <1>1, <1>2, <1>3, TailFacts
<1>11. QueueInv'
  <2>1. \A i \in 1 .. Len(q) : Ready(q, w, S, M, C, i)
    BY <1>2, <1>5, <1>6 DEF QueueInv
  <2>2. /\ \A n \in Nodes \ Z : x[n] = IF SetsOwner(q[1], n) THEN q[1].to ELSE w[n]
        /\ q[1].sets = "resolver" => q[1].node \in N
        /\ q[1].sets = "definition" => q[1].node \in D
    BY <1>4, <1>8, <1>9
  <2>3. S \subseteq Z /\ M \subseteq N /\ C \subseteq D /\ q # <<>>
    BY <1>8, <1>10
  <2>4. \A i \in 1 .. Len(r) : Ready(r, x, Z, N, D, i)
    BY ONLY <1>3, <2>1, <2>2, <2>3, ReadyTail, q \in Seq(Transactions)
  <2>5. QED
    BY <1>1, <1>2, <1>3, <1>5, <1>7, <2>4 DEF QueueInv
<1>12. Stays
  <2> SUFFICES ASSUME NEW n \in Nodes
               PROVE  /\ Scripts(n) => Scripts(n)'
                      /\ Firsts(n) => n \in Spoilt' \/ Firsts(n)'
                      /\ Moves(n) => Moves(n)'
                      /\ Copies(n) => Copies(n)'
    BY DEF Stays
  <2>1. /\ Scripts(n) <=> n \in S \/ Owned(q, w, n, RootOwner, Len(q) + 1)
        /\ Firsts(n) <=> Owned(q, w, n, FirstOwner[n], Len(q) + 1)
        /\ Moves(n) <=> Has(q, M, "resolver", n, Len(q) + 1)
        /\ Copies(n) <=> Has(q, C, "definition", n, Len(q) + 1)
    BY <1>2, <1>5, <1>6 DEF Scripts, Firsts, Moves, Copies
  <2>2. /\ Scripts(n)' <=> n \in Z \/ Owned(r, x, n, RootOwner, Len(r) + 1)
        /\ Firsts(n)' <=> Owned(r, x, n, FirstOwner[n], Len(r) + 1)
        /\ Moves(n)' <=> Has(r, N, "resolver", n, Len(r) + 1)
        /\ Copies(n)' <=> Has(r, D, "definition", n, Len(r) + 1)
    BY <1>1, <1>2, <1>3, <1>5, <1>7 DEF Scripts, Firsts, Moves, Copies
  <2>3. n \notin Z => \A o : Owned(q, w, n, o, Len(q) + 1) => Owned(r, x, n, o, Len(q))
    <3>1. n \notin Z => x[n] = IF SetsOwner(q[1], n) THEN q[1].to ELSE w[n]
      BY <1>4, <1>9
    <3>2. QED
      BY <1>3, <1>10, <3>1, OwnedTail
  <2>4. /\ Has(q, M, "resolver", n, Len(q) + 1) => Has(r, N, "resolver", n, Len(q))
        /\ Has(q, C, "definition", n, Len(q) + 1) => Has(r, D, "definition", n, Len(q))
    BY <1>3, <1>4, <1>8, <1>10, HasTail
  <2>5. QED
    BY <1>7, <1>8, <1>10, <2>1, <2>2, <2>3, <2>4
<1>13. QED
  BY <1>1, <1>6, <1>7, <1>8, <1>11, <1>12

----------------------------------------------------------------------------
(* The script's account and the first owner are the only ones to own a     *)
(* namespace.                                                              *)
TwoOwners ==
    /\ \A n \in Nodes : /\ nodeOwner[n] \in {FirstOwner[n], RootOwner}
                        /\ owners[n] \in {Unknown, FirstOwner[n], RootOwner}
    /\ owners[RootNode] = Unknown

OnlyFirsts == \A n \in Nodes \ Exempt : owners[n] \in {Unknown, FirstOwner[n]}

AtRest == doing = "nothing" => \A n \in Nodes \ Exempt : Firsts(n)

(* V is what the run has come through, t what it has still to come to:     *)
(* whatever is below V is in V or in t, each namespace once, because it    *)
(* has one parent only.                                                    *)
Path(V, t) ==
    /\ RootNode \in V \cup ToSet(t)
    /\ \A n \in V : ChildrenOf[n] \subseteq V \cup ToSet(t)
    /\ V \cap ToSet(t) = {}
    /\ Distinct(t)
    /\ \A x \in V \cup ToSet(t) : x = RootNode \/ \E p \in V : x \in ChildrenOf[p]

AtHand(h) == IF doing \in {"setResolver", "copy"} THEN {h} ELSE {}

Walk(V, h) ==
    /\ Path(V, todo)
    /\ h = Head(todo) /\ RootNode \in V \cup {h}
    /\ \A n \in V : Moves(n) /\ Copies(n) /\ Scripts(n)
    /\ doing = "setResolver" => h = RootNode \/ Scripts(h)
    /\ doing = "copy" => Moves(h) /\ Scripts(h)
    /\ doing \in {"readOwner", "setSubnodeOwner"} => h # RootNode
    /\ doing = "setSubnodeOwner" /\ h \notin Exempt => owners[h] = FirstOwner[h]
    /\ \A n \in Nodes \ Exempt :
          Firsts(n) \/ (owners[n] = FirstOwner[n] /\ n \in V \cup AtHand(h))

Restores == \A n \in Nodes :
    /\ Moves(n) /\ Copies(n)
    /\ n \in restoring => Scripts(n)
    /\ n \notin Exempt => Firsts(n) \/ (owners[n] = FirstOwner[n] /\ n \in restoring)

RunInv ==
    /\ TwoOwners /\ OnlyFirsts /\ AtRest
    /\ doing \in Moving => \E V \in SUBSET Nodes, h \in Nodes : Walk(V, h)
    /\ doing = "restoreOwners" => Restores

IInv == TypeInv /\ QueueInv /\ RunInv

LEMMA WillOwnOwned ==
    ASSUME NEW n, NEW o
    PROVE  WillOwn(n, o) <=> Owned(submitted, nodeOwner, n, o, Len(submitted) + 1)
  BY DEF WillOwn, OwnsBefore, Owned

LEMMA NoSets == ToSet(<<>>) = {} /\ Distinct(<<>>)
  BY DEF ToSet, Distinct

LEMMA OneSets ==
    ASSUME NEW x
    PROVE  ToSet(<<x>>) = {x} /\ Distinct(<<x>>)
<1>1. DOMAIN <<x>> = 1 .. 1 /\ <<x>>[1] = x
  OBVIOUS
<1>2. \A i \in 1 .. 1 : i = 1
  OBVIOUS
<1>3. 1 \in 1 .. 1
  OBVIOUS
<1>4. QED
  BY <1>1, <1>2, <1>3 DEF ToSet, Distinct

(* One more namespace, its children put before the others. *)
LEMMA CopyPath ==
    ASSUME TypeInv, copy, NEW V \in SUBSET Nodes, Path(V, todo), NEW h \in Nodes, h = Head(todo),
           NEW W, W = V \cup {h}, NEW t, t = todo'
    PROVE  Path(W, t)
<1>1. todo \in Seq(Nodes) /\ todo # <<>>
  BY TodoHead DEF copy, Moving
<1> DEFINE r == ToSet(Tail(todo))
<1>2. ToSet(todo) = {h} \cup r /\ (Distinct(todo) => h \notin r)
  BY <1>1, HeadTailSets
<1>3. /\ ToSet(t) = ChildrenOf[h] \cup r
      /\ Distinct(todo) /\ ChildrenOf[h] \cap r = {} => Distinct(t)
  BY CopyTodo
<1> HIDE DEF r
<1>4. h \notin V /\ h \notin r /\ V \cap r = {}
  BY <1>2 DEF Path
<1>5. ASSUME NEW x \in V \cup {h} \cup r PROVE x \notin ChildrenOf[h]
  <2>1. x = RootNode \/ \E p \in V : x \in ChildrenOf[p]
    BY <1>2 DEF Path
  <2>2. \A p \in V : x \in ChildrenOf[p] => x \notin ChildrenOf[h]
    BY <1>4, MigrationTree
  <2>3. QED
    BY <2>1, <2>2, MigrationTree
<1>6. RootNode \in W \cup ToSet(t)
  BY <1>2, <1>3 DEF Path
<1>7. \A n \in W : ChildrenOf[n] \subseteq W \cup ToSet(t)
  BY <1>2, <1>3 DEF Path
<1>8. W \cap ToSet(t) = {}
  BY <1>3, <1>4, <1>5
<1>9. Distinct(t)
  BY <1>3, <1>5 DEF Path
<1>10. \A x \in W \cup ToSet(t) : x = RootNode \/ \E p \in W : x \in ChildrenOf[p]
  BY <1>2, <1>3 DEF Path
<1>11. QED
  BY <1>6, <1>7, <1>8, <1>9, <1>10 DEF Path

(* Below the root is every namespace. *)
LEMMA WholePath ==
    ASSUME NEW V \in SUBSET Nodes, Path(V, <<>>)
    PROVE  V = Nodes
<1>1. RootNode \in V /\ \A n \in V : ChildrenOf[n] \subseteq V
  BY NoSets DEF Path
<1>2. QED
  BY <1>1, MigrationTree

(* The head of todo is none of those that the run has come through. *)
LEMMA HeadIsNew ==
    ASSUME TypeInv, doing \in Moving, NEW V \in SUBSET Nodes, NEW h \in Nodes, Walk(V, h)
    PROVE  /\ h \notin V /\ h \in ToSet(todo)
           /\ h = RootNode \/ \E p \in V : h \in ChildrenOf[p]
  BY TodoHead DEF Walk, Path

(* The root belongs to whom it belonged: no transaction sets its owner. *)
LEMMA RootOwned ==
    ASSUME TypeInv, QueueInv,
           \E k \in 1 .. Len(submitted) + 1 : OwnsBefore(RootNode, RootOwner, k)
    PROVE  Scripts(RootNode)
<1>1. ASSUME NEW i \in 1 .. Len(submitted) PROVE ~ SetsOwner(submitted[i], RootNode)
  <2>1. submitted[i] \in Transactions
    BY DEF TypeInv, MigrationTypeOK
  <2>2. submitted[i].by \in Nodes
    BY <2>1 DEF Transactions
  <2>3. Shape(submitted[i])
    BY DEF QueueInv, Ready
  <2>4. QED
    BY <2>2, <2>3, MigrationTree DEF Shape, SetsOwner
<1>2. Len(submitted) \in Nat
  BY DEF TypeInv, MigrationTypeOK
<1>3. PICK k \in 1 .. Len(submitted) + 1 : OwnsBefore(RootNode, RootOwner, k)
  OBVIOUS
<1>4. \A j \in 1 .. k - 1 : j \in 1 .. Len(submitted)
  BY <1>2
<1>5. nodeOwner[RootNode] = RootOwner
  BY <1>1, <1>3, <1>4 DEF OwnsBefore
<1>6. (Len(submitted) + 1) - 1 = Len(submitted)
  BY <1>2
<1>7. QED
  BY <1>1, <1>5, <1>6 DEF Scripts, Owned

(* The run does nothing while the chain goes on. *)
LEMMA RunRests ==
    ASSUME RunInv, Stays, Spoilt \subseteq Spoilt', UNCHANGED runVars, lost' = lost, TwoOwners'
    PROVE  RunInv'
<1>1. UNCHANGED <<owners, todo, restoring, doing>> /\ Exempt \subseteq Exempt'
  BY DEF runVars, Exempt
<1>2. ASSUME NEW V \in SUBSET Nodes, NEW h \in Nodes, Walk(V, h) PROVE Walk(V, h)'
  <2>1. \A n \in Nodes \ Exempt' : Firsts(n) => Firsts(n)'
    BY DEF Stays, Exempt
  <2>2. \A n \in Nodes : /\ Scripts(n) => Scripts(n)'
                         /\ Moves(n) => Moves(n)'
                         /\ Copies(n) => Copies(n)'
    BY DEF Stays
  <2>3. QED
    BY <1>1, <1>2, <2>1, <2>2 DEF Walk, AtHand
<1>3. doing \in Moving => (\E V \in SUBSET Nodes, h \in Nodes : Walk(V, h))'
  BY <1>2 DEF RunInv
<1>4. Restores => Restores'
  BY <1>1 DEF Restores, Stays, Exempt
<1>5. OnlyFirsts' /\ AtRest'
  BY <1>1 DEF RunInv, OnlyFirsts, AtRest, Stays, Exempt
<1>6. QED
  BY <1>1, <1>3, <1>4, <1>5 DEF RunInv

----------------------------------------------------------------------------
LEMMA BeginStep ==
    ASSUME IInv, changeResolver
    PROVE  QueueInv' /\ RunInv'
<1>1. /\ QueueInv' /\ Stays /\ Spoilt' = Spoilt
      /\ \A n \in Nodes : Firsts(n) => Firsts(n)'
  BY RegistryRests DEF IInv, changeResolver, registryVars, registryAll
<1>2. /\ doing = "nothing" /\ doing' = "setResolver" /\ todo' = <<RootNode>>
      /\ UNCHANGED <<nodeOwner, owners, lost>> /\ Exempt' = Exempt
  BY <1>1 DEF changeResolver, registryVars, Exempt
<1>3. ToSet(todo') = {RootNode} /\ Distinct(todo') /\ Head(todo') = RootNode
  BY <1>2, OneSets
<1>4. PICK V \in SUBSET Nodes : V = {}
  OBVIOUS
<1>5. Path(V, todo')
  BY <1>3, <1>4 DEF Path
<1>6. Walk(V, RootNode)'
  BY <1>1, <1>2, <1>3, <1>4, <1>5 DEF IInv, RunInv, AtRest, Walk
<1>7. (\E W \in SUBSET Nodes, h \in Nodes : Walk(W, h))'
  BY <1>6
<1>8. QED
  BY <1>1, <1>2, <1>7 DEF IInv, RunInv, TwoOwners, OnlyFirsts, AtRest

LEMMA SetResolverStep ==
    ASSUME IInv, setResolver
    PROVE  QueueInv' /\ RunInv'
<1>1. /\ doing = "setResolver" /\ doing' = "copy" /\ doing \in Moving
      /\ UNCHANGED <<nodeOwner, moved, copied, failed, reverted, owners, todo, lost>>
  BY DEF setResolver, registryVars, Moving
<1>2. PICK V \in SUBSET Nodes, h \in Nodes : Walk(V, h)
  BY <1>1 DEF IInv, RunInv
<1>3. Submit(Transaction("resolver", h, h, RootOwner)) /\ h = Head(todo)
  BY <1>2 DEF setResolver, Walk
<1>4. PICK tx \in Transactions :
          /\ tx = Transaction("resolver", h, h, RootOwner)
          /\ Submit(tx) /\ submitted' = Append(submitted, tx)
  BY <1>3, SubmitTypes DEF IInv
<1>5. tx.sets = "resolver" /\ tx.by = h /\ tx.node = h /\ Shape(tx) /\ \A n : ~ SetsOwner(tx, n)
  BY <1>4 DEF Transaction, Shape, SetsOwner
<1>6. \E k \in 1 .. Len(submitted) + 1 : OwnsBefore(tx.by, RootOwner, k)
  BY <1>4 DEF Submit
<1>7. Scripts(h)
  <2>1. CASE h = RootNode
    BY <1>3, <1>5, <1>6, <2>1, RootOwned DEF IInv
  <2>2. CASE h # RootNode
    BY <1>1, <1>2, <2>2 DEF Walk
  <2>3. QED
    BY <2>1, <2>2
<1>8. /\ QueueInv' /\ Spoilt' = Spoilt
      /\ \A n \in Nodes : /\ Scripts(n) => Scripts(n)'
                          /\ Firsts(n) => Firsts(n)'
                          /\ Moves(n) => Moves(n)'
                          /\ Copies(n) => Copies(n)'
      /\ Moves(h)'
  <2>1. TypeInv /\ QueueInv /\ UNCHANGED <<nodeOwner, moved, copied, failed, reverted>>
    BY <1>1 DEF IInv
  <2>2. /\ Shape(tx) /\ Scripts(tx.by)
        /\ tx.sets = "definition" => Moves(tx.node)
        /\ tx.sets = "owner" => \A n \in Nodes : Moves(n) /\ Copies(n)
    BY <1>5, <1>7
  <2>3. QueueInv' /\ Spoilt' = Spoilt /\ Adds(tx)
    BY <2>1, <2>2, <1>4, Submits
  <2>4. ASSUME NEW n \in Nodes
        PROVE  /\ Scripts(n) => Scripts(n)'
               /\ Firsts(n) => Firsts(n)'
               /\ Moves(n) => Moves(n)'
               /\ Copies(n) => Copies(n)'
    BY <2>3, <1>5 DEF Adds
  <2>5. Moves(h)'
    BY <2>3, <1>5, h \in Nodes DEF Adds, Moves
  <2>6. QED
    BY <2>3, <2>4, <2>5
<1>9. Exempt' = Exempt
  BY <1>1, <1>8 DEF Exempt
<1>10. Walk(V, h)'
  BY <1>1, <1>2, <1>7, <1>8, <1>9 DEF Walk, AtHand
<1>11. (\E W \in SUBSET Nodes, x \in Nodes : Walk(W, x))'
  BY <1>10
<1>12. QED
  BY <1>1, <1>8, <1>9, <1>11 DEF IInv, RunInv, TwoOwners, OnlyFirsts, AtRest

LEMMA CopyStep ==
    ASSUME IInv, copy, TypeInv'
    PROVE  QueueInv' /\ RunInv'
<1>1. /\ doing = "copy" /\ doing \in Moving
      /\ UNCHANGED <<nodeOwner, moved, copied, failed, reverted, owners, lost>>
  BY DEF copy, registryVars, Moving
<1>2. PICK V \in SUBSET Nodes, h \in Nodes : Walk(V, h)
  BY <1>1 DEF IInv, RunInv
<1>3. Submit(Transaction("definition", h, h, RootOwner)) /\ h = Head(todo)
  BY <1>2 DEF copy, Walk
<1>4. PICK tx \in Transactions :
          /\ tx = Transaction("definition", h, h, RootOwner)
          /\ submitted' = Append(submitted, tx)
  BY <1>3, SubmitTypes DEF IInv
<1>5. tx.sets = "definition" /\ tx.by = h /\ tx.node = h /\ Shape(tx) /\ \A n : ~ SetsOwner(tx, n)
  BY <1>4 DEF Transaction, Shape, SetsOwner
<1>6. Scripts(h) /\ Moves(h)
  BY <1>1, <1>2 DEF Walk
<1>7. /\ QueueInv' /\ Spoilt' = Spoilt
      /\ \A n \in Nodes : /\ Scripts(n) => Scripts(n)'
                          /\ Firsts(n) => Firsts(n)'
                          /\ Moves(n) => Moves(n)'
                          /\ Copies(n) => Copies(n)'
      /\ Copies(h)'
  <2>1. TypeInv /\ QueueInv /\ UNCHANGED <<nodeOwner, moved, copied, failed, reverted>>
    BY <1>1 DEF IInv
  <2>2. /\ Shape(tx) /\ Scripts(tx.by)
        /\ tx.sets = "definition" => Moves(tx.node)
        /\ tx.sets = "owner" => \A n \in Nodes : Moves(n) /\ Copies(n)
    BY <1>5, <1>6
  <2>3. QueueInv' /\ Spoilt' = Spoilt /\ Adds(tx)
    BY <2>1, <2>2, <1>4, Submits
  <2>4. ASSUME NEW n \in Nodes
        PROVE  /\ Scripts(n) => Scripts(n)'
               /\ Firsts(n) => Firsts(n)'
               /\ Moves(n) => Moves(n)'
               /\ Copies(n) => Copies(n)'
    BY <2>3, <1>5 DEF Adds
  <2>5. Copies(h)'
    BY <2>3, <1>5, h \in Nodes DEF Adds, Copies
  <2>6. QED
    BY <2>3, <2>4, <2>5
<1>8. Exempt' = Exempt
  BY <1>1, <1>7 DEF Exempt
<1>9. PICK W \in SUBSET Nodes : W = V \cup {h}
  OBVIOUS
<1>10. PICK t : t = todo'
  OBVIOUS
<1>11. Path(W, t)
  BY <1>2, <1>3, <1>9, <1>10, CopyPath DEF IInv, Walk
<1>12. \A n \in W : Moves(n)' /\ Copies(n)' /\ Scripts(n)'
  BY <1>2, <1>6, <1>7, <1>9 DEF Walk
<1>13. \A n \in Nodes \ Exempt :
          Firsts(n)' \/ (owners'[n] = FirstOwner[n] /\ n \in W)
  BY <1>1, <1>2, <1>7, <1>9 DEF Walk, AtHand
<1>14. RootNode \in W
  BY <1>2, <1>9 DEF Walk
<1>15. CASE t # <<>>
  <2>1. doing' = "readOwner"
    BY <1>10, <1>15 DEF copy
  <2>2. PICK k \in Nodes : k = Head(t) /\ k \in ToSet(t)
    BY <1>10, <1>15, HeadTailSets DEF TypeInv, MigrationTypeOK
  <2>3. k # RootNode
    BY <1>11, <1>14, <2>2 DEF Path
  <2>4. Walk(W, k)'
    BY <1>8, <1>10, <1>11, <1>12, <1>13, <1>14, <2>1, <2>2, <2>3 DEF Walk
  <2>5. (\E X \in SUBSET Nodes, x \in Nodes : Walk(X, x))'
    BY <2>4
  <2>6. QED
    BY <1>1, <1>7, <1>8, <2>1, <2>5 DEF IInv, RunInv, TwoOwners, OnlyFirsts, AtRest
<1>16. CASE t = <<>>
  <2>1. doing' = "restoreOwners" /\ restoring' = {n \in Nodes : owners[n] # Unknown}
    BY <1>10, <1>16 DEF copy
  <2>2. W = Nodes
    BY <1>11, <1>16, WholePath
  <2>3. \A n \in Nodes : FirstOwner[n] # Unknown
    OBVIOUS
  <2>4. Restores'
    BY <1>1, <1>8, <1>12, <1>13, <2>1, <2>2, <2>3 DEF Restores
  <2>5. QED
    BY <1>1, <1>7, <1>8, <2>1, <2>4 DEF IInv, RunInv, TwoOwners, OnlyFirsts, AtRest, Moving
<1>17. QED
  BY <1>15, <1>16

LEMMA ReadOwnerStep ==
    ASSUME IInv, readOwner
    PROVE  QueueInv' /\ RunInv'
<1>1. /\ doing = "readOwner" /\ doing' = "setSubnodeOwner" /\ doing \in Moving
      /\ UNCHANGED registryAll /\ UNCHANGED <<nodeOwner, todo>>
  BY DEF readOwner, registryVars, registryAll, Moving
<1>2. /\ QueueInv' /\ Stays /\ Spoilt' = Spoilt
      /\ \A n \in Nodes : Firsts(n) => Firsts(n)'
  BY <1>1, RegistryRests DEF IInv
<1>3. PICK V \in SUBSET Nodes, h \in Nodes : Walk(V, h)
  BY <1>1 DEF IInv, RunInv
<1>4. h \notin V /\ h # RootNode /\ h = Head(todo)
  BY <1>1, <1>3, HeadIsNew DEF IInv, Walk
<1>5. /\ owners' = [owners EXCEPT ![h] = nodeOwner[h]]
      /\ lost' = IF WillOwn(h, nodeOwner[h]) THEN lost ELSE lost \cup {h}
  BY <1>4 DEF readOwner
<1>6. /\ \A n \in Nodes : n # h => owners'[n] = owners[n]
      /\ owners'[h] = nodeOwner[h]
  BY <1>5 DEF IInv, TypeInv, MigrationTypeOK
<1>7. Exempt \subseteq Exempt' /\ (~ WillOwn(h, nodeOwner[h]) => h \in Exempt')
  BY <1>2, <1>5 DEF Exempt
<1>8. h \notin Exempt' => Firsts(h) /\ nodeOwner[h] = FirstOwner[h]
  <2>1. h \notin Exempt' => h \notin Exempt /\ WillOwn(h, nodeOwner[h])
    BY <1>7
  <2>2. h \notin Exempt => Firsts(h)
    BY <1>1, <1>3, <1>4 DEF Walk, AtHand
  <2>3. Len(submitted) + 1 \in Nat
    BY DEF IInv, TypeInv, MigrationTypeOK
  <2>4. QED
    BY <2>1, <2>2, <2>3, WillOwnOwned, OwnedByOne DEF Firsts
<1>9. Walk(V, h)'
  <2>1. \A n \in V : Moves(n)' /\ Copies(n)' /\ Scripts(n)'
    BY <1>2, <1>3 DEF Walk, Stays
  <2>2. \A n \in Nodes \ Exempt' :
            Firsts(n)' \/ (owners'[n] = FirstOwner[n] /\ n \in V)
    <3>1. ASSUME NEW n \in Nodes \ Exempt', n # h
          PROVE  Firsts(n)' \/ (owners'[n] = FirstOwner[n] /\ n \in V)
      BY <1>1, <1>2, <1>3, <1>6, <1>7, <3>1 DEF Walk, AtHand
    <3>2. QED
      BY <1>2, <1>8, <3>1
  <2>3. QED
    BY <1>1, <1>3, <1>4, <1>6, <1>8, <2>1, <2>2 DEF Walk
<1>10. (\E W \in SUBSET Nodes, x \in Nodes : Walk(W, x))'
  BY <1>9
<1>11. TwoOwners'
  BY <1>1, <1>4, <1>6 DEF IInv, RunInv, TwoOwners
<1>12. OnlyFirsts'
  BY <1>6, <1>7, <1>8 DEF IInv, RunInv, OnlyFirsts
<1>13. QED
  BY <1>1, <1>2, <1>10, <1>11, <1>12 DEF RunInv, AtRest

LEMMA TakeStep ==
    ASSUME IInv, setSubnodeOwner
    PROVE  QueueInv' /\ RunInv'
<1>1. /\ doing = "setSubnodeOwner" /\ doing' = "setResolver" /\ doing \in Moving
      /\ UNCHANGED <<nodeOwner, moved, copied, failed, reverted, owners, todo, lost>>
  BY DEF setSubnodeOwner, registryVars, Moving
<1>2. PICK V \in SUBSET Nodes, h \in Nodes : Walk(V, h)
  BY <1>1 DEF IInv, RunInv
<1>3. h \notin V /\ h # RootNode /\ h = Head(todo) /\ \E p \in V : h \in ChildrenOf[p]
  BY <1>1, <1>2, HeadIsNew DEF IInv, Walk
<1>4. PICK p \in Nodes :
          h \in ChildrenOf[p] /\ Submit(Transaction("subnodeOwner", p, h, RootOwner))
  BY <1>3 DEF setSubnodeOwner
<1>5. p \in V
  BY <1>3, <1>4, MigrationTree
<1>6. PICK tx \in Transactions :
          /\ tx = Transaction("subnodeOwner", p, h, RootOwner)
          /\ submitted' = Append(submitted, tx)
  BY <1>4, SubmitTypes DEF IInv
<1>7. /\ tx.sets = "subnodeOwner" /\ tx.by = p /\ tx.node = h /\ tx.to = RootOwner
      /\ Shape(tx) /\ \A n : SetsOwner(tx, n) <=> n = h
  BY <1>4, <1>6 DEF Transaction, Shape, SetsOwner
<1>8. Scripts(p)
  BY <1>2, <1>5 DEF Walk
<1>9. /\ QueueInv' /\ Spoilt' = Spoilt
      /\ \A n \in Nodes : /\ n # h => (Scripts(n) => Scripts(n)')
                          /\ n # h => (Firsts(n) => Firsts(n)')
                          /\ Moves(n) => Moves(n)'
                          /\ Copies(n) => Copies(n)'
      /\ Scripts(h)'
  <2>1. TypeInv /\ QueueInv /\ UNCHANGED <<nodeOwner, moved, copied, failed, reverted>>
    BY <1>1 DEF IInv
  <2>2. /\ Shape(tx) /\ Scripts(tx.by)
        /\ tx.sets = "definition" => Moves(tx.node)
        /\ tx.sets = "owner" => \A n \in Nodes : Moves(n) /\ Copies(n)
    BY <1>7, <1>8
  <2>3. QueueInv' /\ Spoilt' = Spoilt /\ Adds(tx)
    BY <2>1, <2>2, <1>6, Submits
  <2>4. ASSUME NEW n \in Nodes
        PROVE  /\ n # h => (Scripts(n) => Scripts(n)')
               /\ n # h => (Firsts(n) => Firsts(n)')
               /\ Moves(n) => Moves(n)'
               /\ Copies(n) => Copies(n)'
    BY <2>3, <1>7 DEF Adds
  <2>5. Scripts(h)'
    BY <2>3, <1>7, h \in Nodes DEF Adds, Scripts
  <2>6. QED
    BY <2>3, <2>4, <2>5
<1>10. Exempt' = Exempt
  BY <1>1, <1>9 DEF Exempt
<1>11. Walk(V, h)'
  <2>1. \A n \in V : Moves(n)' /\ Copies(n)' /\ Scripts(n)'
    BY <1>2, <1>3, <1>9 DEF Walk
  <2>2. \A n \in Nodes \ Exempt :
            Firsts(n)' \/ (owners[n] = FirstOwner[n] /\ n \in V \cup {h})
    <3>1. ASSUME NEW n \in Nodes \ Exempt, n # h
          PROVE  Firsts(n)' \/ (owners[n] = FirstOwner[n] /\ n \in V \cup {h})
      BY <1>1, <1>2, <1>9, <3>1 DEF Walk, AtHand
    <3>2. h \notin Exempt => owners[h] = FirstOwner[h]
      BY <1>1, <1>2 DEF Walk
    <3>3. QED
      BY <3>1, <3>2
  <2>3. QED
    BY <1>1, <1>2, <1>3, <1>9, <1>10, <2>1, <2>2 DEF Walk, AtHand
<1>12. (\E W \in SUBSET Nodes, x \in Nodes : Walk(W, x))'
  BY <1>11
<1>13. QED
  BY <1>1, <1>9, <1>10, <1>12 DEF IInv, RunInv, TwoOwners, OnlyFirsts, AtRest

LEMMA RestoreStep ==
    ASSUME IInv, restoreOwners
    PROVE  QueueInv' /\ RunInv'
<1>1. /\ doing = "restoreOwners" /\ doing' = doing
      /\ UNCHANGED <<nodeOwner, moved, copied, failed, reverted, owners, todo, lost>>
  BY DEF restoreOwners, registryVars
<1>2. Restores
  BY <1>1 DEF IInv, RunInv
<1>3. PICK x \in restoring : /\ Submit(Transaction("owner", x, x, owners[x]))
                            /\ restoring' = restoring \ {x}
  BY DEF restoreOwners
<1>4. /\ x \in Nodes /\ owners[x] \in Owners /\ owners[x] \in {FirstOwner[x], RootOwner}
      /\ x # RootNode
  BY DEF IInv, TypeInv, MigrationTypeOK, RestoringKnown, RunInv, TwoOwners
<1>5. PICK tx \in Transactions :
          /\ tx = Transaction("owner", x, x, owners[x])
          /\ submitted' = Append(submitted, tx)
  BY <1>3, <1>4, SubmitTypes DEF IInv
<1>6. /\ tx.sets = "owner" /\ tx.by = x /\ tx.node = x /\ tx.to = owners[x]
      /\ Shape(tx) /\ \A n : SetsOwner(tx, n) <=> n = x
  BY <1>4, <1>5 DEF Transaction, Shape, SetsOwner
<1>7. Scripts(x) /\ \A n \in Nodes : Moves(n) /\ Copies(n)
  BY <1>2, <1>4 DEF Restores
<1>8. /\ QueueInv' /\ Spoilt' = Spoilt
      /\ \A n \in Nodes : /\ n # x => (Scripts(n) => Scripts(n)')
                          /\ n # x => (Firsts(n) => Firsts(n)')
                          /\ Moves(n)' /\ Copies(n)'
      /\ owners[x] = FirstOwner[x] => Firsts(x)'
  <2>1. TypeInv /\ QueueInv /\ UNCHANGED <<nodeOwner, moved, copied, failed, reverted>>
    BY <1>1 DEF IInv
  <2>2. /\ Shape(tx) /\ Scripts(tx.by)
        /\ tx.sets = "definition" => Moves(tx.node)
        /\ tx.sets = "owner" => \A n \in Nodes : Moves(n) /\ Copies(n)
    BY <1>6, <1>7
  <2>3. QueueInv' /\ Spoilt' = Spoilt /\ Adds(tx)
    BY <2>1, <2>2, <1>5, Submits
  <2>4. ASSUME NEW n \in Nodes
        PROVE  /\ n # x => (Scripts(n) => Scripts(n)')
               /\ n # x => (Firsts(n) => Firsts(n)')
               /\ Moves(n)' /\ Copies(n)'
    BY <2>3, <1>6, <1>7 DEF Adds
  <2>5. owners[x] = FirstOwner[x] => Firsts(x)'
    BY <2>3, <1>4, <1>6 DEF Adds, Firsts
  <2>6. QED
    BY <2>3, <2>4, <2>5
<1>9. Exempt' = Exempt
  BY <1>1, <1>8 DEF Exempt
<1>10. x \notin Exempt => owners[x] = FirstOwner[x]
  BY <1>4 DEF IInv, TypeInv, RestoringKnown, RunInv, OnlyFirsts
<1>11. Restores'
  <2>1. ASSUME NEW n \in Nodes
        PROVE  n \notin Exempt => Firsts(n)' \/ (owners[n] = FirstOwner[n] /\ n \in restoring')
    BY <1>2, <1>3, <1>8, <1>10 DEF Restores
  <2>2. \A n \in Nodes : n \in restoring' => Scripts(n)'
    BY <1>2, <1>3, <1>8 DEF Restores
  <2>3. QED
    BY <1>1, <1>8, <1>9, <2>1, <2>2 DEF Restores
<1>12. QED
  BY <1>1, <1>8, <1>9, <1>11 DEF IInv, RunInv, TwoOwners, OnlyFirsts, AtRest, Moving

LEMMA FinishStep ==
    ASSUME IInv, Finish
    PROVE  QueueInv' /\ RunInv'
<1>1. /\ doing = "restoreOwners" /\ restoring = {} /\ doing' = "nothing"
      /\ UNCHANGED registryAll /\ UNCHANGED <<nodeOwner, owners, lost>>
  BY DEF Finish, registryVars, registryAll
<1>2. /\ QueueInv' /\ Spoilt' = Spoilt
      /\ \A n \in Nodes : Firsts(n) => Firsts(n)'
  BY <1>1, RegistryRests DEF IInv
<1>3. Restores
  BY <1>1 DEF IInv, RunInv
<1>4. Exempt' = Exempt
  BY <1>1, <1>2 DEF Exempt
<1>5. AtRest'
  BY <1>1, <1>2, <1>3, <1>4 DEF AtRest, Restores
<1>6. QED
  BY <1>1, <1>2, <1>4, <1>5 DEF IInv, RunInv, TwoOwners, OnlyFirsts, Moving

LEMMA FailStep ==
    ASSUME IInv, RunFails
    PROVE  QueueInv' /\ RunInv'
<1>1. /\ doing' = "nothing" /\ owners' \in {owners, Forgetful}
      /\ lost' = lost \cup {n \in Nodes : ~ WillOwn(n, FirstOwner[n])}
      /\ UNCHANGED registryAll /\ UNCHANGED nodeOwner
  BY DEF RunFails, registryVars, registryAll
<1>2. /\ QueueInv' /\ Spoilt' = Spoilt
      /\ \A n \in Nodes : Firsts(n) => Firsts(n)'
  BY <1>1, RegistryRests DEF IInv
<1>3. Exempt \subseteq Exempt' /\ \A n \in Nodes \ Exempt' : Firsts(n)
  BY <1>1, <1>2, WillOwnOwned DEF Exempt, Firsts
<1>4. \A n \in Nodes : owners'[n] \in {owners[n], Unknown}
  BY <1>1 DEF Forgetful
<1>5. TwoOwners' /\ OnlyFirsts'
  BY <1>1, <1>3, <1>4 DEF IInv, RunInv, TwoOwners, OnlyFirsts
<1>6. QED
  BY <1>1, <1>2, <1>3, <1>5 DEF RunInv, AtRest, Moving

(* What is mined is of the two owners. *)
LEMMA ChainStep ==
    ASSUME IInv, Mines
    PROVE  QueueInv' /\ RunInv'
<1>1. QueueInv' /\ Stays /\ Spoilt \subseteq Spoilt' /\ UNCHANGED runVars /\ lost' = lost
  BY Mining DEF IInv
<1>2. TwoOwners'
  <2>1. CASE TakesEffect
    <3>1. PICK t \in Transactions : t = Head(submitted) /\ Shape(t)
      <4>1. submitted # <<>> /\ submitted \in Seq(Transactions)
        BY <2>1 DEF TakesEffect, IInv, TypeInv, MigrationTypeOK
      <4>2. Head(submitted) = submitted[1] /\ submitted[1] \in Transactions /\ 1 \in 1 .. Len(submitted)
        BY <4>1, TailFacts
      <4>3. Shape(submitted[1])
        BY <4>2 DEF IInv, QueueInv, Ready
      <4>4. QED
        BY <4>2, <4>3
    <3>2. nodeOwner' = IF SetsOwner(t, t.node) THEN [nodeOwner EXCEPT ![t.node] = t.to] ELSE nodeOwner
      BY <2>1, <3>1 DEF TakesEffect
    <3>3. SetsOwner(t, t.node) => t.to \in {FirstOwner[t.node], RootOwner}
      BY <3>1 DEF SetsOwner, Shape
    <3>4. \A n \in Nodes : nodeOwner'[n] \in {nodeOwner[n], FirstOwner[n], RootOwner}
      BY <3>2, <3>3 DEF IInv, TypeInv, MigrationTypeOK
    <3>5. owners' = owners
      BY <1>1 DEF runVars
    <3>6. QED
      BY <3>4, <3>5 DEF IInv, RunInv, TwoOwners
  <2>2. CASE Fails \/ Reverts
    BY <1>1, <2>2 DEF Fails, Reverts, registryVars, runVars, IInv, RunInv, TwoOwners
  <2>3. QED
    BY <2>1, <2>2 DEF Mines
<1>3. QED
  BY <1>1, <1>2, RunRests DEF IInv

LEMMA IInvHolds == MigrationSpec => []IInv
<1>1. MigrationInit /\ TypeInv => IInv
  <2> SUFFICES ASSUME MigrationInit, TypeInv PROVE IInv
    OBVIOUS
  <2>1. Len(submitted) = 0 /\ nodeOwner = FirstOwner
    BY DEF MigrationInit
  <2>2. \A i \in 1 .. (0 + 1) - 1 : FALSE
    OBVIOUS
  <2>3. \A n \in Nodes : Firsts(n)
    BY <2>1, <2>2 DEF Firsts, Owned
  <2>4. QueueInv
    BY <2>1 DEF QueueInv
  <2>5. QED
    BY <2>3, <2>4 DEF MigrationInit, IInv, RunInv, TwoOwners, OnlyFirsts, AtRest, Forgetful, Moving
<1>2. IInv /\ TypeInv' /\ [MigrationNext]_migrationVars => IInv'
  <2> SUFFICES ASSUME IInv, TypeInv', [MigrationNext]_migrationVars
               PROVE  QueueInv' /\ RunInv'
    BY DEF IInv
  <2>1. CASE UNCHANGED migrationVars
    <3>1. UNCHANGED registryAll /\ UNCHANGED runVars /\ UNCHANGED <<nodeOwner, lost, owners>>
      BY <2>1 DEF migrationVars, registryVars, registryAll, runVars
    <3>2. TwoOwners'
      BY <3>1 DEF IInv, RunInv, TwoOwners
    <3>3. QED
      BY <3>1, <3>2, RegistryRests, RunRests DEF IInv
  <2>2. CASE MigrationNext
    BY <2>2, BeginStep, SetResolverStep, CopyStep, ReadOwnerStep, TakeStep, RestoreStep,
       FinishStep, FailStep, ChainStep DEF MigrationNext, Mines
  <2>3. QED
    BY <2>1, <2>2
<1>3. QED
  BY <1>1, <1>2, TypeInvHolds, PTL DEF MigrationSpec

----------------------------------------------------------------------------
(* restoreOwners: whoever owned a namespace owns it again when all that is *)
(* pending is mined, or the run under way will see to it: no owner is      *)
(* forgotten but by a run that failed, one that came too early after       *)
(* another, or a transaction without effect.                               *)
THEOREM OwnersReturn == MigrationSpec => []OwnersComeBack
<1>1. IInv => OwnersComeBack
  <2> SUFFICES ASSUME IInv, NEW n \in Nodes \ Exempt
               PROVE  \/ WillOwn(n, FirstOwner[n])
                      \/ /\ doing # "nothing" /\ owners[n] = FirstOwner[n]
                         /\ doing = "restoreOwners" => n \in restoring
    BY DEF OwnersComeBack, Exempt, Spoilt
  <2>1. Firsts(n) => WillOwn(n, FirstOwner[n])
    BY WillOwnOwned DEF Firsts
  <2>2. CASE doing = "nothing"
    BY <2>1, <2>2 DEF IInv, RunInv, AtRest
  <2>3. CASE doing = "restoreOwners"
    BY <2>1, <2>3 DEF IInv, RunInv, Restores
  <2>4. CASE doing \in Moving
    <3>1. PICK V \in SUBSET Nodes, h \in Nodes : Walk(V, h)
      BY <2>4 DEF IInv, RunInv
    <3>2. doing # "nothing" /\ doing # "restoreOwners"
      BY <2>4 DEF Moving
    <3>3. Firsts(n) \/ owners[n] = FirstOwner[n]
      BY <3>1 DEF Walk
    <3>4. QED
      BY <2>1, <3>2, <3>3
  <2>5. QED
    BY <2>2, <2>3, <2>4 DEF IInv, TypeInv, MigrationTypeOK
<1>2. QED
  BY <1>1, IInvHolds, PTL

(* migrate: the recursion reaches every namespace below the root, whatever *)
(* runs failed before; what is not moved by then is pending, or a          *)
(* transaction about it had no effect.                                     *)
THEOREM AllMoved == MigrationSpec => []EverythingMoved
<1>1. IInv => EverythingMoved
  <2> SUFFICES ASSUME IInv, doing = "restoreOwners"
               PROVE  /\ moved \cup Pending("resolver") \cup failed \cup reverted = Nodes
                      /\ copied \cup Pending("definition") \cup failed \cup reverted = Nodes
    BY DEF EverythingMoved
  <2>1. /\ submitted \in Seq(Transactions) /\ moved \subseteq Nodes /\ copied \subseteq Nodes
        /\ failed \subseteq Nodes /\ reverted \subseteq Nodes
    BY DEF IInv, TypeInv, MigrationTypeOK
  <2>2. /\ Len(submitted) \in Nat /\ DOMAIN submitted = 1 .. Len(submitted)
        /\ (Len(submitted) + 1) - 1 = Len(submitted)
    BY <2>1
  <2>3. ASSUME NEW i \in 1 .. Len(submitted)
        PROVE  submitted[i] \in ToSet(submitted) /\ submitted[i].node \in Nodes
    <3>1. submitted[i] \in Transactions
      BY <2>1
    <3>2. QED
      BY <2>2, <3>1 DEF ToSet, Transactions
  <2>4. Pending("resolver") \subseteq Nodes /\ Pending("definition") \subseteq Nodes
    BY <2>2, <2>3 DEF Pending, ToSet
  <2>5. ASSUME NEW n \in Nodes
        PROVE  /\ n \in moved \cup Spoilt \/ n \in Pending("resolver")
               /\ n \in copied \cup Spoilt \/ n \in Pending("definition")
    <3>1. Moves(n) /\ Copies(n)
      BY DEF IInv, RunInv, Restores
    <3>2. \A i \in 1 .. Len(submitted) :
              /\ submitted[i].sets = "resolver" => submitted[i].node \in Pending("resolver")
              /\ submitted[i].sets = "definition" => submitted[i].node \in Pending("definition")
      BY <2>3 DEF Pending
    <3>3. QED
      BY <2>2, <3>1, <3>2 DEF Moves, Copies, Has
  <2>6. QED
    BY <2>1, <2>4, <2>5 DEF Spoilt
<1>2. QED
  BY <1>1, IInvHolds, PTL

----------------------------------------------------------------------------
(* What the first transaction that is pending can count on. *)
LEMMA HeadReady ==
    ASSUME IInv, submitted # <<>>, NEW t, t = Head(submitted)
    PROVE  /\ t \in Transactions /\ t.by \in Nodes /\ t.node \in Nodes /\ Shape(t)
           /\ t.by \in Spoilt \/ nodeOwner[t.by] = RootOwner
           /\ t.sets = "definition" => t.node \in moved \cup Spoilt
           /\ t.sets = "owner" => \A n \in Nodes : n \in moved \cup Spoilt /\ n \in copied \cup Spoilt
<1>1. /\ submitted \in Seq(Transactions)
      /\ t = submitted[1] /\ t \in Transactions /\ 1 \in 1 .. Len(submitted)
  BY TailFacts DEF IInv, TypeInv, MigrationTypeOK
<1>2. Ready(submitted, nodeOwner, Spoilt, moved \cup Spoilt, copied \cup Spoilt, 1)
  BY <1>1 DEF IInv, QueueInv
<1>3. \A i \in 1 .. 1 - 1 : FALSE
  OBVIOUS
<1>4. t.by \in Nodes /\ t.node \in Nodes
  BY <1>1 DEF Transactions
<1>5. t.by \in Spoilt \/ nodeOwner[t.by] = RootOwner
  BY <1>1, <1>2, <1>3 DEF Ready, Owned
<1>6. /\ t.sets = "definition" => t.node \in moved \cup Spoilt
      /\ t.sets = "owner" => \A n \in Nodes : n \in moved \cup Spoilt /\ n \in copied \cup Spoilt
  BY <1>1, <1>2, <1>3 DEF Ready, Has
<1>7. QED
  BY <1>1, <1>2, <1>4, <1>5, <1>6 DEF Ready

(* The steps of the program are none of the registry's; those of the chain *)
(* are the steps of Handover that the transactions are for.                *)
LEMMA StepHandsOver ==
    ASSUME IInv, [MigrationNext]_migrationVars
    PROVE  [Handover!Next]_(Handover!vars)
<1>1. CASE \/ changeResolver \/ setResolver \/ copy \/ readOwner \/ setSubnodeOwner
           \/ restoreOwners \/ Finish \/ RunFails \/ UNCHANGED migrationVars
  BY <1>1 DEF changeResolver, setResolver, copy, readOwner, setSubnodeOwner, restoreOwners,
              Finish, RunFails, migrationVars, registryVars, Handover!vars
<1>2. ASSUME Mines PROVE submitted # <<>>
  BY <1>2 DEF Mines, TakesEffect, Fails, Reverts
<1>3. CASE TakesEffect
  <2>1. PICK t \in Transactions : t = Head(submitted)
    BY <1>2, <1>3, HeadReady DEF Mines
  <2>2. /\ t.by \in Nodes /\ t.node \in Nodes /\ Shape(t)
        /\ t.sets = "definition" => t.node \in moved \cup Spoilt
        /\ t.sets = "owner" => \A n \in Nodes : n \in moved \cup Spoilt /\ n \in copied \cup Spoilt
    BY <1>2, <1>3, <2>1, HeadReady DEF Mines
  <2>3. /\ nodeOwner[t.by] = RootOwner /\ UNCHANGED <<failed, reverted>>
        /\ nodeOwner' = IF SetsOwner(t, t.node)
                        THEN [nodeOwner EXCEPT ![t.node] = t.to] ELSE nodeOwner
        /\ moved' = IF t.sets = "resolver" THEN moved \cup {t.node} ELSE moved
        /\ copied' = IF t.sets = "definition" THEN copied \cup {t.node} ELSE copied
    BY <1>3, <2>1 DEF TakesEffect, MayTakeEffect
  <2>4. CASE t.sets = "resolver"
    <3>1. Handover!Move(t.node)
      BY <2>2, <2>3, <2>4 DEF Shape, SetsOwner, Handover!Move
    <3>2. QED
      BY <2>2, <3>1 DEF Handover!Next
  <2>5. CASE t.sets = "definition"
    <3>1. Handover!Copy(t.node)
      BY <2>2, <2>3, <2>5 DEF Shape, SetsOwner, Spoilt, Handover!Copy
    <3>2. QED
      BY <2>2, <3>1 DEF Handover!Next
  <2>6. CASE t.sets = "subnodeOwner"
    <3>1. Handover!Take(t.node)
      BY <2>2, <2>3, <2>6 DEF Shape, SetsOwner, Handover!Take
    <3>2. QED
      BY <2>2, <3>1 DEF Handover!Next
  <2>7. CASE t.sets = "owner"
    <3>1. /\ nodeOwner[t.node] = RootOwner /\ UNCHANGED <<moved, copied>>
          /\ nodeOwner' = [nodeOwner EXCEPT ![t.node] = t.to]
          /\ t.to \in {FirstOwner[t.node], RootOwner}
      BY <2>2, <2>3, <2>7 DEF Shape, SetsOwner
    <3>2. CASE t.to = FirstOwner[t.node]
      <4>1. Handover!Settled(moved) /\ Handover!Settled(copied)
        BY <2>2, <2>7 DEF Handover!Settled, Spoilt, IInv, TypeInv, MigrationTypeOK
      <4>2. Handover!Return(t.node)
        BY <2>3, <3>1, <3>2, <4>1 DEF Handover!Return
      <4>3. QED
        BY <2>2, <4>2 DEF Handover!Next
    <3>3. CASE t.to = RootOwner
      <4>1. nodeOwner' = nodeOwner
        BY <2>2, <3>1, <3>3 DEF IInv, TypeInv, MigrationTypeOK
      <4>2. QED
        BY <2>3, <3>1, <4>1 DEF Handover!vars
    <3>4. QED
      BY <3>1, <3>2, <3>3
  <2>8. QED
    BY <2>4, <2>5, <2>6, <2>7 DEF Transactions
<1>4. CASE Fails
  <2>1. PICK n \in Nodes : n = Head(submitted).node
    BY <1>2, <1>4, HeadReady DEF Mines
  <2>2. Handover!Fail(n)
    BY <1>4, <2>1 DEF Fails, registryVars, Handover!Fail
  <2>3. QED
    BY <2>2 DEF Handover!Next
<1>5. CASE Reverts
  <2>1. PICK t \in Transactions : t = Head(submitted)
    BY <1>2, <1>5, HeadReady DEF Mines
  <2>2. /\ t.by \in Nodes /\ t.node \in Nodes /\ Shape(t)
        /\ t.by \in Spoilt \/ nodeOwner[t.by] = RootOwner
    BY <1>2, <1>5, <2>1, HeadReady DEF Mines
  <2>3. nodeOwner[t.by] # RootOwner /\ reverted' = reverted \cup {t.node}
    BY <1>5, <2>1 DEF Reverts, MayTakeEffect
  <2>4. t.by \in failed \cup reverted /\ (t.by = t.node \/ t.node \in ChildrenOf[t.by])
    BY <2>2, <2>3 DEF Spoilt, Shape
  <2>5. Handover!Revert(t.node)
    BY <1>5, <2>3, <2>4 DEF Reverts, registryVars, Handover!Revert
  <2>6. QED
    BY <2>2, <2>5 DEF Handover!Next
<1>6. QED
  BY <1>1, <1>3, <1>4, <1>5 DEF MigrationNext

(* changeResolver: whatever runs fail, wherever, and whenever their        *)
(* transactions take effect, for any tree and any owners: the registry     *)
(* sees a namespace taken and moved while the script owns what it must,    *)
(* given back after all are moved and to nobody but its first owner, and   *)
(* refuses a transaction only in the wake of one that failed.              *)
THEOREM Implementation == MigrationSpec => ImplementsHandover
<1>1. MigrationInit => Handover!Init
  BY DEF MigrationInit, Handover!Init
<1>2. IInv /\ [MigrationNext]_migrationVars => [Handover!Next]_(Handover!vars)
  BY StepHandsOver
<1>3. QED
  BY <1>1, <1>2, IInvHolds, PTL DEF MigrationSpec, ImplementsHandover, Handover!Spec
=============================================================================
