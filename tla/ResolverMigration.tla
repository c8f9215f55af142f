------------------------- MODULE ResolverMigration -------------------------
(***************************************************************************)
(* changeResolver (utils/change_resolver.ts) moves a tree of namespaces to *)
(* a new resolver.  It makes the root's owner the owner of every namespace *)
(* below, and at the end gives each back to the owner that it remembers,   *)
(* in memory.  (The script change-resolver.ts passes no domainHierarchy:   *)
(* its runs are those that fail when they ask for the first children.)     *)
(*                                                                         *)
(* The program awaits only that a transaction is accepted, never that it   *)
(* is mined.  What it has sent waits in the order of the account's nonces; *)
(* each takes effect later, or is mined without effect: because it fails   *)
(* by itself (it runs out of gas), or because the account may not do it by *)
(* then.  No run takes notice.  A transaction that is not accepted, or a   *)
(* call that fails, ends the run; changeResolver is called again in the    *)
(* same process or in a new one, while transactions of earlier runs may be *)
(* pending.  Registry, resolvers and the list of the children are external.*)
(***************************************************************************)
EXTENDS Naturals, FiniteSets, Sequences, SequencesExt

CONSTANTS
    Nodes,              \* namespaces: the root and those below
    RootNode,
    ChildrenOf,         \* the namespaces directly below each one
    Owners,             \* accounts
    RootOwner,          \* the one whose private key the script has
    FirstOwner,         \* the owner of each namespace at first
    Unknown,            \* undefined
    MaxRuns,            \* bounds the calls of changeResolver
    MaxSubmitted        \* bounds the transactions that are pending at a time

ASSUME MigrationNodes == RootNode \in Nodes /\ ChildrenOf \in [Nodes -> SUBSET Nodes]
(* A tree: names have one parent, and what is not below the root is none   *)
(* of the migration's.                                                     *)
ASSUME MigrationTree ==
    /\ IsFiniteSet(Nodes)
    /\ \A n \in Nodes : RootNode \notin ChildrenOf[n]
    /\ \A m, n \in Nodes : m # n => ChildrenOf[m] \cap ChildrenOf[n] = {}
    /\ \A N \in SUBSET Nodes :
          RootNode \in N /\ (\A n \in N : ChildrenOf[n] \subseteq N) => N = Nodes
ASSUME MigrationOwners ==
    /\ RootOwner \in Owners /\ Unknown \notin Owners
    /\ FirstOwner \in [Nodes -> Owners]
ASSUME MigrationRuns == MaxRuns \in Nat /\ MaxSubmitted \in Nat

VARIABLES
    nodeOwner,          \* registry: the owner of each namespace
    moved,              \* registry: the namespaces that use the new resolver
    copied,             \* new resolver: the namespaces whose name and text it has
    submitted,          \* the transactions accepted and not yet mined
    owners,             \* the owners that the program remembers
    todo,               \* namespaces to be migrated, in the order of the recursion
    restoring,          \* namespaces that restoreOwners has still to come to
    doing,              \* what the run does next; if migrating, to Head(todo)
    lost,               \* namespaces whose owner no run knows any more (history)
    failed,             \* namespaces that a transaction failed for (history)
    reverted,           \* namespaces that one was not allowed for (history)
    runs

registryVars == <<nodeOwner, moved, copied>>
runVars == <<owners, todo, restoring, doing, runs>>
migrationVars == <<registryVars, runVars, submitted, lost, failed, reverted>>

Forgetful == [n \in Nodes |-> Unknown]

Moving == {"setResolver", "copy", "readOwner", "setSubnodeOwner"}

(* What a transaction sets for node, and who owns that with it; the owner  *)
(* of by may send it.                                                      *)
Transactions ==
    [sets : {"resolver", "definition", "subnodeOwner", "owner"},
     by : Nodes, node : Nodes, to : Owners]

Transaction(sets, by, node, to) == [sets |-> sets, by |-> by, node |-> node, to |-> to]

SetsOwner(tx, n) == tx.sets \in {"subnodeOwner", "owner"} /\ tx.node = n

(* With the first k - 1 transactions that are pending, o owns n.           *)
OwnsBefore(n, o, k) ==
    \/ /\ \A j \in 1 .. k - 1 : ~ SetsOwner(submitted[j], n)
       /\ nodeOwner[n] = o
    \/ \E i \in 1 .. k - 1 :
          /\ SetsOwner(submitted[i], n) /\ submitted[i].to = o
          /\ \A j \in i + 1 .. k - 1 : ~ SetsOwner(submitted[j], n)

(* ... and with all of them.                                               *)
WillOwn(n, o) == OwnsBefore(n, o, Len(submitted) + 1)

(* A node accepts what the account may do in the state that it estimates   *)
(* the gas in: the last block, or that with transactions it knows of.      *)
Submit(tx) ==
    /\ Len(submitted) < MaxSubmitted
    /\ \E k \in 1 .. Len(submitted) + 1 : OwnsBefore(tx.by, RootOwner, k)
    /\ submitted' = Append(submitted, tx)

MigrationInit ==
    /\ nodeOwner = FirstOwner
    /\ moved = {} /\ copied = {}
    /\ submitted = <<>>
    /\ owners = Forgetful
    /\ todo = <<>> /\ restoring = {}
    /\ doing = "nothing"
    /\ lost = {} /\ failed = {} /\ reverted = {}
    /\ runs = 0

changeResolver ==
    /\ doing = "nothing" /\ runs < MaxRuns
    /\ runs' = runs + 1
    /\ doing' = "setResolver"
    /\ todo' = <<RootNode>>
    /\ UNCHANGED <<registryVars, submitted, owners, restoring, lost, failed, reverted>>

(* migrate(): the new resolver, and then what the old one knows, whether   *)
(* or not the namespace was still using that.                              *)
setResolver ==
    /\ doing = "setResolver"
    /\ Submit(Transaction("resolver", Head(todo), Head(todo), RootOwner))
    /\ doing' = "copy"
    /\ UNCHANGED <<registryVars, owners, todo, restoring, lost, failed, reverted, runs>>

childrenOfUnmoved ==                    \* mutant: skips what an earlier run has migrated
    IF Head(todo) \in copied THEN {<<>>} ELSE SetToSeqs(ChildrenOf[Head(todo)])

children == SetToSeqs(ChildrenOf[Head(todo)])

(* setName and setText, as one; the next namespace, or the owners.         *)
copy ==
    /\ doing = "copy"
    /\ Submit(Transaction("definition", Head(todo), Head(todo), RootOwner))
    /\ \E c \in children : todo' = c \o Tail(todo)
    /\ IF todo' # <<>>
       THEN doing' = "readOwner" /\ UNCHANGED restoring
       ELSE doing' = "restoreOwners" /\ restoring' = {n \in Nodes : owners[n] # Unknown}
    /\ UNCHANGED <<registryVars, owners, lost, failed, reverted, runs>>

readOwnerLate ==                        \* mutant: reads the owner after it has changed it
    /\ doing = "readOwner"
    /\ owners' = [owners EXCEPT ![Head(todo)] = RootOwner]
    /\ doing' = "setSubnodeOwner"
    /\ UNCHANGED <<registryVars, submitted, todo, restoring, lost, failed, reverted, runs>>

(* The owner as of the last block.  That the transaction which gives it    *)
(* back is still pending makes it the script's account.                    *)
readOwner ==
    /\ doing = "readOwner"
    /\ LET n == Head(todo)
       IN  /\ owners' = [owners EXCEPT ![n] = nodeOwner[n]]
           /\ lost' = IF WillOwn(n, nodeOwner[n]) THEN lost ELSE lost \cup {n}
    /\ doing' = "setSubnodeOwner"
    /\ UNCHANGED <<registryVars, submitted, todo, restoring, failed, reverted, runs>>

setSubnodeOwner ==
    /\ doing = "setSubnodeOwner"
    /\ \E p \in Nodes :
          /\ Head(todo) \in ChildrenOf[p]
          /\ Submit(Transaction("subnodeOwner", p, Head(todo), RootOwner))
    /\ doing' = "setResolver"
    /\ UNCHANGED <<registryVars, owners, todo, restoring, lost, failed, reverted, runs>>

restoreUnknownOwners ==                 \* mutant: also where no owner is remembered
    /\ doing = "restoreOwners"
    /\ \E n \in Nodes :
          /\ Submit(Transaction("owner", n, n, owners[n]))
          /\ restoring' = restoring \ {n}
    /\ UNCHANGED <<registryVars, owners, todo, doing, lost, failed, reverted, runs>>

restoreOwnersEarly ==                   \* mutant: also between two namespaces
    /\ doing \in {"readOwner", "restoreOwners"}
    /\ \E n \in Nodes :
          /\ owners[n] # Unknown
          /\ Submit(Transaction("owner", n, n, owners[n]))
          /\ restoring' = restoring \ {n}
    /\ UNCHANGED <<registryVars, owners, todo, doing, lost, failed, reverted, runs>>

(* Each namespace that an owner is remembered for, one after the other.    *)
restoreOwners ==
    /\ doing = "restoreOwners"
    /\ \E n \in restoring :
          /\ Submit(Transaction("owner", n, n, owners[n]))
          /\ restoring' = restoring \ {n}
    /\ UNCHANGED <<registryVars, owners, todo, doing, lost, failed, reverted, runs>>

Finish ==
    /\ doing = "restoreOwners" /\ restoring = {}
    /\ doing' = "nothing"
    /\ UNCHANGED <<registryVars, submitted, owners, todo, restoring, lost, failed, reverted, runs>>

(* What the next run remembers depends on the process, but it reads the    *)
(* owners again in any case.                                               *)
RunFails ==
    /\ doing # "nothing"
    /\ doing' = "nothing"
    /\ owners' \in {owners, Forgetful}
    /\ restoring' = {}
    /\ lost' = lost \cup {n \in Nodes : ~ WillOwn(n, FirstOwner[n])}
    /\ UNCHANGED <<registryVars, submitted, todo, failed, reverted, runs>>

----------------------------------------------------------------------------
(* The chain, one pending transaction after the other.                     *)
MayTakeEffect == nodeOwner[Head(submitted).by] = RootOwner

TakesEffect ==
    /\ submitted # <<>> /\ MayTakeEffect
    /\ LET tx == Head(submitted)
       IN  /\ nodeOwner' = IF SetsOwner(tx, tx.node)
                           THEN [nodeOwner EXCEPT ![tx.node] = tx.to] ELSE nodeOwner
           /\ moved' = IF tx.sets = "resolver" THEN moved \cup {tx.node} ELSE moved
           /\ copied' = IF tx.sets = "definition" THEN copied \cup {tx.node} ELSE copied
    /\ submitted' = Tail(submitted)
    /\ UNCHANGED <<runVars, lost, failed, reverted>>

Fails ==
    /\ submitted # <<>> /\ MayTakeEffect
    /\ failed' = failed \cup {Head(submitted).node}
    /\ submitted' = Tail(submitted)
    /\ UNCHANGED <<registryVars, runVars, lost, reverted>>

Reverts ==
    /\ submitted # <<>> /\ ~ MayTakeEffect
    /\ reverted' = reverted \cup {Head(submitted).node}
    /\ submitted' = Tail(submitted)
    /\ UNCHANGED <<registryVars, runVars, lost, failed>>

MigrationNext ==
    \/ changeResolver \/ setResolver \/ copy \/ readOwner \/ setSubnodeOwner
    \/ restoreOwners \/ Finish \/ RunFails
    \/ TakesEffect \/ Fails \/ Reverts

MigrationSpec == MigrationInit /\ [][MigrationNext]_migrationVars

----------------------------------------------------------------------------
MigrationTypeOK ==
    /\ nodeOwner \in [Nodes -> Owners]
    /\ moved \subseteq Nodes
    /\ copied \subseteq Nodes
    /\ submitted \in Seq(Transactions)
    /\ owners \in [Nodes -> Owners \cup {Unknown}]
    /\ todo \in Seq(Nodes)
    /\ restoring \subseteq Nodes
    /\ doing \in Moving \cup {"nothing", "restoreOwners"}
    /\ lost \subseteq Nodes /\ failed \subseteq Nodes /\ reverted \subseteq Nodes
    /\ runs \in 0 .. MaxRuns

(* A namespace has its owner again when all that is pending is mined, or   *)
(* the run under way remembers who it is and has still to give it back.    *)
(* The exceptions are three: a run failed before it gave it back; its      *)
(* owner was read while the transaction that gives it back was pending;    *)
(* a transaction about it was mined without effect, which no run notices.  *)
OwnersComeBack ==
    \A n \in Nodes \ (lost \cup failed \cup reverted) :
        \/ WillOwn(n, FirstOwner[n])
        \/ /\ doing # "nothing" /\ owners[n] = FirstOwner[n]
           /\ doing = "restoreOwners" => n \in restoring

Pending(sets) == {tx.node : tx \in {t \in ToSet(submitted) : t.sets = sets}}

(* A run that gets as far as the owners has moved every namespace with its *)
(* definition, also after runs that failed anywhere in between, but for    *)
(* what is pending and what was mined without effect.                      *)
EverythingMoved ==
    doing = "restoreOwners" =>
        /\ moved \cup Pending("resolver") \cup failed \cup reverted = Nodes
        /\ copied \cup Pending("definition") \cup failed \cup reverted = Nodes

Handover == INSTANCE ResolverHandover

(* Whatever runs fail, and whenever their transactions take effect, the    *)
(* registry sees them in the promised order: none is refused before one    *)
(* has failed, and nothing is given back before all is moved, or to        *)
(* another than its first owner.                                           *)
ImplementsHandover == Handover!Spec
=============================================================================
