-------------------------- MODULE ResolverHandover --------------------------
(***************************************************************************)
(* What changeResolver promises the owners of the namespaces that it moves *)
(* to a new resolver, as the registry sees it, where transactions take     *)
(* effect some time after the script has sent them, or not at all: the     *)
(* script has its account take a namespace as the owner of the one above,  *)
(* and moves it while it owns it; it knows a definition at the new         *)
(* resolver only of what is moved; it gives nothing back before all is     *)
(* moved, and then to the owner it had at first; and a transaction of its  *)
(* own is refused only in the wake of one that failed.                     *)
(*                                                                         *)
(* ResolverMigration implements this specification (see ResolverMigration! *)
(* ImplementsHandover), with one account's memory of the others, and a     *)
(* recursion that waits for none of its transactions, may stop anywhere    *)
(* and start again.                                                        *)
(***************************************************************************)
CONSTANTS Nodes, ChildrenOf, RootOwner, FirstOwner

VARIABLES
    nodeOwner,          \* the owner of each namespace
    moved,              \* the namespaces that use the new resolver
    copied,             \* the namespaces that it knows the definition of
    failed,             \* the namespaces that a transaction failed for
    reverted            \* ... or was refused for

vars == <<nodeOwner, moved, copied, failed, reverted>>

(* Nothing more is promised of a namespace that a transaction had no       *)
(* effect on.                                                              *)
Settled(S) == S \cup failed \cup reverted = Nodes

Init ==
    /\ nodeOwner = FirstOwner
    /\ moved = {} /\ copied = {} /\ failed = {} /\ reverted = {}

(* The owner of a namespace may dispose of those below it.                 *)
Take(n) ==
    /\ \E p \in Nodes : n \in ChildrenOf[p] /\ nodeOwner[p] = RootOwner
    /\ nodeOwner' = [nodeOwner EXCEPT ![n] = RootOwner]
    /\ UNCHANGED <<moved, copied, failed, reverted>>

Move(n) ==
    /\ nodeOwner[n] = RootOwner
    /\ moved' = moved \cup {n}
    /\ UNCHANGED <<nodeOwner, copied, failed, reverted>>

Copy(n) ==
    /\ nodeOwner[n] = RootOwner
    /\ n \in moved \cup failed \cup reverted
    /\ copied' = copied \cup {n}
    /\ UNCHANGED <<nodeOwner, moved, failed, reverted>>

Return(n) ==
    /\ nodeOwner[n] = RootOwner
    /\ Settled(moved) /\ Settled(copied)
    /\ nodeOwner' = [nodeOwner EXCEPT ![n] = FirstOwner[n]]
    /\ UNCHANGED <<moved, copied, failed, reverted>>

Fail(n) ==
    /\ failed' = failed \cup {n}
    /\ UNCHANGED <<nodeOwner, moved, copied, reverted>>

(* A transaction about n needs n, or the namespace above it.               *)
Revert(n) ==
    /\ \E p \in failed \cup reverted :
          /\ p = n \/ n \in ChildrenOf[p]
          /\ nodeOwner[p] # RootOwner
    /\ reverted' = reverted \cup {n}
    /\ UNCHANGED <<nodeOwner, moved, copied, failed>>

Next == \E n \in Nodes :
    Take(n) \/ Move(n) \/ Copy(n) \/ Return(n) \/ Fail(n) \/ Revert(n)

Spec == Init /\ [][Next]_vars
=============================================================================
