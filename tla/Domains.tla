------------------------------ MODULE Domains ------------------------------
(***************************************************************************)
(* DomainsService (modules/domains/domains.service.ts): organizations,     *)
(* applications and roles are namespaces of the ENS registry, and every    *)
(* operation on them is a list of transactions, computed from what is read *)
(* when it is called and sent one after the other.                         *)
(*                                                                         *)
(* A transaction is mined or reverts, its answer may be lost, and the      *)
(* caller may stop between any two of them.  Operations of several users   *)
(* interleave at every transaction.  The registry, the resolver and the    *)
(* index the cache server answers from are external: they are modelled as  *)
(* far as this code relies on them.                                        *)
(*                                                                         *)
(* A namespace is its sequence of labels; a definition is only known to be *)
(* there or not.  Organizations are created directly below Root.           *)
(***************************************************************************)
EXTENDS Naturals, Sequences, FiniteSets, SequencesExt

CONSTANTS
    Users,              \* accounts, each with a client of its own
    Nobody,             \* the empty address
    RootOwner,          \* owner of the namespace organizations are created in
    Organizations,      \* names: bounds the namespaces there can be
    Applications,
    RoleNames,
    Legacy,             \* roles whose definition is in the PublicResolver at first
    Concurrent,         \* operations of different users may overlap
    Lag                 \* the index may be behind the registry when it is asked

ASSUME UsersAssumption == Nobody \notin Users /\ RootOwner \in Users
ASSUME ModeAssumption == Concurrent \in BOOLEAN /\ Lag \in BOOLEAN
ASSUME LabelsAssumption ==
    ({"roles", "apps", "iam"} \cup RoleNames) \cap (Organizations \cup Applications) = {}

----------------------------------------------------------------------------
(* Namespaces.                                                             *)

Root == <<"iam">>

RolesOf(n) == <<"roles">> \o n

AppsOf(n) == <<"apps">> \o n

Parent(n) == Tail(n)

Below(n, m) == Len(n) > Len(m) /\ IsSuffix(m, n)

Orgs == {<<o>> \o Root : o \in Organizations}

Apps == UNION {{<<a>> \o AppsOf(g) : a \in Applications} : g \in Orgs}

RoleSpaces == {RolesOf(n) : n \in Orgs \cup Apps}

Roles == UNION {{<<r>> \o s : r \in RoleNames} : s \in RoleSpaces}

Nodes == {Root} \cup Orgs \cup {AppsOf(g) : g \in Orgs} \cup Apps \cup RoleSpaces \cup Roles

ASSUME LegacyAssumption == Legacy \subseteq Roles
ASSUME NodesAssumption == IsFiniteSet(Nodes)

VARIABLES
    owner,              \* registry: the owner of each namespace
    resolver,           \* registry: the resolver of each namespace
    defined,            \* resolver: namespaces that have a definition
    named,              \* resolver: Legacy namespaces whose reverse name is registered
    indexed,            \* what the cache server knows to be registered
    flow                \* the operation each user has under way

registry == <<owner, resolver, defined, named>>
vars == <<registry, indexed, flow>>

Registered ==
    {n \in Nodes : /\ owner[n] # Nobody
                   /\ \/ resolver[n] = "public"
                      \/ resolver[n] = "ens" /\ n \in defined}

----------------------------------------------------------------------------
(* Transactions, and what the contracts make of them.                      *)

Tx(do, node, to) == [do |-> do, node |-> node, owner |-> to]

createSubdomainTx(node, to) == Tx("setSubnodeRecord", node, to)

changeDomainOwnerTx(node, to) == Tx("setOwner", node, to)

deleteDomainTx(node) == Tx("setRecord", node, Nobody)

setResolverTx(node) == Tx("setResolver", node, Nobody)

newDomain(node) == Tx("newDomain", node, Nobody)       \* also newRole

editDomain(node) == Tx("editDomain", node, Nobody)

setDomainNameTx(node) == Tx("setName", node, Nobody)

(* The contracts let the owner of a namespace change it, or its subnodes.  *)
Authorised(u, tx) ==
    owner[IF tx.do = "setSubnodeRecord" THEN Parent(tx.node) ELSE tx.node] = u

Mined(tx) ==
    /\ owner' = IF tx.do \in {"setSubnodeRecord", "setOwner", "setRecord"}
                THEN [owner EXCEPT ![tx.node] = tx.owner] ELSE owner
    /\ resolver' = CASE tx.do \in {"setSubnodeRecord", "setResolver"} ->
                            [resolver EXCEPT ![tx.node] = "ens"]
                     [] tx.do = "setRecord" -> [resolver EXCEPT ![tx.node] = "none"]
                     [] OTHER -> resolver
    /\ defined' = IF tx.do \in {"newDomain", "editDomain"}
                  THEN defined \cup {tx.node} ELSE defined
    /\ named' = IF tx.do \in {"newDomain", "setName"}
                THEN named \cup ({tx.node} \cap Legacy) ELSE named

Reindex ==
    /\ indexed # Registered
    /\ indexed' = Registered
    /\ UNCHANGED <<registry, flow>>

----------------------------------------------------------------------------
(* What the code reads before it builds the steps.                         *)

rolesKnownWrongLabel(n) == {r \in indexed \cap Roles : Parent(r) = n}     \* mutant

rolesKnown(n) == {r \in indexed \cap Roles : Parent(r) = RolesOf(n)}

getAppsOfOrg(g) == {a \in indexed \cap Apps : Parent(a) = AppsOf(g)}

appNamespaces(a) == rolesKnown(a) \cup {RolesOf(a), a}

orgNamespaces(g) == {RolesOf(g), AppsOf(g), g}

(* validateChangeOwnership *)
mayChange(u, namespaces, newOwner) ==
    \A n \in namespaces : owner[n] \in {newOwner, Nobody, u}

transferAlways(n, newOwner) == <<changeDomainOwnerTx(n, newOwner)>>      \* mutant

(* A step only for a namespace that is not the new owner's yet.            *)
transferDue(n, newOwner) ==
    IF owner[n] = newOwner THEN <<>> ELSE <<changeDomainOwnerTx(n, newOwner)>>

appTransfersWithoutRoles(a, newOwner) ==                    \* mutant
    {transferDue(RolesOf(a), newOwner) \o transferDue(a, newOwner)}

(* The roles come in the order in which the cache server returns them.     *)
appTransfers(a, newOwner) ==
    {[i \in DOMAIN roles |-> changeDomainOwnerTx(roles[i], newOwner)]
         \o (transferDue(RolesOf(a), newOwner) \o transferDue(a, newOwner)) :
        roles \in SetToSeqs({r \in rolesKnown(a) : owner[r] # newOwner})}

orgTransfers(g, newOwner) ==
    transferDue(RolesOf(g), newOwner)
        \o (transferDue(AppsOf(g), newOwner) \o transferDue(g, newOwner))

(* validateDeletePossibility *)
mayDelete(u, namespaces) == \A n \in namespaces : owner[n] \in {Nobody, u}

removalDue(n) == IF owner[n] = Nobody THEN <<>> ELSE <<deleteDomainTx(n)>>

----------------------------------------------------------------------------
(* Operations: each computes its steps.  One that throws before it has     *)
(* sent anything changes nothing.  Of what a removal reads, `known` is the *)
(* index it has checked, which only a property looks at again.             *)

NoFlow == [op |-> "none", node |-> Root, to |-> Nobody, stepwise |-> FALSE,
           begun |-> FALSE, apps |-> {}, known |-> {}, steps |-> <<>>, later |-> <<>>]

Creations == {"createOrganization", "createApplication", "createRole"}

Removals == {"deleteOrganization", "deleteApplication"}

Ready(u) ==
    /\ flow[u] = NoFlow
    /\ Concurrent \/ \A v \in Users : flow[v] = NoFlow
    /\ Lag \/ indexed = Registered

Start(u, f) ==
    /\ Ready(u)
    /\ flow' = [flow EXCEPT ![u] = f]
    /\ UNCHANGED <<registry, indexed>>

createOrganization(u, org, returnSteps) ==
    /\ owner[Parent(org)] = u
    /\ Start(u, [NoFlow EXCEPT
           !.op = "createOrganization", !.node = org, !.to = u, !.stepwise = returnSteps,
           !.steps = <<createSubdomainTx(org, u), newDomain(org),
                       createSubdomainTx(RolesOf(org), u), setDomainNameTx(RolesOf(org)),
                       createSubdomainTx(AppsOf(org), u), setDomainNameTx(AppsOf(org))>>])

createApplicationWithApps(u, app, from, returnSteps) ==     \* mutant: as an organization
    Start(u, [NoFlow EXCEPT
        !.op = "createApplication", !.node = app, !.to = from, !.stepwise = returnSteps,
        !.steps = <<createSubdomainTx(app, from), newDomain(app),
                    createSubdomainTx(AppsOf(app), from), setDomainNameTx(AppsOf(app))>>])

(* The owner of the parent, `from`, is not compared with the caller.       *)
createApplicationFrom(u, app, from, returnSteps) ==
    Start(u, [NoFlow EXCEPT
        !.op = "createApplication", !.node = app, !.to = from, !.stepwise = returnSteps,
        !.steps = <<createSubdomainTx(app, from), newDomain(app),
                    createSubdomainTx(RolesOf(app), from), setDomainNameTx(RolesOf(app))>>])

createApplicationOfOrgOwner(u, app, returnSteps) ==         \* mutant
    createApplicationFrom(u, app, owner[Parent(Parent(app))], returnSteps)

createApplication(u, app, returnSteps) ==
    createApplicationFrom(u, app, owner[Parent(app)], returnSteps)

createRole(u, role, returnSteps) ==
    LET from == owner[Parent(role)]
    IN  Start(u, [NoFlow EXCEPT
            !.op = "createRole", !.node = role, !.to = from, !.stepwise = returnSteps,
            !.steps = <<createSubdomainTx(role, from), newDomain(role)>>])

(* With returnSteps the steps of the applications are computed and dropped;*)
(* without, each application is read and transferred before the            *)
(* organization's own steps, which are computed first.                     *)
changeOrgOwnership(u, org, newOwner, returnSteps, withSubdomains) ==
    LET apps == getAppsOfOrg(org)
    IN  /\ mayChange(u, orgNamespaces(org), newOwner)
        /\ apps # {} => withSubdomains
        /\ returnSteps => \A a \in apps : mayChange(u, appNamespaces(a), newOwner)
        /\ Start(u, [NoFlow EXCEPT
               !.op = "changeOrgOwnership", !.node = org, !.to = newOwner,
               !.stepwise = returnSteps, !.apps = IF returnSteps THEN {} ELSE apps,
               !.later = orgTransfers(org, newOwner)])

changeAppOwnership(u, app, newOwner, returnSteps) ==
    /\ mayChange(u, appNamespaces(app), newOwner)
    /\ \E txs \in appTransfers(app, newOwner) :
           Start(u, [NoFlow EXCEPT
               !.op = "changeAppOwnership", !.node = app, !.to = newOwner,
               !.stepwise = returnSteps, !.steps = txs])

changeRoleOwnership(u, role, newOwner) ==
    /\ owner[role] \in {u, Nobody}
    /\ Start(u, [NoFlow EXCEPT
           !.op = "changeRoleOwnership", !.node = role, !.to = newOwner,
           !.steps = <<changeDomainOwnerTx(role, newOwner)>>])

deleteOrganization(u, org, returnSteps) ==
    /\ getAppsOfOrg(org) = {}
    /\ rolesKnown(org) = {}
    /\ mayDelete(u, orgNamespaces(org))
    /\ Start(u, [NoFlow EXCEPT
           !.op = "deleteOrganization", !.node = org, !.stepwise = returnSteps, !.known = indexed,
           !.steps = removalDue(RolesOf(org)) \o (removalDue(AppsOf(org)) \o removalDue(org))])

deleteApplicationUnchecked(u, app, returnSteps) ==      \* mutant: ownership is not read
    /\ rolesKnown(app) = {}
    /\ Start(u, [NoFlow EXCEPT
           !.op = "deleteApplication", !.node = app, !.stepwise = returnSteps, !.known = indexed,
           !.steps = removalDue(RolesOf(app)) \o removalDue(app)])

deleteApplication(u, app, returnSteps) ==
    /\ rolesKnown(app) = {}
    /\ mayDelete(u, {RolesOf(app), app})
    /\ Start(u, [NoFlow EXCEPT
           !.op = "deleteApplication", !.node = app, !.stepwise = returnSteps, !.known = indexed,
           !.steps = removalDue(RolesOf(app)) \o removalDue(app)])

deleteRole(u, role) ==
    /\ owner[role] \in {u, Nobody}
    /\ Start(u, [NoFlow EXCEPT
           !.op = "deleteRole", !.node = role, !.steps = <<deleteDomainTx(role)>>])

(* updateLegacyDefinition: a definition in the PublicResolver is moved.    *)
setRoleDefinition(u, node) ==
    Start(u, [NoFlow EXCEPT
        !.op = "setRoleDefinition", !.node = node,
        !.steps = IF resolver[node] = "public" THEN <<setResolverTx(node), newDomain(node)>>
                                               ELSE <<editDomain(node)>>])

----------------------------------------------------------------------------
(* Steps.                                                                  *)

Running(u) == flow[u].steps # <<>>

step(u) == Head(flow[u].steps)

Go(u, f) == flow' = [flow EXCEPT ![u] = f]

Advanced(u) == [flow[u] EXCEPT !.steps = Tail(@), !.begun = TRUE]

(* next(): the transaction is mined and its receipt arrives.               *)
Confirmed(u) ==
    /\ Running(u)
    /\ Authorised(u, step(u))
    /\ Mined(step(u))
    /\ Go(u, Advanced(u))
    /\ UNCHANGED indexed

(* It is mined, but send() throws: the connection is lost, or the program  *)
(* ends.  Who holds the steps still has this one before him.               *)
Unanswered(u) ==
    /\ Running(u)
    /\ Authorised(u, step(u))
    /\ Mined(step(u))
    /\ Go(u, IF flow[u].stepwise THEN [flow[u] EXCEPT !.begun = TRUE] ELSE NoFlow)
    /\ UNCHANGED indexed

(* It reverts, and send() throws.                                          *)
Revert(u) ==
    /\ Running(u)
    /\ ~Authorised(u, step(u))
    /\ Go(u, NoFlow)
    /\ UNCHANGED <<registry, indexed>>

(* next({ retryCheck: true }) finds the step done.  The steps that create  *)
(* something have no such check: they are sent again.                      *)
Skip(u) ==
    /\ Running(u)
    /\ flow[u].stepwise /\ flow[u].op \notin Creations
    /\ owner[step(u).node] = flow[u].to
    /\ Go(u, Advanced(u))
    /\ UNCHANGED <<registry, indexed>>

NextAppSkipping(u) ==        \* mutant: an application that may not change owner is left out
    /\ ~Running(u)
    /\ \E a \in flow[u].apps :
           IF mayChange(u, appNamespaces(a), flow[u].to)
           THEN \E txs \in appTransfers(a, flow[u].to) :
                    Go(u, [flow[u] EXCEPT !.apps = @ \ {a}, !.steps = txs])
           ELSE Go(u, [flow[u] EXCEPT !.apps = @ \ {a}])
    /\ UNCHANGED <<registry, indexed>>

(* changeOrgOwnership: the next application, or the organization itself.   *)
NextApp(u) ==
    /\ ~Running(u)
    /\ \E a \in flow[u].apps :
           IF mayChange(u, appNamespaces(a), flow[u].to)
           THEN \E txs \in appTransfers(a, flow[u].to) :
                    Go(u, [flow[u] EXCEPT !.apps = @ \ {a}, !.steps = txs])
           ELSE Go(u, NoFlow)
    /\ UNCHANGED <<registry, indexed>>

OwnSteps(u) ==
    /\ ~Running(u) /\ flow[u].apps = {} /\ flow[u].later # <<>>
    /\ Go(u, [flow[u] EXCEPT !.steps = flow[u].later, !.later = <<>>])
    /\ UNCHANGED <<registry, indexed>>

Done(u) == ~Running(u) /\ flow[u].apps = {} /\ flow[u].later = <<>>

(* The operation returns, or the caller stops in the middle of it.         *)
Stop(u) ==
    /\ flow[u] # NoFlow
    /\ Go(u, NoFlow)
    /\ UNCHANGED <<registry, indexed>>

----------------------------------------------------------------------------

Existing ==
    LET above == {Root} \cup {n \in Nodes : \E r \in Legacy : n = r \/ Below(r, n)}
    IN  above \cup {AppsOf(g) : g \in Orgs \cap above}

Init ==
    /\ owner = [n \in Nodes |-> IF n \in Existing THEN RootOwner ELSE Nobody]
    /\ resolver = [n \in Nodes |-> CASE n \in Legacy -> "public"
                                     [] n \in Existing \ Legacy -> "ens"
                                     [] OTHER -> "none"]
    /\ defined = Existing \cap ({Root} \cup Orgs)
    /\ named = {}
    /\ indexed = Existing \cap ({Root} \cup Orgs \cup Legacy)
    /\ flow = [u \in Users |-> NoFlow]

Operation(u) ==
    \/ \E g \in Orgs, s \in BOOLEAN : createOrganization(u, g, s)
    \/ \E a \in Apps, s \in BOOLEAN : createApplication(u, a, s)
    \/ \E r \in Roles, s \in BOOLEAN : createRole(u, r, s)
    \/ \E g \in Orgs, v \in Users, s, w \in BOOLEAN : changeOrgOwnership(u, g, v, s, w)
    \/ \E a \in Apps, v \in Users, s \in BOOLEAN : changeAppOwnership(u, a, v, s)
    \/ \E r \in Roles, v \in Users : changeRoleOwnership(u, r, v)
    \/ \E g \in Orgs, s \in BOOLEAN : deleteOrganization(u, g, s)
    \/ \E a \in Apps, s \in BOOLEAN : deleteApplication(u, a, s)
    \/ \E r \in Roles : deleteRole(u, r)
    \/ \E n \in Orgs \cup Apps \cup Roles : setRoleDefinition(u, n)

Progress(u) == Confirmed(u) \/ Unanswered(u) \/ Revert(u) \/ Skip(u) \/ NextApp(u) \/ OwnSteps(u)

Next == Reindex \/ \E u \in Users : Operation(u) \/ Progress(u) \/ Stop(u)

Spec == Init /\ [][Next]_vars

----------------------------------------------------------------------------
(* Properties.                                                             *)

Txs == [do : {"setSubnodeRecord", "setOwner", "setRecord", "setResolver",
              "newDomain", "editDomain", "setName"},
        node : Nodes, owner : Users \cup {Nobody}]

Flows == [op : Creations \cup {"none", "changeOrgOwnership", "changeAppOwnership",
                  "changeRoleOwnership", "deleteOrganization", "deleteApplication",
                  "deleteRole", "setRoleDefinition"},
          node : Nodes, to : Users \cup {Nobody}, stepwise : BOOLEAN, begun : BOOLEAN,
          apps : SUBSET Apps, known : SUBSET Nodes, steps : Seq(Txs), later : Seq(Txs)]

(* The registry, the index and every operation under way are well-formed.  *)
TypeOK ==
    /\ owner \in [Nodes -> Users \cup {Nobody}]
    /\ resolver \in [Nodes -> {"none", "public", "ens"}]
    /\ defined \subseteq Nodes /\ named \subseteq Legacy /\ indexed \subseteq Nodes
    /\ flow \in [Users -> Flows]

(* "You are not able to remove organization with registered apps", nor     *)
(* with roles, nor an application with roles (errors/ErrorMessages.ts): a  *)
(* namespace is removed while an application or a role of its own is       *)
(* registered only if the removal, when it was called, did not find it in  *)
(* the index: it came later, or the index was behind; or if something is   *)
(* created there for nobody, who owned the parent when that was called.    *)
(* Whatever was half created, half removed or abandoned before, by whom,   *)
(* and whichever operations overlap, the check does not miss more.         *)
RemovesOnlyEmpty ==
    [][\A n \in Nodes : owner[n] # Nobody /\ owner'[n] = Nobody =>
           \E u \in Users :
               /\ Running(u) /\ Authorised(u, step(u)) /\ step(u).node = n
               /\ \A m \in Registered \cap (Roles \cup Apps) :
                      n \in {Parent(m), Parent(Parent(m))} =>
                          \/ flow[u].op \in Removals /\ m \notin flow[u].known
                          \/ flow[u].op \in Creations /\ flow[u].to = Nobody]_vars

(* A transfer or a removal that stops in the middle can be called again:   *)
(* at each of its steps, the namespaces it has to go through still belong  *)
(* to the caller, to the new owner or to nobody, so that the validation of *)
(* a second call does not throw.                                           *)
ResumesAfterFailure ==
    \A u \in Users : Running(u) =>
        LET n == flow[u].node IN
        CASE flow[u].op = "changeAppOwnership" -> mayChange(u, appNamespaces(n), flow[u].to)
          [] flow[u].op = "changeOrgOwnership" -> mayChange(u, orgNamespaces(n), flow[u].to)
          [] flow[u].op = "deleteApplication" -> mayDelete(u, {RolesOf(n), n})
          [] flow[u].op = "deleteOrganization" -> mayDelete(u, orgNamespaces(n))
          [] OTHER -> TRUE

(* An operation that creates or removes reverts at its first step or not   *)
(* at all: the owner it gives to what it creates, read from the registry   *)
(* and never compared with the caller, is the one who signs the rest.  A   *)
(* step that the caller repeats without retryCheck is the exception.       *)
LaterStepsGoThrough ==
    \A u \in Users :
        /\ Running(u)
        /\ flow[u].begun
        /\ flow[u].op \in Creations \cup Removals
        => \/ Authorised(u, step(u))
           \/ flow[u].stepwise /\ owner[step(u).node] = flow[u].to

(* "change owner ship of app subdomain and all app owned subdomains": when *)
(* changeAppOwnership is through, also one that resumes a transfer that    *)
(* had stopped, the application and its registered roles are the new       *)
(* owner's.                                                                *)
AppTransferMovesAll ==
    \A u \in Users : flow[u].op = "changeAppOwnership" /\ Done(u)
        => LET a == flow[u].node IN
           \A n \in {r \in Registered \cap Roles : Parent(r) = RolesOf(a)}
                        \cup {RolesOf(a), a} : owner[n] = flow[u].to

(* A transfer reverts only at a namespace that nobody owns, which its      *)
(* validation takes for one that can be transferred: not at one that is    *)
(* somebody else's or the new owner's, nor at one that it has transferred  *)
(* itself, unless the caller repeats the step without retryCheck.          *)
TransferStopsAtUnowned ==
    \A u \in Users :
        /\ Running(u)
        /\ flow[u].op \in {"changeOrgOwnership", "changeAppOwnership", "changeRoleOwnership"}
        => \/ Authorised(u, step(u))
           \/ owner[step(u).node] = Nobody
           \/ flow[u].stepwise /\ flow[u].begun /\ owner[step(u).node] = flow[u].to

(* When changeOrgOwnership is through with the applications, unless it has *)
(* returned its steps, the organization and each registered application    *)
(* with its registered roles are the new owner's: also what an earlier     *)
(* call that had stopped left half transferred.  If it returned the steps, *)
(* that is said of the organization only: those of the applications are    *)
(* dropped.                                                                *)
OrgTransferMovesApps ==
    \A u \in Users : flow[u].op = "changeOrgOwnership" /\ Done(u)
        => LET g == flow[u].node
               apps == {a \in Registered \cap Apps : Parent(a) = AppsOf(g)}
               roles(a) == {r \in Registered \cap Roles : Parent(r) = RolesOf(a)}
           IN  /\ \A n \in orgNamespaces(g) : owner[n] = flow[u].to
               /\ \/ flow[u].stepwise
                  \/ \A a \in apps : \A n \in {a, RolesOf(a)} \cup roles(a) : owner[n] = flow[u].to

(* "change owner ship of org subdomain and all org owned roles subdomains":*)
(* when changeOrgOwnership has transferred something and is through, no    *)
(* registered role of the organization is left with its former owner.  It  *)
(* does not hold: the roles themselves are not among the namespaces that   *)
(* are transferred.                                                        *)
OrgTransferMovesAll ==
    \A u \in Users : flow[u].op = "changeOrgOwnership" /\ Done(u) /\ flow[u].begun /\ flow[u].to # u
        => \A r \in Registered \cap Roles :
               Parent(r) = RolesOf(flow[u].node) => owner[r] # u

(* "Need to use newRole/newDomain as need to set reverse domain name": when*)
(* setRoleDefinition has moved a legacy definition to the new resolver,    *)
(* the reverse name is there too.  It does not hold when the first attempt *)
(* got no further than the resolver.                                       *)
DefinitionHasName ==
    \A u \in Users : flow[u].op = "setRoleDefinition" /\ Done(u) /\ flow[u].node \in Legacy
        => flow[u].node \in named
=============================================================================
