---------------------------- MODULE Standalone -----------------------------
(***************************************************************************)
(* Policies without Kubernetes.  They arrive as gRPC requests, each served *)
(* by a goroutine of its own, are kept in memory, pushed to the enforcer   *)
(* and backed up as files, one per policy name, from which the daemon      *)
(* restores them when it starts again.  Containers come and go meanwhile.  *)
(*                                                                         *)
(* A container policy selects by a container name, an element of Names, or *)
(* by labels; "ns" is the identity of the only namespace.  Names are plain *)
(* names: their matching as regular expressions is left out.  Containers   *)
(* are containerd's.  Policies are enabled in the configuration; alerts,   *)
(* visibility, presets and AppArmor profiles are no part of this module.   *)
(***************************************************************************)
EXTENDS Integers, FiniteSets, Sequences, SequencesExt

CONSTANTS
  Requests,        \* the requests clients send: [kind, type, policy]
  ContainerIDs,
  Names,           \* container names, as values of kubearmor.io/container.name
  NameOf,          \* [ContainerIDs -> Names]
  LabelsOf,        \* [ContainerIDs -> SUBSET labels]
  NodeIdentities,  \* dm.Node.Identities
  Calls,           \* the goroutines that serve requests
  Main,            \* the daemon's main goroutine, which restores the backups
  Serial,          \* requests and container events come one at a time
  MaxCrashes,
  None

VARIABLES
  SecurityPolicies,     \* dm.SecurityPolicies
  HostSecurityPolicies, \* dm.HostSecurityPolicies
  EndPoints,            \* dm.EndPoints
  EndPointsLock,        \* its holder, or None
  Containers,           \* the keys of dm.Containers
  ContainerMap,         \* the enforcer's registered containers
  Rules,                \* [ContainerIDs -> the rules in the pinned map, and if this daemon put them there]
  hostRules,            \* the host policies in force
  files,                \* [policy names -> the backup]
  call,                 \* the requests being served
  crt,                  \* the container event being served
  todo,                 \* the backups still to restore
  panicked,
  crashes,
  may                   \* history: [policy names -> what a client may find after a restart]

memory == <<SecurityPolicies, HostSecurityPolicies, EndPoints, EndPointsLock, Containers>>
enforced == <<ContainerMap, Rules, hostRules>>
vars == <<memory, enforced, files, call, crt, todo, panicked, crashes, may>>

PolicyNames == {r.policy.policyName : r \in Requests}

NoFile == [kind |-> "none", policy |-> None]
PartialFile == [kind |-> "partial", policy |-> None]

CallIdle == [pc |-> "idle", req |-> None, length |-> 0, idx |-> 0, policies |-> <<>>]
RuntimeIdle == [pc |-> "idle", id |-> None, endPoint |-> None]

NoRules == [policies |-> {}, own |-> FALSE]

IdentitiesOf(c) == {"ns", NameOf[c]} \cup LabelsOf[c]

Init ==
  /\ SecurityPolicies = <<>>
  /\ HostSecurityPolicies = <<>>
  /\ EndPoints = <<>>
  /\ EndPointsLock = None
  /\ Containers = {}
  /\ ContainerMap = {}
  /\ Rules = [c \in ContainerIDs |-> NoRules]
  /\ hostRules = {}
  /\ call = [i \in Calls \cup {Main} |-> CallIdle]
  /\ crt = RuntimeIdle
  /\ panicked = FALSE
  /\ files = [n \in PolicyNames |-> NoFile]
  /\ todo = {}
  /\ crashes = 0
  /\ may = [n \in PolicyNames |-> {None}]
-----------------------------------------------------------------------------
(* Helpers. *)

\* A container name is compared with the first name among the identities, and matches
\* when there is none.
MatchIdentities(identities, superIdentities) ==
  /\ identities # {}
  /\ \A i \in identities : i \in superIdentities \/ (i \in Names /\ superIdentities \cap Names = {})

SamePolicy(p, q) == p.policyName = q.policyName

IndexOf(p, policies) == SelectInSeq(policies, LAMBDA q : SamePolicy(p, q))

Holds(p, policies) == IndexOf(p, policies) # 0

Replaced(p, policies) ==
  IF Holds(p, policies) THEN [policies EXCEPT ![IndexOf(p, policies)] = p] ELSE Append(policies, p)

Removed(p, policies) ==
  IF Holds(p, policies) THEN RemoveAt(policies, IndexOf(p, policies)) ELSE policies

\* The enforcer's removal of a container's rules, which concerns its own map only.
WithoutRules(rules) == IF rules.own THEN NoRules ELSE rules

\* The enforcer takes the rules of the registered containers and ignores the others.
Pushed(rules, endPoint) ==
  [c \in ContainerIDs |->
     CASE c \notin endPoint.Containers \cap ContainerMap -> rules[c]
       [] endPoint.SecurityPolicies = <<>> -> WithoutRules(rules[c])
       [] OTHER -> [policies |-> ToSet(endPoint.SecurityPolicies), own |-> TRUE]]

AllIdle == (\A i \in Calls \cup {Main} : call[i].pc = "idle") /\ crt.pc = "idle"

MayStart(i) == ~panicked /\ call[i].pc = "idle" /\ (Serial => AllIdle)

Policy(r) == IF r.type = "DELETED" THEN None ELSE r.policy

Done(i) == call' = [call EXCEPT ![i] = CallIdle]
-----------------------------------------------------------------------------
(* A container policy.  The handler ranges over the list of endpoints as   *)
(* it was when the loop began, while deletions shift the array below it:   *)
(* live is the length of dm.EndPoints, arr the array, ei endPointIndex.    *)

NoEndPoint == [EndPointName |-> "", Identities |-> {}, Containers |-> {}, SecurityPolicies |-> <<>>]

RangeOver(endPoints, rules) ==
  [arr |-> endPoints, live |-> Len(endPoints), ei |-> 0, create |-> TRUE,
   status |-> "Applied", panic |-> FALSE, rules |-> rules]

Panics(st) == [st EXCEPT !.panic = TRUE]

Shifted(st, i) ==
  [st EXCEPT !.live = @ - 1,
             !.arr = [j \in DOMAIN @ |-> IF j \in i .. st.live - 1 THEN @[j + 1] ELSE @[j]]]

Written(st, i, endPoint) ==
  [st EXCEPT !.arr[i] = endPoint, !.rules = Pushed(@, endPoint)]

ContainerName(p) == IF p.selector \cap Names = {} THEN "" ELSE CHOOSE n \in p.selector \cap Names : TRUE

\* Mutant: a policy the endpoint has is not replaced by its new version.
UpdatedOnce(r, policies) ==
  CASE r.type = "DELETED" -> Removed(r.policy, policies)
    [] r.type = "ADDED" /\ ~Holds(r.policy, policies) -> Append(policies, r.policy)
    [] OTHER -> policies

\* The policies of an endpoint after the event.
Updated(r, policies) ==
  CASE r.type = "DELETED" -> Removed(r.policy, policies)
    [] r.type = "ADDED" \/ Holds(r.policy, policies) -> Replaced(r.policy, policies)
    [] OTHER -> policies

handlePolicyEvent(st, r, endPoint) ==
  LET new == [endPoint EXCEPT !.SecurityPolicies = Updated(r, @)]
      created == [new EXCEPT !.EndPointName = ContainerName(r.policy), !.Identities = r.policy.selector]
      written == Written(st, st.ei, new)
  IN  CASE r.type = "DELETED" /\ ~Holds(r.policy, endPoint.SecurityPolicies) ->
             [st EXCEPT !.status = "NotExist"]
        [] r.type = "ADDED" /\ st.create ->
             [st EXCEPT !.arr = Append(SubSeq(@, 1, st.live), created), !.live = @ + 1]
        [] r.type = "DELETED" /\ st.ei = 0 -> st
        [] st.ei \notin 1 .. st.live -> Panics(st)
        [] r.type = "DELETED" /\ new.Containers = {} /\ new.SecurityPolicies = <<>> ->
             [Shifted(written, st.ei) EXCEPT !.ei = @ - 1]
        [] OTHER -> written

\* The policy leaves an endpoint that its new selector no longer matches.
DropFrom(st, r, i) ==
  LET endPoint == st.arr[i]
      left == [endPoint EXCEPT !.SecurityPolicies = Removed(r.policy, @)]
      outdated == /\ Holds(r.policy, endPoint.SecurityPolicies)
                  /\ ~MatchIdentities(r.policy.selector, endPoint.Identities)
  IN  CASE ~outdated -> [st |-> st, endPoint |-> endPoint]
        [] i \notin 1 .. st.live -> [st |-> Panics(st), endPoint |-> endPoint]
        [] left.Containers = {} /\ left.SecurityPolicies = <<>> ->
             [st |-> [Shifted(st, i) EXCEPT !.ei = @ - 1], endPoint |-> NoEndPoint]
        [] OTHER -> [st |-> Written(st, i, left), endPoint |-> left]

\* One iteration of the loop.
Visit(st, r, i) ==
  LET dropped == DropFrom([st EXCEPT !.ei = @ + 1], r, i)
  IN  CASE st.panic \/ st.status # "Applied" -> st
        [] ~dropped.st.panic /\ MatchIdentities(r.policy.selector, dropped.endPoint.Identities) ->
             handlePolicyEvent([dropped.st EXCEPT !.create = FALSE], r, dropped.endPoint)
        [] OTHER -> dropped.st

HandleEndPoints(r) ==
  LET start == RangeOver(EndPoints, Rules)
      Step(st, i) == Visit(st, r, i)
      ranged == FoldLeft(Step, start, [i \in DOMAIN EndPoints |-> i])
  IN  IF ranged.create /\ ~ranged.panic THEN handlePolicyEvent(ranged, r, NoEndPoint) ELSE ranged

\* A client's request, or a restored one, reaches the list of container policies.  An
\* update ("MODIFIED") leaves the list as it is.
ContainerPolicy(i, r) ==
  /\ r.kind = "container"
  /\ MayStart(i)
  /\ SecurityPolicies' = CASE r.type = "ADDED" -> Replaced(r.policy, SecurityPolicies)
                           [] r.type = "DELETED" -> Removed(r.policy, SecurityPolicies)
                           [] OTHER -> SecurityPolicies
  /\ call' = [call EXCEPT ![i] = [CallIdle EXCEPT !.pc = "endpoints", !.req = r]]
  /\ may' = [may EXCEPT ![r.policy.policyName] = @ \cup {Policy(r)}]
  /\ UNCHANGED <<HostSecurityPolicies, EndPoints, EndPointsLock, Containers, enforced, files,
                 crt, panicked, crashes>>

\* The endpoints follow under their lock, which is kept until the backup is done.
ContainerEndPoints(i) ==
  /\ call[i].pc = "endpoints" /\ ~panicked
  /\ EndPointsLock = None
  /\ LET r == call[i].req
         st == HandleEndPoints(r)
     IN  /\ EndPoints' = SubSeq(st.arr, 1, st.live)
         /\ Rules' = st.rules
         /\ panicked' = st.panic
         /\ IF st.status = "NotExist"
            THEN /\ Done(i)
                 /\ may' = [may EXCEPT ![r.policy.policyName] = {None}]
                 /\ UNCHANGED EndPointsLock
            ELSE /\ call' = [call EXCEPT ![i].pc = "backup"]
                 /\ EndPointsLock' = i
                 /\ UNCHANGED may
  /\ UNCHANGED <<SecurityPolicies, HostSecurityPolicies, Containers, ContainerMap, hostRules, files,
                 crt, todo, crashes>>
-----------------------------------------------------------------------------
(* A host policy. *)

UnchangedHost(r) == r.type # "DELETED" /\ r.policy \in ToSet(HostSecurityPolicies)

HostPolicies(r) ==
  CASE r.type = "ADDED" -> Replaced(r.policy, HostSecurityPolicies)
    [] r.type = "MODIFIED" /\ Holds(r.policy, HostSecurityPolicies) -> Replaced(r.policy, HostSecurityPolicies)
    [] r.type = "DELETED" -> Removed(r.policy, HostSecurityPolicies)
    [] OTHER -> HostSecurityPolicies

\* A request that changes nothing is answered at once, as is the deletion of a policy
\* that does not exist.
HostPolicy(i, r) ==
  /\ r.kind = "host"
  /\ MayStart(i)
  /\ HostSecurityPolicies' = HostPolicies(r)
  /\ IF UnchangedHost(r) \/ (r.type = "DELETED" /\ ~Holds(r.policy, HostSecurityPolicies))
     THEN /\ may' = [may EXCEPT ![r.policy.policyName] = {Policy(r)}]
          /\ UNCHANGED call
     ELSE /\ may' = [may EXCEPT ![r.policy.policyName] = @ \cup {Policy(r)}]
          /\ call' = [call EXCEPT ![i] = [CallIdle EXCEPT !.pc = "length", !.req = r]]
  /\ UNCHANGED <<SecurityPolicies, EndPoints, EndPointsLock, Containers, enforced, files,
                 crt, panicked, crashes>>

\* The list is read in pieces: its length under its own lock, each policy under the lock
\* of the endpoints.
HostLength(i) ==
  /\ call[i].pc = "length" /\ ~panicked
  /\ call' = [call EXCEPT ![i].pc = "read", ![i].length = Len(HostSecurityPolicies), ![i].idx = 1]
  /\ UNCHANGED <<memory, enforced, files, crt, todo, panicked, crashes, may>>

HostRead(i) ==
  /\ call[i].pc = "read" /\ call[i].idx <= call[i].length /\ ~panicked
  /\ EndPointsLock = None
  /\ panicked' = (call[i].idx > Len(HostSecurityPolicies))
  /\ call' = IF panicked' THEN call
             ELSE LET p == HostSecurityPolicies[call[i].idx]
                  IN  [call EXCEPT ![i].idx = @ + 1,
                                   ![i].policies = IF MatchIdentities(p.selector, NodeIdentities)
                                                   THEN Append(@, p) ELSE @]
  /\ UNCHANGED <<memory, enforced, files, crt, todo, crashes, may>>

HostPush(i) ==
  /\ call[i].pc = "read" /\ call[i].idx > call[i].length /\ ~panicked
  /\ hostRules' = ToSet(call[i].policies)
  /\ call' = [call EXCEPT ![i].pc = "backup"]
  /\ UNCHANGED <<memory, ContainerMap, Rules, files, crt, todo, panicked, crashes, may>>
-----------------------------------------------------------------------------
(* Backup and restore. *)

Released(i) == EndPointsLock' = IF EndPointsLock = i THEN None ELSE EndPointsLock

\* os.Create empties the file of an older version before the new one is written.
CreateFile(i) ==
  /\ call[i].pc = "backup" /\ call[i].req.type # "DELETED" /\ ~panicked
  /\ files' = [files EXCEPT ![call[i].req.policy.policyName] = PartialFile]
  /\ may' = [may EXCEPT ![call[i].req.policy.policyName] = @ \cup {None}]
  /\ call' = [call EXCEPT ![i].pc = "write"]
  /\ UNCHANGED <<memory, enforced, crt, todo, panicked, crashes>>

WriteFile(i) ==
  /\ call[i].pc = "write" /\ ~panicked
  /\ files' = [files EXCEPT ![call[i].req.policy.policyName] =
                 [kind |-> call[i].req.kind, policy |-> call[i].req.policy]]
  /\ may' = [may EXCEPT ![call[i].req.policy.policyName] = {Policy(call[i].req)}]
  /\ Done(i)
  /\ Released(i)
  /\ UNCHANGED <<SecurityPolicies, HostSecurityPolicies, EndPoints, Containers, enforced, crt, todo,
                 panicked, crashes>>

removeBackUpPolicy(i) ==
  /\ call[i].pc = "backup" /\ call[i].req.type = "DELETED" /\ ~panicked
  /\ files' = [files EXCEPT ![call[i].req.policy.policyName] = NoFile]
  /\ may' = [may EXCEPT ![call[i].req.policy.policyName] = {None}]
  /\ Done(i)
  /\ Released(i)
  /\ UNCHANGED <<SecurityPolicies, HostSecurityPolicies, EndPoints, Containers, enforced, crt, todo,
                 panicked, crashes>>

\* Mutant: host policies are not restored.
RestorePolicyContainers(n) ==
  /\ n \in todo /\ call[Main].pc = "idle" /\ ~panicked
  /\ todo' = todo \ {n}
  /\ IF files[n].kind # "container"
     THEN UNCHANGED <<memory, enforced, files, call, crt, panicked, crashes, may>>
     ELSE ContainerPolicy(Main, [kind |-> files[n].kind, type |-> "ADDED", policy |-> files[n].policy])

\* The next backup is read and applied as a new policy; what does not parse is skipped.
RestorePolicy(n) ==
  /\ n \in todo /\ call[Main].pc = "idle" /\ ~panicked
  /\ todo' = todo \ {n}
  /\ IF files[n] \in {NoFile, PartialFile}
     THEN UNCHANGED <<memory, enforced, files, call, crt, panicked, crashes, may>>
     ELSE LET r == [kind |-> files[n].kind, type |-> "ADDED", policy |-> files[n].policy]
          IN  ContainerPolicy(Main, r) \/ HostPolicy(Main, r)

\* The daemon dies, at any point, and starts again.  The pinned map keeps the rules of the
\* containers that live on, the host gets a new one, and the list of backups is read once.
Restart ==
  /\ crashes < MaxCrashes
  /\ crashes' = crashes + 1
  /\ SecurityPolicies' = <<>> /\ HostSecurityPolicies' = <<>>
  /\ EndPoints' = <<>> /\ EndPointsLock' = None
  /\ Containers' = {} /\ ContainerMap' = {}
  /\ \E alive \in SUBSET ContainerIDs :
       Rules' = [c \in ContainerIDs |-> IF c \in alive THEN [Rules[c] EXCEPT !.own = FALSE] ELSE NoRules]
  /\ hostRules' = {}
  /\ call' = [i \in Calls \cup {Main} |-> CallIdle] /\ crt' = RuntimeIdle
  /\ panicked' = FALSE
  /\ todo' = {n \in PolicyNames : files[n] # NoFile}
  /\ UNCHANGED <<files, may>>
-----------------------------------------------------------------------------
(* Containers, as UpdateContainerdContainer handles them. *)

MatchesContainer(endPoint, c) ==
  \/ endPoint.EndPointName = NameOf[c]
  \/ MatchIdentities(endPoint.Identities, IdentitiesOf(c))

\* The stored policies that select an endpoint, in the order of the list.
Matching(identities) ==
  SelectSeq(SecurityPolicies, LAMBDA p : MatchIdentities(p.selector, identities))

ContainerStart(c) ==
  /\ c \notin Containers /\ crt.pc = "idle" /\ ~panicked
  /\ Serial => AllIdle
  /\ Containers' = Containers \cup {c}
  /\ crt' = [RuntimeIdle EXCEPT !.pc = "endpoint", !.id = c]
  /\ UNCHANGED <<SecurityPolicies, HostSecurityPolicies, EndPoints, EndPointsLock, enforced, files,
                 call, todo, panicked, crashes, may>>

\* The first endpoint that fits takes the container in, and its identities with it; the
\* policies are looked up again.
StartEndPoint ==
  /\ crt.pc = "endpoint" /\ EndPointsLock = None /\ ~panicked
  /\ LET c == crt.id
         first == SelectInSeq(EndPoints, LAMBDA e : MatchesContainer(e, c))
         found == IF first = 0 THEN [NoEndPoint EXCEPT !.EndPointName = NameOf[c]] ELSE EndPoints[first]
         identities == found.Identities \cup IdentitiesOf(c)
         new == [found EXCEPT !.Containers = @ \cup {c}, !.Identities = identities,
                              !.SecurityPolicies = Matching(identities)]
     IN  /\ EndPoints' = IF first = 0 THEN Append(EndPoints, new) ELSE [EndPoints EXCEPT ![first] = new]
         /\ crt' = [crt EXCEPT !.pc = "register", !.endPoint = new]
  /\ UNCHANGED <<SecurityPolicies, HostSecurityPolicies, EndPointsLock, Containers, enforced, files,
                 call, todo, panicked, crashes, may>>

StartRegister ==
  /\ crt.pc = "register" /\ ~panicked
  /\ ContainerMap' = ContainerMap \cup {crt.id}
  /\ crt' = [crt EXCEPT !.pc = "push"]
  /\ UNCHANGED <<memory, Rules, hostRules, files, call, todo, panicked, crashes, may>>

StartPush ==
  /\ crt.pc = "push" /\ ~panicked
  /\ Rules' = IF crt.endPoint.SecurityPolicies = <<>> THEN Rules ELSE Pushed(Rules, crt.endPoint)
  /\ crt' = RuntimeIdle
  /\ UNCHANGED <<memory, ContainerMap, hostRules, files, call, todo, panicked, crashes, may>>

ContainerDestroy(c) ==
  /\ c \in Containers /\ crt.pc = "idle" /\ EndPointsLock = None /\ ~panicked
  /\ Serial => AllIdle
  /\ EndPoints' = [k \in DOMAIN EndPoints |->
                     IF MatchesContainer(EndPoints[k], c)
                     THEN [EndPoints[k] EXCEPT !.Containers = @ \ {c}] ELSE EndPoints[k]]
  /\ Containers' = Containers \ {c}
  /\ crt' = [RuntimeIdle EXCEPT !.pc = "prune", !.id = c]
  /\ UNCHANGED <<SecurityPolicies, HostSecurityPolicies, EndPointsLock, enforced, files, call, todo,
                 panicked, crashes, may>>

\* The endpoint goes with its last container if no policy is left; no lock is taken.
DestroyPrune ==
  /\ crt.pc = "prune" /\ ~panicked
  /\ EndPoints' = SelectSeq(EndPoints, LAMBDA e : ~(/\ e.EndPointName = NameOf[crt.id]
                                                     /\ e.SecurityPolicies = <<>>
                                                     /\ e.Containers = {}))
  /\ crt' = [crt EXCEPT !.pc = "unregister"]
  /\ UNCHANGED <<SecurityPolicies, HostSecurityPolicies, EndPointsLock, Containers, enforced, files,
                 call, todo, panicked, crashes, may>>

\* A container that starts again has new namespaces, and no rules under them.
DestroyUnregister ==
  /\ crt.pc = "unregister" /\ ~panicked
  /\ ContainerMap' = ContainerMap \ {crt.id}
  /\ Rules' = [Rules EXCEPT ![crt.id] = NoRules]
  /\ crt' = RuntimeIdle
  /\ UNCHANGED <<memory, hostRules, files, call, todo, panicked, crashes, may>>
-----------------------------------------------------------------------------
Request(i, r) == (ContainerPolicy(i, r) \/ HostPolicy(i, r)) /\ UNCHANGED todo

Next ==
  \/ \E i \in Calls, r \in Requests : Request(i, r)
  \/ \E i \in Calls \cup {Main} : \/ ContainerEndPoints(i) \/ HostLength(i) \/ HostRead(i) \/ HostPush(i)
                                  \/ CreateFile(i) \/ WriteFile(i) \/ removeBackUpPolicy(i)
  \/ \E n \in PolicyNames : RestorePolicy(n)
  \/ Restart
  \/ \E c \in ContainerIDs : ContainerStart(c) \/ ContainerDestroy(c)
  \/ StartEndPoint \/ StartRegister \/ StartPush \/ DestroyPrune \/ DestroyUnregister

Spec == Init /\ [][Next]_vars
-----------------------------------------------------------------------------
(* Properties. *)

AllPolicies == {r.policy : r \in Requests}
EndPoint ==
  [EndPointName : Names \cup {""},
   Identities : SUBSET UNION ({IdentitiesOf(c) : c \in ContainerIDs} \cup {p.selector : p \in AllPolicies}),
   Containers : SUBSET ContainerIDs, SecurityPolicies : Seq(AllPolicies)]

\* Every variable keeps its type.
TypeOK ==
  /\ SecurityPolicies \in Seq(AllPolicies) /\ HostSecurityPolicies \in Seq(AllPolicies)
  /\ EndPoints \in Seq(EndPoint)
  /\ EndPointsLock \in Calls \cup {Main, None}
  /\ Containers \subseteq ContainerIDs /\ ContainerMap \subseteq ContainerIDs
  /\ Rules \in [ContainerIDs -> [policies : SUBSET AllPolicies, own : BOOLEAN]]
  /\ hostRules \subseteq AllPolicies
  /\ \A n \in PolicyNames : /\ files[n].kind \in {"none", "partial", "container", "host"}
                            /\ files[n].policy \in AllPolicies \cup {None}
                            /\ may[n] \subseteq AllPolicies \cup {None}
  /\ \A i \in Calls \cup {Main} :
       /\ call[i].pc \in {"idle", "endpoints", "length", "read", "backup", "write"}
       /\ call[i].length \in Nat /\ call[i].idx \in Nat /\ call[i].policies \in Seq(AllPolicies)
  /\ crt.pc \in {"idle", "endpoint", "register", "push", "prune", "unregister"}
  /\ todo \subseteq PolicyNames
  /\ panicked \in BOOLEAN /\ crashes \in 0..MaxCrashes

Quiet == AllIdle /\ todo = {} /\ ~panicked

InMemory == ToSet(SecurityPolicies) \cup ToSet(HostSecurityPolicies)
Stored(n) ==
  LET found == {p \in InMemory : p.policyName = n} IN IF found = {} THEN {None} ELSE found

\* Once the daemon is at rest, also after crashes at any point of a request or of a
\* restoration, each name has one version of its policy or none, and it is one the
\* answered requests leave possible: the last one answered, the one a crash cut off, or
\* none if the crash came while the file of the policy was being rewritten.
KeepsItsWord == Quiet => \A n \in PolicyNames : Cardinality(Stored(n)) = 1 /\ Stored(n) \subseteq may[n]

\* Once the daemon is at rest each file holds what memory holds, so that a restart then
\* changes nothing (backupKubeArmorContainerPolicy, removeBackUpPolicy).
BackedUp == Quiet => \A n \in PolicyNames : Stored(n) = {files[n].policy}

\* Once the daemon is at rest the rules in force on a registered container are those of
\* the stored policies that select it, whichever of the endpoint, the policy and the
\* container was there first and whether or not the daemon restarted since.  What a
\* crashed daemon left is in force only where no stored policy selects the container.
RulesInForce ==
  Quiet => \A c \in ContainerMap :
             LET policies == ToSet(Matching(IdentitiesOf(c)))
             IN  /\ policies # {} => Rules[c] = [policies |-> policies, own |-> TRUE]
                 /\ policies = {} => ~Rules[c].own

\* Once the daemon is at rest the host policies in force are the stored ones that select
\* the node (UpdateHostSecurityPolicies).
HostRulesInForce ==
  Quiet => hostRules = {p \in ToSet(HostSecurityPolicies) : MatchIdentities(p.selector, NodeIdentities)}

\* No index is out of range: endPointIndex follows the endpoints while they are removed,
\* and the list of host policies does not shrink while it is read.
NeverPanics == ~panicked
=============================================================================
