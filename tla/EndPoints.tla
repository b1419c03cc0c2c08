----------------------------- MODULE EndPoints -----------------------------
(***************************************************************************)
(* How security policies reach the containers of a Kubernetes node.        *)
(*                                                                         *)
(* Four goroutines share the daemon's state: the pod informer, the two     *)
(* policy informers (KubeArmorPolicy "KSP", KubeArmorClusterPolicy "CSP")  *)
(* and the monitor of the container runtime.  An informer runs one handler *)
(* at a time; handlers of different informers overlap, and a handler lets  *)
(* go of its locks between the steps modelled as actions here.  An         *)
(* instance says in Overlap which of them may run at the same time.        *)
(*                                                                         *)
(* The enforcer (BPF-LSM) keeps a rule set per registered container and    *)
(* drops an update for any other.  Policies are enabled in the             *)
(* configuration; default postures, presets, visibility and AppArmor       *)
(* profiles are no part of this module.                                    *)
(*                                                                         *)
(* A list of policies is a value here.  In the code copies of an endpoint  *)
(* share the array behind the list, and UpdateSecurityPolicy edits it in   *)
(* place before it takes the lock again; what another handler may see of   *)
(* such an edit (a policy twice, or one early) is not modelled.            *)
(***************************************************************************)
EXTENDS Integers, Sequences, FiniteSets, Matching

CONSTANTS
  PodNames,
  ContainerIDs,
  NamespaceOf,   \* [PodNames -> namespaces]
  PodHistory,    \* [PodNames -> Seq(pod version)]: what the API server reports over time
  Policies,      \* policy objects, as CreateSecurityPolicy builds them
  UntrackedNamespaces,
  Shadowed,      \* the runtime handler loses the endpoint it finds (containerd, Docker)
  Overlap,       \* the handlers that may overlap each other
  Events,        \* the events that happen in this instance
  NoEndPoint

VARIABLES
  podCache,         \* [PodNames -> Nat]: version of the pod last delivered, 0 for none
  policyCache,      \* SUBSET Policies: the policy objects last delivered
  runtime,          \* [ContainerIDs -> "new" | "running" | "gone"]
  K8sPods,          \* dm.K8sPods
  Containers,       \* dm.Containers: who has described a container, {} for no entry
  SecurityPolicies, \* dm.SecurityPolicies
  EndPoints,        \* dm.EndPoints
  Logger,           \* fd.SecurityPolicies: [PodNames -> SUBSET Policies]
  ContainerMap,     \* the enforcer's registered containers
  Rules,            \* [ContainerIDs -> SUBSET Policies]: the rules in force
  pod,              \* the pod handler
  policy,           \* the two policy handlers
  crt,              \* the container runtime handler
  panicked          \* an index was out of range

cluster == <<podCache, policyCache, runtime>>
enforcer == <<ContainerMap, Rules>>
handlers == <<pod, policy, crt>>
vars == <<cluster, K8sPods, Containers, SecurityPolicies, EndPoints, Logger, enforcer,
          handlers, panicked>>

Types == {"KSP", "CSP"}
Handlers == Types \cup {"pod", "runtime"}

PodIdle ==
  [pc |-> "idle", name |-> NoEndPoint, version |-> NoEndPoint, added |-> FALSE,
   policies |-> <<>>, endpoints |-> <<>>]
PolicyIdle ==
  [pc |-> "idle", action |-> "none", object |-> NoEndPoint, length |-> 0, idx |-> 0,
   endPoint |-> NoEndPoint, torn |-> NoEndPoint]
RuntimeIdle == [pc |-> "idle", id |-> NoEndPoint, endPoint |-> NoEndPoint]

Busy == {h \in Handlers : CASE h = "pod" -> pod.pc # "idle"
                            [] h = "runtime" -> crt.pc # "idle"
                            [] OTHER -> policy[h].pc # "idle"}

\* A handler starts when its informer is free, alongside others if it may overlap them.
MayStart(h) ==
  ~panicked /\ h \notin Busy /\ (Busy = {} \/ Busy \cup {h} \subseteq Overlap)

Init ==
  /\ podCache = [p \in PodNames |-> 0]
  /\ policyCache = {}
  /\ runtime = [c \in ContainerIDs |-> "new"]
  /\ K8sPods = {}
  /\ Containers = [c \in ContainerIDs |-> {}]
  /\ SecurityPolicies = <<>>
  /\ EndPoints = <<>>
  /\ Logger = [p \in PodNames |-> {}]
  /\ ContainerMap = {}
  /\ Rules = [c \in ContainerIDs |-> {}]
  /\ pod = PodIdle
  /\ policy = [t \in Types |-> PolicyIdle]
  /\ crt = RuntimeIdle
  /\ panicked = FALSE
-----------------------------------------------------------------------------
(* Lists.  What a loop looks for is given as a set. *)

ToSet(s) == {s[i] : i \in DOMAIN s}

\* The first place of a list with an element of S, or 0.
FirstIn(s, S) ==
  IF ToSet(s) \cap S = {} THEN 0
  ELSE CHOOSE i \in DOMAIN s : s[i] \in S /\ \A j \in 1 .. i - 1 : s[j] \notin S

WithoutFirst(s, S) ==
  LET i == FirstIn(s, S)
  IN  IF i = 0 THEN s ELSE [k \in 1 .. Len(s) - 1 |-> IF k < i THEN s[k] ELSE s[k + 1]]

WithFirst(s, S, x) == [s EXCEPT ![FirstIn(s, S)] = x]

\* The elements of a list that are in S, in their order.
Kept(s, S) ==
  LET kept[i \in 0 .. Len(s)] ==
        IF i = 0 THEN <<>> ELSE IF s[i] \in S THEN Append(kept[i - 1], s[i]) ELSE kept[i - 1]
  IN  kept[Len(s)]

\* The orders in which the members of a set may come.
Orders(S) == {f \in [1 .. Cardinality(S) -> S] : \A x \in S : \E i \in DOMAIN f : f[i] = x}
-----------------------------------------------------------------------------
(* What a handler computes. *)

SamePolicy(p, q) ==
  /\ p.policyName = q.policyName
  /\ p.type = "KSP" => p.namespaceName = q.namespaceName

SelectsContainer(p, containerName) ==
  p.containers = {} \/ containerName \in p.containers

\* Mutant: the identities are forgotten.
SelectsByExpression(p, endPoint) == MatchExpIdentities(p.selector, endPoint.Identities)

Selects(p, endPoint) ==
  Selected(p.selector, NamespaceOf[endPoint.EndPointName], endPoint.Identities)

SameAs(p) == {q \in Policies : SamePolicy(p, q)}
HoldsPolicy(p, secPolicies) == ToSet(secPolicies) \cap SameAs(p) # {}

AddedPolicy(p, endPoint) ==
  IF Selects(p, endPoint) /\ ~HoldsPolicy(p, endPoint.SecurityPolicies)
  THEN Append(endPoint.SecurityPolicies, p) ELSE endPoint.SecurityPolicies

\* Mutant: an update never takes a policy away from an endpoint.
ModifiedPolicyKept(p, endPoint) ==
  LET old == endPoint.SecurityPolicies
  IN  CASE HoldsPolicy(p, old) -> WithFirst(old, SameAs(p), p)
        [] ~HoldsPolicy(p, old) /\ Selects(p, endPoint) -> Append(old, p)
        [] OTHER -> old

ModifiedPolicy(p, endPoint) ==
  LET old == endPoint.SecurityPolicies
  IN  CASE HoldsPolicy(p, old) /\ Selects(p, endPoint) -> WithFirst(old, SameAs(p), p)
        [] HoldsPolicy(p, old) /\ ~Selects(p, endPoint) -> WithoutFirst(old, SameAs(p))
        [] ~HoldsPolicy(p, old) /\ Selects(p, endPoint) -> Append(old, p)
        [] OTHER -> old

DeletedPolicy(p, endPoint) == WithoutFirst(endPoint.SecurityPolicies, SameAs(p))

UpdatedPolicies(action, p, endPoint) ==
  CASE action = "ADDED" -> AddedPolicy(p, endPoint)
    [] action = "MODIFIED" -> ModifiedPolicy(p, endPoint)
    [] action = "DELETED" -> DeletedPolicy(p, endPoint)

\* The endpoints UpdateSecurityPolicy does not skip: a KSP goes by its container names, a
\* CSP by its namespaces and by the policies the endpoint already has.
Concerns(p, endPoint) ==
  IF p.type = "KSP" THEN SelectsContainer(p, endPoint.ContainerName)
  ELSE \/ NamespaceOf[endPoint.EndPointName] \in p.selector.NamespaceList
       \/ HoldsPolicy(p, endPoint.SecurityPolicies)

\* The kubearmor-policy annotation as handlePodEvent normalises it, for an enforcer that
\* can enforce.
PolicyEnabled(name, version) ==
  CASE NamespaceOf[name] = "kube-system" \/ "io.cilium/app" \in version.labels -> "audited"
    [] version.annotation \in {"enabled", "disabled", "audited"} -> version.annotation
    [] OTHER -> "enabled"

IdentitiesOf(name, version) == {NamespaceOf[name]} \cup version.labels

PodEndPoint(name, version, id, policies) ==
  [EndPointName |-> name,
   Identities |-> IdentitiesOf(name, version),
   ContainerName |-> version.containers[id],
   ContainerID |-> id,
   PolicyEnabled |-> PolicyEnabled(name, version),
   SecurityPolicies |->
     Kept(policies, {p \in Policies : SelectsContainer(p, version.containers[id])})]

GetSecurityPolicies(name, identities) ==
  Kept(SecurityPolicies,
       {p \in Policies : Selected(p.selector, NamespaceOf[name], identities)})

\* The rules after an endpoint is handed to the enforcer.
Enforced(endPoint) ==
  IF endPoint.ContainerID \in ContainerMap
  THEN [Rules EXCEPT ![endPoint.ContainerID] = ToSet(endPoint.SecurityPolicies)]
  ELSE Rules

Enforceable(endPoint) ==
  /\ endPoint.PolicyEnabled = "enabled"
  /\ NamespaceOf[endPoint.EndPointName] \notin UntrackedNamespaces
-----------------------------------------------------------------------------
(* The pod informer: handlePodEvent and UpdateEndPointWithPod. *)

\* The rest of the daemon while a pod handler runs one of its steps.
PodStep(from) ==
  /\ ~panicked /\ pod.pc = from
  /\ UNCHANGED <<cluster, SecurityPolicies, ContainerMap, policy, crt, panicked>>

\* An 'ADDED' event for a pod that dm.K8sPods still lists is treated as 'MODIFIED'.
PodAdded(p) ==
  /\ "podAdd" \in Events /\ MayStart("pod") /\ podCache[p] = 0
  /\ \E v \in DOMAIN PodHistory[p] :
       /\ podCache' = [podCache EXCEPT ![p] = v]
       /\ pod' = [PodIdle EXCEPT !.pc = IF p \in K8sPods THEN "lookup" ELSE "containers",
                                 !.name = p, !.version = PodHistory[p][v],
                                 !.added = p \notin K8sPods]
  /\ K8sPods' = K8sPods \cup {p}
  /\ UNCHANGED <<policyCache, runtime, Containers, SecurityPolicies, EndPoints, Logger,
                 enforcer, policy, crt, panicked>>

PodModified(p) ==
  /\ "podUpdate" \in Events /\ MayStart("pod") /\ podCache[p] # 0
  /\ \E v \in podCache[p] .. Len(PodHistory[p]) :
       /\ podCache' = [podCache EXCEPT ![p] = v]
       /\ pod' = [PodIdle EXCEPT !.pc = "lookup", !.name = p, !.version = PodHistory[p][v]]
  /\ UNCHANGED <<policyCache, runtime, K8sPods, Containers, SecurityPolicies, EndPoints,
                 Logger, enforcer, policy, crt, panicked>>

PodDeleted(p) ==
  /\ "podDelete" \in Events /\ MayStart("pod") /\ podCache[p] # 0
  /\ podCache' = [podCache EXCEPT ![p] = 0]
  /\ K8sPods' = K8sPods \ {p}
  /\ pod' = [PodIdle EXCEPT !.pc = "remove", !.name = p]
  /\ UNCHANGED <<policyCache, runtime, Containers, SecurityPolicies, EndPoints, Logger,
                 enforcer, policy, crt, panicked>>

\* A deletion missed while the watch was down is delivered as a
\* cache.DeletedFinalStateUnknown, which is no *corev1.Pod: DeleteFunc does nothing.
PodTombstone(p) ==
  /\ "podTombstone" \in Events /\ MayStart("pod") /\ podCache[p] # 0
  /\ podCache' = [podCache EXCEPT ![p] = 0]
  /\ UNCHANGED <<policyCache, runtime, K8sPods, Containers, SecurityPolicies, EndPoints,
                 Logger, enforcer, handlers, panicked>>

OfPod == {e \in ToSet(EndPoints) : e.EndPointName = pod.name}

\* 'MODIFIED': the first endpoint of the pod; when there is none, the same as 'ADDED'.
PodLookup ==
  /\ PodStep("lookup")
  /\ LET i == FirstIn(EndPoints, OfPod)
     IN  pod' = [pod EXCEPT !.pc = "containers", !.added = (i = 0),
                            !.endpoints = IF i = 0 THEN <<>> ELSE <<EndPoints[i]>>]
  /\ UNCHANGED <<K8sPods, Containers, EndPoints, Logger, Rules>>

\* Every container the pod reports gets the pod's names, an entry of its own if need be.
PodContainers ==
  /\ PodStep("containers")
  /\ Containers' = [c \in ContainerIDs |->
                      IF c \in DOMAIN pod.version.containers
                      THEN Containers[c] \cup {"pod"} ELSE Containers[c]]
  /\ pod' = [pod EXCEPT !.pc = "policies"]
  /\ UNCHANGED <<K8sPods, EndPoints, Logger, Rules>>

PodPolicies ==
  /\ PodStep("policies")
  /\ pod' = [pod EXCEPT !.pc = "publish",
               !.policies = GetSecurityPolicies(pod.name, IdentitiesOf(pod.name, pod.version))]
  /\ UNCHANGED <<K8sPods, Containers, EndPoints, Logger, Rules>>

\* 'ADDED': one endpoint per container, in the order the map yields them.
PodPublish ==
  /\ PodStep("publish") /\ pod.added
  /\ \E ids \in Orders(DOMAIN pod.version.containers) :
       LET new == [i \in DOMAIN ids |->
                     PodEndPoint(pod.name, pod.version, ids[i], pod.policies)]
       IN  /\ EndPoints' = EndPoints \o new
           /\ pod' = IF ids = <<>> THEN PodIdle
                     ELSE [pod EXCEPT !.pc = "push", !.endpoints = new]
  /\ UNCHANGED <<K8sPods, Containers, Logger, Rules>>

\* 'MODIFIED': endpoints = append(newendpoints, endpoint) keeps the container the map yields
\* last, or the old endpoint when the pod reports no container.  dm.EndPoints stays as it
\* is: ContainsElement compares whole endpoints with a container name and finds none.
PodReplace ==
  /\ PodStep("publish") /\ ~pod.added
  /\ LET ids == DOMAIN pod.version.containers
     IN  \/ /\ ids = {}
            /\ pod' = [pod EXCEPT !.pc = "push"]
         \/ \E id \in ids :
              pod' = [pod EXCEPT !.pc = "push",
                !.endpoints = <<PodEndPoint(pod.name, pod.version, id, pod.policies)>>]
  /\ UNCHANGED <<K8sPods, Containers, EndPoints, Logger, Rules>>

\* The feeder, then the enforcer, for the next endpoint.
PodPush ==
  /\ PodStep("push")
  /\ LET endPoint == Head(pod.endpoints)
     IN  /\ Logger' = [Logger EXCEPT ![pod.name] = ToSet(endPoint.SecurityPolicies)]
         /\ Rules' = IF Enforceable(endPoint) THEN Enforced(endPoint) ELSE Rules
  /\ pod' = IF Len(pod.endpoints) = 1 THEN PodIdle
            ELSE [pod EXCEPT !.endpoints = Tail(@)]
  /\ UNCHANGED <<K8sPods, Containers, EndPoints>>

PodRemove ==
  /\ PodStep("remove")
  /\ EndPoints' = Kept(EndPoints, ToSet(EndPoints) \ OfPod)
  /\ pod' = PodIdle
  /\ UNCHANGED <<K8sPods, Containers, Logger, Rules>>
-----------------------------------------------------------------------------
(* The policy informers: WatchSecurityPolicies, WatchClusterSecurityPolicies and       *)
(* UpdateSecurityPolicy.                                                               *)

Delivered(p) ==
  {q \in policyCache : q.type = p.type /\ q.namespaceName = p.namespaceName
                                      /\ q.policyName = p.policyName}

\* Mutant: 'ADDED' appends without looking for the policy.
StoredTwice(action, p) ==
  CASE action = "ADDED" -> Append(SecurityPolicies, p)
    [] action = "MODIFIED" ->
         IF HoldsPolicy(p, SecurityPolicies) THEN WithFirst(SecurityPolicies, SameAs(p), p)
         ELSE SecurityPolicies
    [] action = "DELETED" -> WithoutFirst(SecurityPolicies, SameAs(p))

\* The stored list after the handler's critical section on SecurityPoliciesLock.
Stored(action, p) ==
  CASE action = "ADDED" ->
         IF HoldsPolicy(p, SecurityPolicies) THEN SecurityPolicies
         ELSE Append(SecurityPolicies, p)
    [] action = "MODIFIED" ->
         IF HoldsPolicy(p, SecurityPolicies) THEN WithFirst(SecurityPolicies, SameAs(p), p)
         ELSE SecurityPolicies
    [] action = "DELETED" -> WithoutFirst(SecurityPolicies, SameAs(p))

PolicyEvent(action, p, cache) ==
  /\ policyCache' = cache
  /\ SecurityPolicies' = Stored(action, p)
  /\ policy' = [policy EXCEPT ![p.type] =
                  [PolicyIdle EXCEPT !.pc = "length", !.action = action, !.object = p]]
  /\ UNCHANGED <<podCache, runtime, K8sPods, Containers, EndPoints, Logger, enforcer, pod,
                 crt, panicked>>

PolicyAdded(p) ==
  /\ "policyAdd" \in Events /\ MayStart(p.type) /\ Delivered(p) = {}
  /\ PolicyEvent("ADDED", p, policyCache \cup {p})

PolicyModified(p) ==
  /\ "policyUpdate" \in Events /\ MayStart(p.type) /\ Delivered(p) # {}
  /\ p \notin policyCache
  /\ PolicyEvent("MODIFIED", p, (policyCache \ Delivered(p)) \cup {p})

PolicyDeleted(p) ==
  /\ "policyDelete" \in Events /\ MayStart(p.type) /\ p \in policyCache
  /\ PolicyEvent("DELETED", p, policyCache \ {p})

\* CreateSecurityPolicy asks the API server for the namespaces of a cluster policy; when
\* that fails the handler returns and the informer does not deliver the event again.
NamespaceListFails(p) ==
  /\ "listFails" \in Events /\ p.type = "CSP" /\ MayStart(p.type)
  /\ \/ Delivered(p) = {} /\ policyCache' = policyCache \cup {p}
     \/ p \in policyCache /\ policyCache' = policyCache \ {p}
  /\ UNCHANGED <<podCache, runtime, K8sPods, Containers, SecurityPolicies, EndPoints, Logger,
                 enforcer, handlers, panicked>>

PolicyStep(t, from) ==
  /\ ~panicked /\ policy[t].pc = from
  /\ UNCHANGED <<cluster, K8sPods, Containers, SecurityPolicies, ContainerMap, pod, crt>>

\* The handler after it is done with the endpoint at idx.
NextIndex(h) ==
  IF h.idx = h.length THEN PolicyIdle
  ELSE [h EXCEPT !.pc = "copy", !.idx = @ + 1, !.endPoint = NoEndPoint, !.torn = NoEndPoint]

InRange(t) == policy[t].idx <= Len(EndPoints)

PolicyLength(t) ==
  /\ PolicyStep(t, "length")
  /\ policy' = [policy EXCEPT ![t] = NextIndex([@ EXCEPT !.length = Len(EndPoints)])]
  /\ UNCHANGED <<EndPoints, Logger, Rules, panicked>>

PolicyCopy(t) ==
  /\ PolicyStep(t, "copy") /\ InRange(t)
  /\ LET endPoint == EndPoints[policy[t].idx]
     IN  policy' = [policy EXCEPT ![t] =
           IF Concerns(@.object, endPoint)
           THEN [@ EXCEPT !.pc = "write",
                  !.endPoint = [endPoint EXCEPT
                    !.SecurityPolicies = UpdatedPolicies(policy[t].action, policy[t].object,
                                                         endPoint)]]
           ELSE NextIndex(@)]
  /\ UNCHANGED <<EndPoints, Logger, Rules, panicked>>

PolicyWrite(t) ==
  /\ PolicyStep(t, "write") /\ InRange(t)
  /\ EndPoints' = [EndPoints EXCEPT ![policy[t].idx] = policy[t].endPoint]
  /\ policy' = [policy EXCEPT ![t].pc = "log"]
  /\ UNCHANGED <<Logger, Rules, panicked>>

\* The feeder gets the handler's own copy; from here on dm.EndPoints[idx] is read again
\* without a lock.
PolicyLog(t) ==
  /\ PolicyStep(t, "log") /\ InRange(t)
  /\ Logger' = [Logger EXCEPT ![policy[t].endPoint.EndPointName] =
                  ToSet(policy[t].endPoint.SecurityPolicies)]
  /\ LET endPoint == EndPoints[policy[t].idx]
     IN  policy' = [policy EXCEPT ![t] =
           IF Enforceable(endPoint) THEN [@ EXCEPT !.pc = "enforce", !.torn = endPoint]
           ELSE NextIndex(@)]
  /\ UNCHANGED <<EndPoints, Rules, panicked>>

\* The unlocked copy of dm.EndPoints[idx] may be torn: its container is read before its
\* policies, and another handler may write the slot in between.
PolicyEnforce(t) ==
  /\ PolicyStep(t, "enforce") /\ InRange(t)
  /\ Rules' = Enforced([policy[t].torn EXCEPT
                 !.SecurityPolicies = EndPoints[policy[t].idx].SecurityPolicies])
  /\ policy' = [policy EXCEPT ![t] = NextIndex(@)]
  /\ UNCHANGED <<EndPoints, Logger, panicked>>

\* The list has become shorter than the length read at the start: index out of range.
PolicyPanic(t) ==
  /\ \E from \in {"copy", "write", "log", "enforce"} : PolicyStep(t, from)
  /\ ~InRange(t)
  /\ panicked' = TRUE
  /\ UNCHANGED <<policy, EndPoints, Logger, Rules>>

\* The daemon is started again; its informers list every object anew and the runtime
\* monitor lists the containers that run.
Restart ==
  /\ panicked
  /\ podCache' = [p \in PodNames |-> 0]
  /\ policyCache' = {}
  /\ K8sPods' = {}
  /\ Containers' = [c \in ContainerIDs |-> {}]
  /\ SecurityPolicies' = <<>>
  /\ EndPoints' = <<>>
  /\ Logger' = [p \in PodNames |-> {}]
  /\ ContainerMap' = {}
  /\ Rules' = [c \in ContainerIDs |-> {}]
  /\ pod' = PodIdle
  /\ policy' = [t \in Types |-> PolicyIdle]
  /\ crt' = RuntimeIdle
  /\ panicked' = FALSE
  /\ runtime' = [c \in ContainerIDs |-> IF runtime[c] = "running" THEN "new" ELSE runtime[c]]
-----------------------------------------------------------------------------
(* The container runtime: UpdateContainerdContainer, UpdateDockerContainer (Shadowed),  *)
(* UpdateCrioContainer and the NRI handlers (not Shadowed), in Kubernetes mode.         *)

RuntimeStep(from) ==
  /\ ~panicked /\ crt.pc = from
  /\ UNCHANGED <<cluster, K8sPods, Containers, SecurityPolicies, EndPoints, pod, policy,
                 panicked>>

\* A container nobody knows is stored; one the pod informer described first is completed
\* with the namespaces the runtime knows.
ContainerStart(c) ==
  /\ "start" \in Events /\ MayStart("runtime") /\ runtime[c] = "new"
  /\ runtime' = [runtime EXCEPT ![c] = "running"]
  /\ Containers' = [Containers EXCEPT ![c] = @ \cup {"runtime"}]
  /\ crt' = [RuntimeIdle EXCEPT !.id = c,
               !.pc = IF Containers[c] = {} THEN "register" ELSE "lookup"]
  /\ UNCHANGED <<podCache, policyCache, K8sPods, SecurityPolicies, EndPoints, Logger,
                 enforcer, pod, policy, panicked>>

\* Mutant: the endpoint is looked up and then not kept.
ContainerLookupForgets ==
  /\ RuntimeStep("lookup")
  /\ crt' = [crt EXCEPT !.pc = "register"]
  /\ UNCHANGED <<Logger, enforcer>>

\* containerd and Docker assign the endpoint they find to the loop's own variable.
ContainerLookup ==
  /\ RuntimeStep("lookup")
  /\ LET i == FirstIn(EndPoints, {e \in ToSet(EndPoints) : e.ContainerID = crt.id})
     IN  crt' = [crt EXCEPT !.pc = "register",
                   !.endPoint = IF i = 0 \/ Shadowed THEN NoEndPoint ELSE EndPoints[i]]
  /\ UNCHANGED <<Logger, enforcer>>

ContainerRegister ==
  /\ RuntimeStep("register")
  /\ ContainerMap' = ContainerMap \cup {crt.id}
  /\ Rules' = [Rules EXCEPT ![crt.id] = {}]
  /\ crt' = IF crt.endPoint = NoEndPoint THEN RuntimeIdle ELSE [crt EXCEPT !.pc = "push"]
  /\ UNCHANGED Logger

\* The endpoint found is enforced on the container just registered.
ContainerPush ==
  /\ RuntimeStep("push")
  /\ IF crt.endPoint.SecurityPolicies = <<>> THEN UNCHANGED <<Logger, Rules>>
     ELSE /\ Logger' = [Logger EXCEPT ![crt.endPoint.EndPointName] =
                          ToSet(crt.endPoint.SecurityPolicies)]
          /\ Rules' = IF crt.endPoint.PolicyEnabled = "enabled" THEN Enforced(crt.endPoint)
                      ELSE Rules
  /\ crt' = RuntimeIdle
  /\ UNCHANGED ContainerMap

ContainerDestroy(c) ==
  /\ "destroy" \in Events /\ MayStart("runtime") /\ runtime[c] = "running"
  /\ runtime' = [runtime EXCEPT ![c] = "gone"]
  /\ Containers' = [Containers EXCEPT ![c] = {}]
  /\ crt' = IF Containers[c] = {} THEN crt
            ELSE [RuntimeIdle EXCEPT !.pc = "unregister", !.id = c]
  /\ UNCHANGED <<podCache, policyCache, K8sPods, SecurityPolicies, EndPoints, Logger,
                 enforcer, pod, policy, panicked>>

ContainerUnregister ==
  /\ RuntimeStep("unregister")
  /\ ContainerMap' = ContainerMap \ {crt.id}
  /\ Rules' = [Rules EXCEPT ![crt.id] = {}]
  /\ crt' = RuntimeIdle
  /\ UNCHANGED Logger
-----------------------------------------------------------------------------
Next ==
  \/ \E p \in PodNames : PodAdded(p) \/ PodModified(p) \/ PodDeleted(p) \/ PodTombstone(p)
  \/ PodLookup \/ PodContainers \/ PodPolicies \/ PodPublish \/ PodReplace \/ PodPush
  \/ PodRemove
  \/ \E p \in Policies : \/ PolicyAdded(p) \/ PolicyModified(p) \/ PolicyDeleted(p)
                         \/ NamespaceListFails(p)
  \/ \E t \in Types : \/ PolicyLength(t) \/ PolicyCopy(t) \/ PolicyWrite(t) \/ PolicyLog(t)
                      \/ PolicyEnforce(t) \/ PolicyPanic(t)
  \/ Restart
  \/ \E c \in ContainerIDs : ContainerStart(c) \/ ContainerDestroy(c)
  \/ ContainerLookup \/ ContainerRegister \/ ContainerPush \/ ContainerUnregister

Spec == Init /\ [][Next]_vars
-----------------------------------------------------------------------------
(* Properties. *)

Versions == UNION {{PodHistory[p][v] : v \in DOMAIN PodHistory[p]} : p \in PodNames}
Identities == UNION {IdentitiesOf(p, v) : p \in PodNames, v \in Versions}
ContainerNames == UNION {{v.containers[id] : id \in DOMAIN v.containers} : v \in Versions}

EndPoint ==
  [EndPointName : PodNames, Identities : SUBSET Identities,
   ContainerName : ContainerNames, ContainerID : ContainerIDs,
   PolicyEnabled : {"enabled", "audited", "disabled"}, SecurityPolicies : Seq(Policies)]

PodHandler ==
  [pc : {"idle", "lookup", "containers", "policies", "publish", "push", "remove"},
   name : PodNames \cup {NoEndPoint}, version : Versions \cup {NoEndPoint},
   added : BOOLEAN, policies : Seq(Policies), endpoints : Seq(EndPoint)]

PolicyHandler ==
  [pc : {"idle", "length", "copy", "write", "log", "enforce"},
   action : {"none", "ADDED", "MODIFIED", "DELETED"}, object : Policies \cup {NoEndPoint},
   length : Nat, idx : Nat, endPoint : EndPoint \cup {NoEndPoint},
   torn : EndPoint \cup {NoEndPoint}]

RuntimeHandler ==
  [pc : {"idle", "lookup", "register", "push", "unregister"},
   id : ContainerIDs \cup {NoEndPoint}, endPoint : EndPoint \cup {NoEndPoint}]

\* Every variable keeps its type.
TypeOK ==
  /\ podCache \in [PodNames -> Nat]
  /\ policyCache \subseteq Policies
  /\ runtime \in [ContainerIDs -> {"new", "running", "gone"}]
  /\ K8sPods \subseteq PodNames
  /\ Containers \in [ContainerIDs -> SUBSET {"pod", "runtime"}]
  /\ SecurityPolicies \in Seq(Policies)
  /\ EndPoints \in Seq(EndPoint)
  /\ Logger \in [PodNames -> SUBSET Policies]
  /\ ContainerMap \subseteq ContainerIDs
  /\ Rules \in [ContainerIDs -> SUBSET Policies]
  /\ pod \in PodHandler
  /\ policy \in [Types -> PolicyHandler]
  /\ crt \in RuntimeHandler
  /\ panicked \in BOOLEAN

Quiet == Busy = {} /\ ~panicked
LivePods == {p \in PodNames : podCache[p] # 0}
Version(p) == PodHistory[p][podCache[p]]
Reported(p) == DOMAIN Version(p).containers

\* The delivered policies that select a container of a delivered pod.
Expected(p, id) ==
  {q \in policyCache :
     /\ Selected(q.selector, NamespaceOf[p], IdentitiesOf(p, Version(p)))
     /\ SelectsContainer(q, Version(p).containers[id])}

\* Once the handlers are done, dm.SecurityPolicies holds each policy object the API server
\* delivered and did not delete since, once and in its last version.
StoreInSync ==
  Quiet => /\ ToSet(SecurityPolicies) = policyCache
           /\ Len(SecurityPolicies) = Cardinality(policyCache)

\* Once the handlers are done, every container a delivered pod reports has one endpoint,
\* which carries exactly the delivered policies that select it ("apply security policies
\* to pods", kubeUpdate.go), and no endpoint is left of a pod that was deleted.
EndPointsInSync ==
  Quiet =>
    /\ \A i \in DOMAIN EndPoints : EndPoints[i].EndPointName \in LivePods
    /\ \A p \in LivePods : \A id \in Reported(p) :
         LET mine == {i \in DOMAIN EndPoints : EndPoints[i].ContainerID = id}
         IN  /\ Cardinality(mine) = 1
             /\ \A i \in mine : ToSet(EndPoints[i].SecurityPolicies) = Expected(p, id)

\* Once the handlers are done, the rules in force on a running container of a pod whose
\* policies are enforceable are those of the policies that select it, whichever of the
\* pod, the policy and the container was seen first.
RulesInSync ==
  Quiet =>
    \A p \in LivePods : \A id \in Reported(p) \cap ContainerMap :
      /\ PolicyEnabled(p, Version(p)) = "enabled"
      /\ NamespaceOf[p] \notin UntrackedNamespaces
      => Rules[id] = Expected(p, id)

Owned(p) == UNION {DOMAIN PodHistory[p][v].containers : v \in DOMAIN PodHistory[p]}

\* However the handlers overlap, no container runs under a KubeArmorPolicy of a namespace
\* other than its pod's (GetSecurityPolicies, UpdateSecurityPolicy).
RulesConfined ==
  \A p \in PodNames : \A id \in Owned(p) : \A q \in Rules[id] :
    q.type = "KSP" => q.namespaceName = NamespaceOf[p]

\* However the handlers overlap, dm.SecurityPolicies never holds two versions of a policy:
\* the informers' AddFuncs append only what they do not find in the list.
OneVersionEach ==
  \A i, j \in DOMAIN SecurityPolicies :
    i # j => ~ /\ SecurityPolicies[i].type = SecurityPolicies[j].type
               /\ SamePolicy(SecurityPolicies[i], SecurityPolicies[j])
-----------------------------------------------------------------------------
(* What the theorems of EndPointsProofs ask of the pods, the policies and the events. *)

WellFormed ==
  /\ \A p \in PodNames : Len(PodHistory[p]) \in Nat /\ DOMAIN PodHistory[p] = 1 .. Len(PodHistory[p])
  /\ \A v \in Versions : DOMAIN v.containers \subseteq ContainerIDs /\ IsFiniteSet(DOMAIN v.containers)
  /\ \A p \in Policies : p.type \in Types
  /\ NoEndPoint \notin EndPoint

\* A cluster policy is in no namespace.
KindsApart ==
  \A p, q \in Policies : p.type = "KSP" /\ q.type = "CSP" => p.namespaceName # q.namespaceName

\* The selector of a KubeArmorPolicy has the policy's namespace, which is no pod's label;
\* the pods that share a container are in one namespace.
Namespaced ==
  /\ \A q \in Policies : q.type = "KSP" => /\ q.namespaceName \in q.selector.Identities
                                          /\ q.selector.NamespaceList = {}
                                          /\ \A v \in Versions : q.namespaceName \notin v.labels
  /\ \A p, q \in PodNames : Owned(p) \cap Owned(q) # {} => NamespaceOf[p] = NamespaceOf[q]

\* No pod goes while a policy is applied.
PodsStay == "podDelete" \in Events => "pod" \notin Overlap \/ Overlap \cap Types = {}

\* No name is used both for a KubeArmorPolicy and for a cluster policy, and no call fails.
NamesApart ==
  /\ \A p, q \in Policies : SamePolicy(p, q) => p.type = q.type /\ p.namespaceName = q.namespaceName
  /\ "listFails" \notin Events

\* Handlers run in turn and every event is seen.
InTurn == Overlap = {} /\ "podTombstone" \notin Events

\* A pod keeps its labels and its annotation; its containers are reported together, and are
\* no other pod's.
PodsSteady ==
  /\ \A p \in PodNames : \A v, w \in DOMAIN PodHistory[p] :
       LET one == PodHistory[p][v]
           other == PodHistory[p][w]
       IN  /\ one.labels = other.labels /\ one.annotation = other.annotation
           /\ \/ DOMAIN one.containers = {} \/ DOMAIN other.containers = {}
              \/ one.containers = other.containers
  /\ \A p, q \in PodNames : p # q => Owned(p) \cap Owned(q) = {}

\* A policy keeps its container names; a cluster policy has none and selects by namespaces.
PoliciesSteady ==
  /\ \A p, q \in Policies : SamePolicy(p, q) => p.containers = q.containers
  /\ \A p \in Policies : p.type = "CSP" => p.selector.Identities = {} /\ p.containers = {}
=============================================================================
