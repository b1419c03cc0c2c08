---------------------------- MODULE MCEndPoints ----------------------------
(* Small instances of EndPoints.  A behaviour takes place in one scene: a   *)
(* set of pods, containers and policies, and the events and overlaps it has. *)
EXTENDS Integers, Sequences, FiniteSets, TLC

CONSTANTS web, db, c1, c2, NoEndPoint

VARIABLES
  scene,
  podCache, policyCache, runtime, K8sPods, Containers, SecurityPolicies, EndPoints, Logger,
  ContainerMap, Rules, pod, policy, crt, panicked

S == INSTANCE Selectors

Pod(labels, containers) == [labels |-> labels, containers |-> containers, annotation |-> "none"]

NoContainer == [id \in {} |-> "none"]
One(id, name) == [i \in {id} |-> name]
Two(id1, name1, id2, name2) == [i \in {id1, id2} |-> IF i = id1 THEN name1 ELSE name2]

KSP(namespace, name, labels, containers, rev) ==
  [type |-> "KSP", namespaceName |-> namespace, policyName |-> name,
   selector |-> S!KSPSelector(namespace, labels, <<>>), containers |-> containers, rev |-> rev]
CSP(name, expressions, rev) ==
  [type |-> "CSP", namespaceName |-> "none", policyName |-> name,
   selector |-> S!CSPSelector({"ns1", "ns2"}, expressions), containers |-> {}, rev |-> rev]
NotInNamespaces(values) == <<[key |-> "namespace", operator |-> "NotIn", values |-> values]>>

TwoNamespaces == [p \in {web, db} |-> IF p = web THEN "ns1" ELSE "ns2"]
OneNamespace == [p \in {web} |-> "ns1"]

\* The web pod is seen before and after its container has an id.
SteadyPods ==
  (web :> <<Pod({"app=web"}, NoContainer), Pod({"app=web"}, One(c1, "main"))>>)
  @@ (db :> <<Pod({"app=db"}, One(c2, "main"))>>)

\* A pod with two containers whose ids are reported together.
PairedPod == web :> <<Pod({"app=web"}, NoContainer), Pod({"app=web"}, Two(c1, "main", c2, "side"))>>

\* A policy for one container name that loses and regains its pod as its labels change,
\* and a cluster policy.
SerialPolicies ==
  {KSP("ns2", "p", {"app=db"}, {"main"}, 1), KSP("ns2", "p", {"app=cache"}, {"main"}, 2),
   CSP("c", NotInNamespaces({"ns3"}), 1)}

PairedPolicies ==
  {KSP("ns1", "p", {"app=web"}, {"main"}, 1), KSP("ns1", "p", {"app=cache"}, {"main"}, 2),
   CSP("c", NotInNamespaces({"ns3"}), 1)}

SinglePods ==
  (web :> <<Pod({"app=web"}, One(c1, "main"))>>) @@ (db :> <<Pod({"app=db"}, One(c2, "main"))>>)

\* A policy of one of two namespaces, in two versions.
ConfinedPolicies == {KSP("ns1", "p", {}, {}, 1), KSP("ns1", "p", {"app=web"}, {}, 2)}

\* One name used in a namespace and for a cluster policy.
SharedNamePolicies == {KSP("ns1", "p", {}, {}, 1), CSP("p", <<>>, 1), CSP("p", <<>>, 2)}

\* A pod that is reported without, then with the id of its container.
PendingPod == web :> <<Pod({"app=web"}, NoContainer), Pod({"app=web"}, One(c1, "main"))>>

AllEvents ==
  {"podAdd", "podUpdate", "podDelete", "policyAdd", "policyUpdate", "policyDelete", "start", "destroy"}

\* Handlers one after the other, in every order.
Serial ==
  INSTANCE EndPoints WITH
    PodNames <- {web, db}, ContainerIDs <- {c1, c2}, NamespaceOf <- TwoNamespaces,
    PodHistory <- SteadyPods, Policies <- SerialPolicies, UntrackedNamespaces <- {},
    Shadowed <- FALSE, Overlap <- {}, Events <- AllEvents

\* The same with two containers in a pod.
Paired ==
  INSTANCE EndPoints WITH
    PodNames <- {web}, ContainerIDs <- {c1, c2}, NamespaceOf <- OneNamespace,
    PodHistory <- PairedPod, Policies <- PairedPolicies, UntrackedNamespaces <- {},
    Shadowed <- FALSE, Overlap <- {}, Events <- AllEvents

\* Every handler overlaps every other; pods and containers arrive, policies come, change and go.
Overlapping ==
  INSTANCE EndPoints WITH
    PodNames <- {web, db}, ContainerIDs <- {c1, c2}, NamespaceOf <- TwoNamespaces,
    PodHistory <- SinglePods, Policies <- ConfinedPolicies, UntrackedNamespaces <- {},
    Shadowed <- FALSE, Overlap <- {"pod", "KSP", "CSP", "runtime"},
    Events <- {"podAdd", "policyAdd", "policyUpdate", "policyDelete", "start"}

\* Missed deletions, failed calls, panics and restarts; one policy name in every scope.
Restarting ==
  INSTANCE EndPoints WITH
    PodNames <- {web}, ContainerIDs <- {c1}, NamespaceOf <- OneNamespace,
    PodHistory <- PendingPod, Policies <- SharedNamePolicies, UntrackedNamespaces <- {},
    Shadowed <- TRUE, Overlap <- {"pod", "KSP"},
    Events <- {"podAdd", "podDelete", "podTombstone", "policyAdd", "policyUpdate", "policyDelete",
               "listFails", "start"}

\* What the results of EndPointsProofs ask for holds in the scenes that show them.
ASSUME InTurnConditions ==
  /\ Serial!WellFormed /\ Serial!KindsApart /\ Serial!Namespaced /\ Serial!PodsStay
  /\ Serial!NamesApart /\ Serial!InTurn /\ Serial!PodsSteady /\ Serial!PoliciesSteady
  /\ Paired!WellFormed /\ Paired!KindsApart /\ Paired!Namespaced /\ Paired!PodsStay
  /\ Paired!NamesApart /\ Paired!InTurn /\ Paired!PodsSteady /\ Paired!PoliciesSteady
ASSUME OverlapConditions ==
  /\ Overlapping!WellFormed /\ Overlapping!KindsApart /\ Overlapping!Namespaced
  /\ Overlapping!PodsStay /\ Overlapping!NamesApart
  /\ Restarting!WellFormed /\ Restarting!KindsApart

vars == <<scene, podCache, policyCache, runtime, K8sPods, Containers, SecurityPolicies, EndPoints,
          Logger, ContainerMap, Rules, pod, policy, crt, panicked>>

Init ==
  \/ scene = "serial" /\ Serial!Init
  \/ scene = "paired" /\ Paired!Init
  \/ scene = "overlapping" /\ Overlapping!Init
  \/ scene = "restarting" /\ Restarting!Init

Next ==
  \/ scene = "serial" /\ Serial!Next /\ UNCHANGED scene
  \/ scene = "paired" /\ Paired!Next /\ UNCHANGED scene
  \/ scene = "overlapping" /\ Overlapping!Next /\ UNCHANGED scene
  \/ scene = "restarting" /\ Restarting!Next /\ UNCHANGED scene

Spec == Init /\ [][Next]_vars

\* When handlers do not overlap, dm.SecurityPolicies agrees with what the API server delivered
\* and every reported container has one endpoint with exactly the delivered policies that
\* select it (EndPoints!StoreInSync, EndPoints!EndPointsInSync).
EndPointsInSync ==
  /\ scene = "serial" => Serial!StoreInSync /\ Serial!EndPointsInSync
  /\ scene = "paired" => Paired!StoreInSync /\ Paired!EndPointsInSync

\* When handlers do not overlap, the rules in force on a container are those of the policies
\* that select it, whichever of pod, policy and container came first (EndPoints!RulesInSync).
RulesInSync ==
  /\ scene = "serial" => Serial!RulesInSync
  /\ scene = "paired" => Paired!RulesInSync

\* However the handlers overlap, as long as no pod goes meanwhile, no container runs under a
\* KubeArmorPolicy of another namespace (EndPoints!RulesConfined).
RulesConfined ==
  /\ scene = "serial" => Serial!RulesConfined
  /\ scene = "overlapping" => Overlapping!RulesConfined

\* However the handlers overlap, dm.SecurityPolicies never holds two versions of a policy, and
\* the daemon's state is well formed (EndPoints!OneVersionEach, EndPoints!TypeOK).
OneVersionEach ==
  /\ scene = "serial" => Serial!OneVersionEach /\ Serial!TypeOK
  /\ scene = "paired" => Paired!OneVersionEach /\ Paired!TypeOK
  /\ scene = "overlapping" => Overlapping!OneVersionEach /\ Overlapping!TypeOK
  /\ scene = "restarting" => Restarting!OneVersionEach /\ Restarting!TypeOK
=============================================================================
