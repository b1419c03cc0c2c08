---------------------------- MODULE MCContainers ----------------------------
(***************************************************************************)
(* What the daemon does when containers come and go: its tables and the    *)
(* presets (MCRuntimes), and the policies of a node without Kubernetes     *)
(* (Standalone, with the requests of MCStandalone).  The two modules have  *)
(* their own views of a container, so a behaviour is about one of them.    *)
(***************************************************************************)
EXTENDS MCRuntimes

CONSTANTS c1, c2, sender, main, Requests, NameOf, LabelsOf

VARIABLES
    subject,
    SecurityPolicies, HostSecurityPolicies, EndPoints, EndPointsLock, Containers, ContainerMap,
    Rules, hostRules, files, call, crt, todo, panicked, crashes, may,
    followed    \* the policies the requests of a behaviour are about

aloneVars == << SecurityPolicies, HostSecurityPolicies, EndPoints, EndPointsLock, Containers,
                ContainerMap, Rules, hostRules, files, call, crt, todo, panicked, crashes, may,
                followed >>

Sample == INSTANCE MCStandalone
MCRequests == Sample!LabelRequests
MCNameOf == Sample!MCNames
MCLabelsOf == Sample!MCLabels

Alone == INSTANCE Standalone WITH
    Names <- {"web", "db"}, NodeIdentities <- {"host"}, Calls <- {sender}, Main <- main,
    Serial <- TRUE, MaxCrashes <- 2

AnyConfig == Config("containerd", TRUE, "Exec", TRUE, {}, {})

ContainersInit ==
    /\ MCInit /\ Alone!Init
    /\ \/ subject = "tables" /\ followed = {}
       \/ subject = "policies" /\ config = AnyConfig /\ followed \in {{"p"}, {"h"}, {"p", "r"}}

\* A second crash, such as one while the policies are restored, where one policy is followed.
AloneNext ==
    /\ Alone!Next
    /\ crashes' > 1 => Cardinality(followed) = 1
    /\ UNCHANGED followed
    /\ call'[sender].req # None => call'[sender].req.policy.policyName \in followed

ContainersNext ==
    \/ subject = "tables" /\ MCNext /\ UNCHANGED << aloneVars, subject >>
    \/ subject = "policies" /\ AloneNext /\ UNCHANGED << vars, subject >>

ContainersSpec == ContainersInit /\ [][ContainersNext]_<< vars, aloneVars, subject >>

\* After crashes at any point a policy is in a version the answered requests leave possible,
\* at rest each file holds what memory holds, and the lists, files and goroutines are well
\* formed (Standalone!KeepsItsWord, BackedUp; restoreKubeArmorPolicies,
\* backupKubeArmorContainerPolicy, removeBackUpPolicy).
KeepsItsWord == subject = "policies" => Alone!KeepsItsWord /\ Alone!BackedUp /\ Alone!TypeOK

\* At rest the rules in force on a container are those of the stored policies that select
\* it, those of the host are the stored ones that select the node, and no handler indexes a
\* list out of range on the way (Standalone!RulesInForce, HostRulesInForce, NeverPanics;
\* UpdateContainerSecurityPolicies, UpdateHostSecurityPolicies, endPointIndex).
RulesInForce ==
    subject = "policies" => Alone!RulesInForce /\ Alone!HostRulesInForce /\ Alone!NeverPanics
=============================================================================
