----------------------------- MODULE MCPolicies -----------------------------
(***************************************************************************)
(* A policy written setting by setting and rule by rule, beside the        *)
(* selectors of MCSelectors, the rules of PathRules for the BPF enforcer   *)
(* and those of MCProfiles for AppArmor.  The four have nothing to do with *)
(* each other, so a behaviour is about one of them.                        *)
(***************************************************************************)
EXTENDS MCPathRules, PolicyRules

VARIABLES
  subject,          \* what a behaviour is about
  written,          \* the specification of a policy as its author wrote it
  expressions, known, namespace, labels,
  asked, posture

Selector == INSTANCE MCSelectors
Profile == INSTANCE MCProfiles
selectorVars == <<expressions, known, namespace, labels>>
profileVars == <<asked, posture>>

Sections == {"process", "file", "network", "capabilities", "syscalls"}
NoSettings == [f \in Settings |-> Unset]
EmptySpec == [c \in Sections |-> [own |-> NoSettings, rules |-> <<>>]] @@ [own |-> NoSettings]

MaxRules == 2

Values == [severity |-> {5}, action |-> {"Allow", "block"}]

WriteRule ==
  \E c \in Sections, names \in {<<"a">>, <<"a", "b">>} :
    /\ c \notin {"network", "capabilities"} => Len(names) = 1
    /\ Len(written[c].rules) < MaxRules
    /\ \A d \in Sections \ {c} : written[d] = EmptySpec[d]
    /\ written' = [written EXCEPT ![c].rules = Append(@, [names |-> names, own |-> NoSettings])]

WriteSetting ==
  \E f \in DOMAIN Values : \E v \in Values[f] :
    \/ written.own[f] = Unset /\ written' = [written EXCEPT !.own[f] = v]
    \/ \E c \in Sections :
         /\ \A d \in Sections \ {c} : written[d] = EmptySpec[d]
         /\ \/ written[c].own[f] = Unset /\ written' = [written EXCEPT ![c].own[f] = v]
            \/ \E n \in DOMAIN written[c].rules :
                 /\ written[c].rules[n].own[f] = Unset
                 /\ written' = [written EXCEPT ![c].rules[n].own[f] = v]

NoSelector == expressions = <<>> /\ known = {} /\ namespace = "ns1" /\ labels = {}
NoRules == securityPolicies = <<>> /\ block = {}
NoProfile == asked = <<>> /\ posture.file = "audit"

PoliciesInit ==
  /\ Init /\ Selector!Init /\ Profile!Init /\ written = EmptySpec
  /\ \/ subject = "selector" /\ NoRules /\ NoProfile
     \/ subject = "policy" /\ NoSelector /\ NoRules /\ NoProfile
     \/ subject = "hooks" /\ NoSelector /\ NoProfile
     \/ subject = "profile" /\ NoSelector /\ NoRules

PoliciesNext ==
  /\ UNCHANGED subject
  /\ \/ /\ subject = "selector" /\ Selector!Next
        /\ UNCHANGED <<vars, profileVars, written>>
     \/ /\ subject = "policy" /\ (WriteRule \/ WriteSetting)
        /\ UNCHANGED <<vars, selectorVars, profileVars>>
     \/ /\ subject = "hooks" /\ Next
        /\ UNCHANGED <<selectorVars, profileVars, written>>
     \/ /\ subject = "profile" /\ Profile!Ask
        /\ UNCHANGED <<vars, selectorVars, written>>
PoliciesSpec == PoliciesInit /\ [][PoliciesNext]_<<vars, selectorVars, profileVars, written, subject>>

\* The BPF hooks decide every operation as the rules mean it, in whatever order the policies
\* come (PathRules!HooksDecideAsMeant; UpdateContainerRules and enforcer.bpf.c).
DecidesAsMeant == subject = "hooks" => HooksDecideAsMeant

\* A policy selects the workloads its expressions are documented to select, also in
\* namespaces made after it (MCSelectors; MatchIdentities, updateNamespaceListforCSP).
AppliesAsDocumented == subject = "selector" => Selector!AppliesAsDocumented /\ Selector!ListCatchesUp

\* An AppArmor profile decides every operation as the rules mean it
\* (MCProfiles!ProfileAsMeant, GenerateProfileBody).
ProfileAsMeant == subject = "profile" => Profile!ProfileAsMeant

Kubernetes == CreateSecurityPolicy(written)
OfNode     == ParseAndUpdateHostSecurityPolicy(written)
Container  == ParseAndUpdateContainerSecurityPolicy(written)
Enforced   == Sections \ {"syscalls"}

\* A rule without an action of its own and of its class has one of the three
\* actions, however the policy's is written or left out (Block by default,
\* security_policy_specification.md), whichever way the policy came.
ActionsSettled ==
  \A c \in Enforced : written[c].own["action"] = Unset =>
    \A p \in {Kubernetes, OfNode, Container} : \A n \in DOMAIN p[c] :
      p[c][n].own["action"] \in {"Allow", "Audit", "Block"} \cup
        ({written[c].rules[k].own["action"] : k \in DOMAIN written[c].rules} \ {Unset})

\* A policy means the same to a pod, to the node and to a container without
\* Kubernetes: the three copies of the code agree.  Only the node has a default
\* severity, and only the container's system call rules inherit nothing.
SameRulesEverywhere ==
  /\ \A c \in Enforced : Container[c] = Kubernetes[c]
  /\ written.own["severity"] # Unset => OfNode = Kubernetes

\* Every protocol and capability in a list has a rule of its own, with the
\* settings of the rule that lists it, when the first rule of the list has a
\* comma or none has (ObjCommaCanBeExpanded looks at the first alone).
EachNameHasItsRule ==
  \A c \in {"network", "capabilities"} :
    LET rules == written[c].rules
    IN (rules # <<>> /\ (Len(rules[1].names) > 1 \/ \A n \in DOMAIN rules : Len(rules[n].names) = 1)) =>
         \A n \in DOMAIN rules : \A k \in DOMAIN rules[n].names : \E m \in DOMAIN Kubernetes[c] :
           /\ Kubernetes[c][m].names = <<rules[n].names[k]>>
           /\ \A f \in Settings : rules[n].own[f] # Unset => Kubernetes[c][m].own[f] = rules[n].own[f]

\* A policy becomes the rules its author wrote, whichever of the three copies of the code
\* takes it in.
RulesAsWritten == subject = "policy" => ActionsSettled /\ SameRulesEverywhere /\ EachNameHasItsRule
=============================================================================
