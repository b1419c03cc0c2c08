---------------------------- MODULE MCSelectors ----------------------------
(* Every short list of expressions against every small workload. *)
EXTENDS Selectors, FiniteSets

Namespaces == {"ns1", "ns2"}
Labels == {"a=1", "b=1"}
Expressions ==
  {[key |-> "namespace", operator |-> o, values |-> v] :
     o \in {"In", "NotIn"}, v \in SUBSET Namespaces \ {{}}}
  \cup {[key |-> "label", operator |-> o, values |-> v] :
     o \in {"In", "NotIn"}, v \in SUBSET Labels \ {{}}}

VARIABLES
  expressions,  \* the matchExpressions of a cluster policy
  known,        \* the namespaces there were when the policy arrived
  namespace, labels  \* a workload

vars == <<expressions, known, namespace, labels>>

Init == /\ expressions = <<>>
        /\ known \in SUBSET Namespaces
        /\ namespace \in Namespaces
        /\ labels \in SUBSET Labels

MaxExpressions == 3

AddExpression ==
  /\ Len(expressions) < MaxExpressions
  /\ \E e \in Expressions : expressions' = Append(expressions, e)
  /\ UNCHANGED <<known, namespace, labels>>

Next == AddExpression
Spec == Init /\ [][Next]_vars

Selector ==
  updateNamespaceListforCSP(CSPSelector(known, expressions), expressions, Namespaces)
Applies == Selected(Selector, namespace, {namespace} \cup labels)

OfKind(key, operator) ==
  {i \in DOMAIN expressions : expressions[i].key = key /\ expressions[i].operator = operator}
AllValues(key, operator) == UNION {expressions[i].values : i \in OfKind(key, operator)}
OneOperator(key) == OfKind(key, "In") = {} \/ OfKind(key, "NotIn") = {}

\* cluster_security_policy_specification.md: a policy applies to the namespaces and the
\* workloads an In lists, or to all but those a NotIn lists; namespace and label are
\* ANDed.  It holds as long as a key is not used with both operators, also for a
\* namespace created after the policy.
AppliesAsDocumented ==
  OneOperator("namespace") /\ OneOperator("label") =>
    (Applies <=>
       /\ OfKind("namespace", "In") # {} => namespace \in AllValues("namespace", "In")
       /\ namespace \notin AllValues("namespace", "NotIn")
       /\ OfKind("label", "In") # {} => labels \cap AllValues("label", "In") # {}
       /\ labels \cap AllValues("label", "NotIn") = {})

\* The list of namespaces a policy got when it arrived and was brought up to date later is
\* the list it would get now (updateNamespaceListforCSP).
ListCatchesUp == Selector.NamespaceList = CSPSelector(Namespaces, expressions).NamespaceList
=============================================================================
