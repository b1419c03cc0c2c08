----------------------------- MODULE Selectors -----------------------------
(***************************************************************************)
(* Which workloads a policy selects.  A policy arrives with matchLabels    *)
(* and a list of matchExpressions [key, operator, values];                 *)
(* CreateSecurityPolicy folds the list, in order, into the identity sets   *)
(* that MatchIdentities and MatchExpIdentities compare with the identities *)
(* of an endpoint.  Labels "k=v" and namespaces are plain values here; a   *)
(* namespace stands also for the identity "namespaceName=<namespace>".     *)
(***************************************************************************)
EXTENDS Integers, Sequences, SequencesExt, Matching

\* One matchExpression with key "label" folded into the selector: a NotIn that comes
\* after an In with values is dropped.
FoldLabelExpression(selector, e) ==
  CASE e.operator = "In" ->
         [selector EXCEPT !.MatchExpIdentities = @ \cup e.values]
    [] e.operator = "NotIn" /\ selector.MatchExpIdentities = {} ->
         [selector EXCEPT !.NonIdentities = @ \cup e.values]
    [] OTHER -> selector

\* One matchExpression with key "namespace" of a cluster policy: hasNsInOperator is set
\* even by an empty list of values.
FoldNamespaceExpression(selector, e) ==
  CASE e.operator = "In" ->
         [selector EXCEPT !.hasNsIn = TRUE, !.NamespaceList = @ \cup e.values]
    [] e.operator = "NotIn" /\ ~selector.hasNsIn ->
         [selector EXCEPT !.excluded = @ \cup e.values]
    [] OTHER -> selector

EmptySelector ==
  [Identities |-> {}, MatchExpIdentities |-> {}, NonIdentities |-> {},
   hasNsIn |-> FALSE, excluded |-> {}, NamespaceList |-> {}]

\* The selector of a KubeArmorPolicy of a namespace.
KSPSelector(namespace, matchLabels, expressions) ==
  LET labels == SelectSeq(expressions, LAMBDA e : e.key = "label")
      folded == FoldLeft(FoldLabelExpression, EmptySelector, labels)
  IN  [folded EXCEPT !.Identities = {namespace} \cup matchLabels]

\* The selector of a KubeArmorClusterPolicy; without an In over namespaces the API server
\* is asked for every namespace there is.
CSPSelector(allNamespaces, expressions) ==
  LET Fold(selector, e) == CASE e.key = "namespace" -> FoldNamespaceExpression(selector, e)
                             [] e.key = "label" -> FoldLabelExpression(selector, e)
                             [] OTHER -> selector
      folded == FoldLeft(Fold, EmptySelector, expressions)
  IN  IF folded.hasNsIn THEN folded
      ELSE [folded EXCEPT !.NamespaceList = @ \cup (allNamespaces \ folded.excluded)]

\* GetSecurityPolicies brings the namespaces of a cluster policy up to date: a namespace
\* may have been created since the policy was.
updateNamespaceListforCSP(selector, expressions, allNamespaces) ==
  LET ns == SelectSeq(expressions, LAMBDA e : e.key = "namespace")
      folded == FoldLeft(FoldNamespaceExpression, [EmptySelector EXCEPT !.NamespaceList =
                                                     selector.NamespaceList], ns)
  IN  CASE selector.Identities # {} -> selector
        [] folded.hasNsIn -> [selector EXCEPT !.NamespaceList = folded.NamespaceList]
        [] OTHER -> [selector EXCEPT !.NamespaceList =
                       @ \cup (allNamespaces \ folded.excluded)]
=============================================================================
