------------------------------ MODULE Matching ------------------------------
(***************************************************************************)
(* How the identity sets of a policy's selector are compared with the      *)
(* identities of an endpoint.  Selectors makes the sets.                   *)
(***************************************************************************)
MatchIdentities(identities, superIdentities) ==
  identities # {} /\ identities \subseteq superIdentities

\* Mutant: a NotIn expression no longer excludes.
MatchExpIdentitiesInOnly(selector, superIdentities) ==
  \/ selector.MatchExpIdentities \cup selector.NonIdentities = {}
  \/ selector.MatchExpIdentities \cap superIdentities # {}

MatchExpIdentities(selector, superIdentities) ==
  IF selector.NonIdentities # {}
  THEN selector.NonIdentities \cap superIdentities = {}
  ELSE \/ selector.MatchExpIdentities = {}
       \/ selector.MatchExpIdentities \cap superIdentities # {}

\* The condition under which GetSecurityPolicies gives a policy to an endpoint.
Selected(selector, namespace, identities) ==
  /\ \/ MatchIdentities(selector.Identities, identities)
     \/ namespace \in selector.NamespaceList
  /\ MatchExpIdentities(selector, identities)
=============================================================================
