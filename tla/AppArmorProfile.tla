-------------------------- MODULE AppArmorProfile --------------------------
(***************************************************************************)
(* The AppArmor profile KubeArmor writes for a container or for the host,  *)
(* and what the kernel decides with it.                                    *)
(*                                                                         *)
(* A profile has a header (the classes it permits as a whole), a map of    *)
(* rules per class and a sub-profile for each program named by a           *)
(* fromSource rule, into which the rules for everyone are merged.  A path  *)
(* is the sequence of its components, a directory's ending in the empty    *)
(* string: what splitting it at "/" gives without the first element.       *)
(*                                                                         *)
(* Left out: the text of the template around the rules, the rules for      *)
(* privileged containers, native rules, and which sub-profile a program    *)
(* enters when a sub-profile runs it (px, cx).                             *)
(***************************************************************************)
EXTENDS Naturals, Sequences, SequencesExt

Maps == {"ProcessPaths", "FilePaths", "NetworkRules", "CapabilitiesRules"}
NoRules == [m \in Maps |-> <<>>]

\* ProfileHeader.Init and Rules.Init
NewHeader == [File |-> TRUE, Network |-> TRUE, Capabilities |-> TRUE]

NewProfile == [header |-> NewHeader, rules |-> NoRules, FromSource |-> <<>>]

NewSource == [Fusion |-> FALSE, header |-> NewHeader, rules |-> NoRules]

RuleConfig(deny) ==
  [Dir |-> FALSE, Recursive |-> FALSE, ReadOnly |-> FALSE, OwnerOnly |-> FALSE, Deny |-> deny, Allow |-> ~deny]

With(map, key, value) == [k \in DOMAIN map \cup {key} |-> IF k = key THEN value ELSE map[k]]
Without(map, key) == [k \in DOMAIN map \ {key} |-> map[k]]

\* Mutant: the later of two conflicting rules wins.
addRuleReplacing(rule, entity, m) == With(m, entity, rule)

addRuletoMap(rule, entity, m) ==
  CASE entity \notin DOMAIN m -> With(m, entity, rule)
    [] entity \in DOMAIN m /\ m[entity].Deny # rule.Deny ->
         With(m, entity, [rule EXCEPT !.Deny = TRUE, !.Allow = TRUE])
    [] OTHER -> m

\* A rule into a map of the profile or, if it has sources, of their sub-profiles.
\* An Allow rule settles the header of the profile too, whatever its sources.
Put(prof, map, head, rule, entity, r) ==
  LET Headed(p) == IF rule.Deny THEN p ELSE [p EXCEPT !.header[head.of] = head.is]
      Ruled(p) == [p EXCEPT !.rules[map] = addRuletoMap(rule, entity, @)]
      Sourced(p, s) ==
        LET old == IF s \in DOMAIN p.FromSource THEN p.FromSource[s] ELSE NewSource
        IN IF s = <<>> THEN p ELSE [p EXCEPT !.FromSource = With(@, s, Ruled(Headed(old)))]
  IN IF r.sources = <<>> THEN Ruled(Headed(prof)) ELSE FoldLeft(Sourced, Headed(prof), r.sources)

SetProcessMatchPaths(prof, r, deny, head) ==
  Put(prof, "ProcessPaths", [of |-> "File", is |-> head], [RuleConfig(deny) EXCEPT !.OwnerOnly = r.owner],
      IF r.by = "name" THEN <<"**">> \o r.entity ELSE r.entity, r)

SetProcessMatchDirectories(prof, r, deny, head) ==
  Put(prof, "ProcessPaths", [of |-> "File", is |-> head],
      [RuleConfig(deny) EXCEPT !.Dir = TRUE, !.Recursive = r.recursive, !.OwnerOnly = r.owner], r.entity, r)

\* A pattern that is there already stays as it is.
SetProcessMatchPatterns(prof, r, deny, head) ==
  LET p == IF deny THEN prof ELSE [prof EXCEPT !.header.File = head]
      rule == [RuleConfig(deny) EXCEPT !.OwnerOnly = r.owner]
  IN [p EXCEPT !.rules.ProcessPaths = IF r.entity \in DOMAIN @ THEN @ ELSE With(@, r.entity, rule)]

SetFileMatchPaths(prof, r, deny, head) ==
  Put(prof, "FilePaths", [of |-> "File", is |-> head],
      [RuleConfig(deny) EXCEPT !.OwnerOnly = r.owner, !.ReadOnly = r.readOnly], r.entity, r)

SetFileMatchDirectories(prof, r, deny, head) ==
  Put(prof, "FilePaths", [of |-> "File", is |-> head],
      [RuleConfig(deny) EXCEPT !.OwnerOnly = r.owner, !.ReadOnly = r.readOnly, !.Dir = TRUE, !.Recursive = r.recursive],
      r.entity, r)

SetFileMatchPatterns(prof, r, deny, head) ==
  LET p == IF deny THEN prof ELSE [prof EXCEPT !.header.File = head]
      rule == [RuleConfig(deny) EXCEPT !.OwnerOnly = r.owner, !.ReadOnly = r.readOnly]
  IN [p EXCEPT !.rules.FilePaths = IF r.entity \in DOMAIN @ THEN @ ELSE With(@, r.entity, rule)]

\* icmpv6 is icmp to AppArmor.
SetNetworkMatchProtocols(prof, r, deny, head) ==
  Put(prof, "NetworkRules", [of |-> "Network", is |-> head], RuleConfig(deny),
      IF r.entity = <<"icmpv6">> THEN <<"icmp">> ELSE r.entity, r)

SetCapabilitiesMatchCapabilities(prof, r, deny, head) ==
  Put(prof, "CapabilitiesRules", [of |-> "Capabilities", is |-> head], RuleConfig(deny), r.entity, r)

\* The rules of one policy in the order they are read: process paths, directories
\* and patterns, then those of files, then protocols, then capabilities.
Slots == <<<<"process", {"path", "name"}>>, <<"process", {"dir"}>>, <<"process", {"pattern"}>>,
           <<"file", {"path"}>>, <<"file", {"dir"}>>, <<"file", {"pattern"}>>,
           <<"network", {"protocol"}>>, <<"capabilities", {"capability"}>>>>

InOrder(policy) ==
  FlattenSeq([k \in 1 .. Len(Slots) |->
                SelectSeq(policy, LAMBDA r : r.cls = Slots[k][1] /\ r.by \in Slots[k][2])])

SetRule(prof, r, posture) ==
  LET deny == r.action = "Block"
      head(action) == deny \/ action # "block"
  IN CASE r.action \notin {"Allow", "Block"} -> prof
       [] r.action \in {"Allow", "Block"} /\ r.cls = "process" ->
            (CASE r.by = "dir" -> SetProcessMatchDirectories(prof, r, deny, head(posture.file))
               [] r.by = "pattern" -> SetProcessMatchPatterns(prof, r, deny, head(posture.file))
               [] OTHER -> SetProcessMatchPaths(prof, r, deny, head(posture.file)))
       [] r.action \in {"Allow", "Block"} /\ r.cls = "file" ->
            (CASE r.by = "dir" -> SetFileMatchDirectories(prof, r, deny, head(posture.file))
               [] r.by = "pattern" -> SetFileMatchPatterns(prof, r, deny, head(posture.file))
               [] OTHER -> SetFileMatchPaths(prof, r, deny, head(posture.file)))
       [] r.action \in {"Allow", "Block"} /\ r.cls = "network" ->
            SetNetworkMatchProtocols(prof, r, deny, head(posture.network))
       [] OTHER -> SetCapabilitiesMatchCapabilities(prof, r, deny, head(posture.capabilities))

\* A source that has a rule for itself is entered, not allowed or denied.
ResolvedProcessWhiteListConflicts(prof) ==
  LET both == DOMAIN prof.FromSource \cap DOMAIN prof.rules.ProcessPaths
  IN [prof EXCEPT !.rules.ProcessPaths = [e \in DOMAIN @ \ both |-> @[e]],
                  !.FromSource = [s \in DOMAIN @ |-> [@[s] EXCEPT !.Fusion = @ \/ s \in both]]]

checkIfGlobalRuleToBeAdded(p, val) ==
  p \notin DOMAIN val /\ \A i \in 1 .. Len(p) :
    LET pdir == SubSeq(p, 1, i - 1) \o <<"">>
    IN ~(pdir \in DOMAIN val /\ val[pdir].Dir /\ (i = Len(p) \/ val[pdir].Recursive))

\* The rules of a sub-profile with those of the profile it does not settle itself.
Merged(global, local) ==
  [m \in Maps |->
     LET added == {e \in DOMAIN global[m] :
                     IF m \in {"ProcessPaths", "FilePaths"}
                     THEN checkIfGlobalRuleToBeAdded(e, local[m]) ELSE e \notin DOMAIN local[m]}
     IN [e \in DOMAIN local[m] \cup added |-> IF e \in added THEN global[m][e] ELSE local[m][e]]]

GenerateProfileBody(policies, posture) ==
  LET rules == FlattenSeq([k \in DOMAIN policies |-> InOrder(policies[k])])
      profile == ResolvedProcessWhiteListConflicts(
                   FoldLeft(LAMBDA prof, r : SetRule(prof, r, posture), NewProfile, rules))
  IN [profile EXCEPT !.FromSource =
        [s \in DOMAIN @ |-> [@[s] EXCEPT !.rules = Merged(profile.rules, @)]]]
-----------------------------------------------------------------------------
(* What the kernel decides with the profile the template makes of it.  An  *)
(* access runs in the profile itself (src = <<>>) or in the sub-profile of *)
(* a source; a deny rule overrides every other.                            *)

Glob(entity) == \E i \in DOMAIN entity : entity[i] \in {"*", "**"}

\* AppArmor's matching of a path: the rule's expression is the entity, followed by
\* {,*} for a directory and by {,**} for a recursive one.
Matches(entity, rule, path) ==
  CASE rule.Dir -> /\ IsPrefix(Front(entity), path)
                   /\ rule.Recursive \/ Len(path) = Len(entity)
    [] ~rule.Dir /\ entity[1] = "**" -> Len(path) > 1 /\ Last(path) = Last(entity)
    [] OTHER -> Len(path) = Len(entity) /\ \A i \in DOMAIN path : entity[i] \in {path[i], "*"}

\* What the file section denies and grants.
FileDenies(rule, e) ==
  rule.Deny /\ (CASE rule.ReadOnly /\ rule.OwnerOnly -> e.op = "write" \/ ~e.owner
                  [] rule.OwnerOnly /\ ~rule.ReadOnly -> ~e.owner
                  [] rule.ReadOnly /\ ~rule.OwnerOnly -> e.op = "write"
                  [] OTHER -> TRUE)

FileGrants(rule, e) ==
  \/ rule.Deny /\ rule.OwnerOnly /\ ~rule.ReadOnly /\ e.owner
  \/ rule.Allow /\ (rule.ReadOnly => e.op = "read") /\ (rule.OwnerOnly => e.owner)

\* What the dispatcher of a profile denies and grants, and that of a sub-profile.
\* A directory's owner is of no account; an expression grants nothing.
ExecDenies(rule, e) == rule.Deny /\ (rule.OwnerOnly => ~e.owner)

ExecGrants(entity, rule, e) ==
  \/ rule.Deny /\ rule.OwnerOnly /\ e.owner
  \/ rule.Allow /\ ~Glob(entity) /\ (rule.OwnerOnly /\ ~rule.Dir => e.owner)

SubExecGrants(rule, e) ==
  \/ rule.Deny /\ rule.OwnerOnly /\ e.owner
  \/ rule.Allow /\ ~rule.Dir /\ ~rule.OwnerOnly

NetworkMatches(entity, deny, e) == entity = e.path \/ (deny /\ entity = <<"all">>)

Decides(profile, e) ==
  LET of == IF e.src = <<>> THEN profile ELSE profile.FromSource[e.src]
      Some(m, Test(_, _)) == \E x \in DOMAIN of.rules[m] : Test(x, of.rules[m][x])
  IN CASE e.cls = "file" ->
            /\ ~Some("FilePaths", LAMBDA x, r : Matches(x, r, e.path) /\ FileDenies(r, e))
            /\ of.header.File \/ Some("FilePaths", LAMBDA x, r : Matches(x, r, e.path) /\ FileGrants(r, e))
       [] e.cls = "process" ->
            /\ ~Some("ProcessPaths", LAMBDA x, r : Matches(x, r, e.path) /\ ExecDenies(r, e))
            /\ \/ of.header.File
               \/ e.src = <<>> /\ e.path \in DOMAIN profile.FromSource
               \/ e.src = e.path
               \/ Some("ProcessPaths", LAMBDA x, r : /\ Matches(x, r, e.path)
                                                     /\ IF e.src = <<>> THEN ExecGrants(x, r, e)
                                                        ELSE SubExecGrants(r, e))
       [] e.cls = "network" ->
            /\ ~Some("NetworkRules", LAMBDA x, r : r.Deny /\ NetworkMatches(x, TRUE, e))
            /\ of.header.Network \/ Some("NetworkRules", LAMBDA x, r : r.Allow /\ NetworkMatches(x, FALSE, e))
       [] OTHER ->
            /\ ~Some("CapabilitiesRules", LAMBDA x, r : r.Deny /\ x = e.path)
            /\ of.header.Capabilities \/ Some("CapabilitiesRules", LAMBDA x, r : r.Allow /\ x = e.path)
-----------------------------------------------------------------------------
(* What the policies mean, from the rules as they are written. *)

RulesOf(policies) == UNION {ToSet(policies[k]) : k \in DOMAIN policies}

\* Rules whose outcome depends on which is read first are left to the hazards: two for
\* one path that differ in more than their action, and a pattern met by its opposite.
Uniform(rules) ==
  \A r, q \in rules : (r.cls = q.cls /\ r.entity = q.entity) =>
    /\ r.owner = q.owner /\ r.readOnly = q.readOnly /\ r.recursive = q.recursive /\ r.by = q.by
    /\ r.by = "pattern" => r.action = q.action

AsConfig(r) == [Dir |-> r.by = "dir", Recursive |-> r.recursive]
Named(r) == IF r.by = "name" THEN <<"**">> \o r.entity ELSE r.entity

Covers(r, e) ==
  /\ r.cls = e.cls
  /\ CASE r.cls \in {"process", "file"} -> Matches(Named(r), AsConfig(r), e.path)
       [] r.cls = "network" -> \/ r.entity = e.path
                               \/ r.action = "Block" /\ r.entity = <<"all">>
                               \/ r.entity = <<"icmpv6">> /\ e.path = <<"icmp">>
       [] OTHER -> r.entity = e.path

\* A rule for everyone gives way, for a program that has rules of its own, to one for the
\* same path and to a directory that holds it ("prefer the superset path or if the
\* entities match we consider the config of rule in subprofile").
GivesWay(r, own) ==
  \E q \in own : q.cls = r.cls /\
    \/ Named(q) = Named(r)
    \/ q.by = "dir" /\ r.cls \in {"process", "file"} /\ Matches(q.entity, AsConfig(q), Named(r))

Meant(rules, posture, e) ==
  LET own == {r \in rules : \E i \in DOMAIN r.sources : r.sources[i] = e.src}
      all == {r \in rules : r.sources = <<>>}
      mine == IF e.src = <<>> THEN all ELSE own \cup {r \in all : ~GivesWay(r, own)}
      group == IF e.cls \in {"process", "file"} THEN {"process", "file"} ELSE {e.cls}
      listed == IF e.src = <<>> THEN rules ELSE own
      action == CASE e.cls \in {"process", "file"} -> posture.file
                  [] e.cls = "network" -> posture.network
                  [] OTHER -> posture.capabilities
      Blocks(r) == r.action = "Block" /\ Covers(r, e) /\
                     (r.owner /\ e.owner => r.readOnly /\ e.op = "write") /\
                     (r.readOnly /\ ~r.owner => e.op = "write")
      Permits(r) == Covers(r, e) /\
                     \/ r.action = "Allow" /\ (r.owner => e.owner) /\ (r.readOnly => e.op = "read")
                     \/ r.action = "Block" /\ r.owner /\ e.owner /\ ~r.readOnly
  IN /\ ~\E r \in mine : Blocks(r)
     /\ \/ action # "block"
        \/ ~\E r \in listed : r.cls \in group /\ r.action = "Allow"
        \/ \E r \in mine : Permits(r)
=============================================================================
