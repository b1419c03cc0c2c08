------------------------------ MODULE PathRules ------------------------------
(***************************************************************************)
(* What the BPF-LSM enforcer makes of a container's policies: the rule     *)
(* lists UpdateContainerRules builds (enforcer/bpflsm/rulesHandling.go),   *)
(* and the decision the kernel hooks take on the inner map filled from     *)
(* them (BPF/enforcer.bpf.c, BPF/shared.h).  How the map gets its content  *)
(* is the subject of RuleMaps; here it always holds what the policies ask  *)
(* for.                                                                    *)
(*                                                                         *)
(* A path is a sequence of names.  A key has a kind in place of the        *)
(* spelling that tells its kind apart: "file" is /a/b, "dir" is /a/b/,     *)
(* "name" is a bare executable name, "net", "cap" and "posture" are the    *)
(* keys whose first byte is a number.  A mask is the set of its flags.     *)
(***************************************************************************)
EXTENDS Naturals, Sequences, FiniteSets, SequencesExt

CONSTANTS
  Policies,      \* the policies that may be applied, sequences of rules
  Events,        \* the operations whose decision is checked
  Longer,        \* pairs of sources, the first spelt longer than the second
  NoSource,      \* the empty source of a key; the source of a task without one
  Garbled,       \* a source field that holds no source's name
  ScanDepth,     \* directories whose slash is among the first 64 characters
  MaxArgs,       \* MAX_STR_ARR_ELEM
  MaxPolicies    \* bound: policies applied at once

\* The loops of a policy: the paths of a class, then its directories.
ASSUME PathsFirst ==
  \A p \in Policies : \A i, j \in DOMAIN p :
    (i < j /\ p[i].cls = p[j].cls /\ p[i].by = "dir") => p[j].by = "dir"

VARIABLES
  securityPolicies,   \* of the endpoint, in order
  block               \* the rule classes whose default posture is "block"

vars == <<securityPolicies, block>>

Classes == {"process", "file", "network", "capabilities"}

(***************************************************************************)
(* The rule lists.                                                         *)
(***************************************************************************)
Key(kind, path, source) == [kind |-> kind, path |-> path, source |-> source]

\* strings.Join(paths[0:i], "/") + "/"
DirKey(path, n, source) == Key("dir", SubSeq(path, 1, n), source)

Mask(rule) ==
  (CASE rule.cls = "process" -> {"EXEC"}
     [] rule.cls = "file"    -> {"READ"} \cup (IF rule.readOnly THEN {} ELSE {"WRITE"})
     [] OTHER                -> {})
  \cup (IF rule.owner THEN {"OWNER"} ELSE {})
  \cup (IF rule.recursive THEN {"RECURSIVE"} ELSE {})
  \cup (IF rule.args # {} THEN {"ARGSET"} ELSE {})
  \cup (IF rule.action = "Block" THEN {"DENY"} ELSE {})

\* Process paths write every source over the one before, in the same field.
KeySource(rule, n) ==
  LET s == rule.sources[n]
  IN IF /\ rule.cls = "process" /\ rule.by # "dir"
        /\ \E k \in 1..(n - 1) : <<rule.sources[k], s>> \in Longer
     THEN Garbled ELSE s

KeySources(rule) ==
  IF rule.sources = <<>> THEN <<NoSource>>
  ELSE [n \in DOMAIN rule.sources |-> KeySource(rule, n)]

\* A variant of the next definition that overwrites a directory's own entry.
HintOverwrites(dir, source, acc, n) ==
  LET mask == (acc.mask \ {"DIR"}) \cup {"HINT"}
  IN [list |-> (DirKey(dir, n, source) :> mask) @@ acc.list, mask |-> mask]

\* The hint of the parent of length n; acc carries the list and the mask
\* that the loop modifies from one parent to the next.
Hint(dir, source, acc, n) ==
  LET h    == DirKey(dir, n, source)
      mask == IF h \in DOMAIN acc.list /\ "DIR" \in acc.list[h]
              THEN acc.list[h] \cup {"HINT"}
              ELSE (acc.mask \ {"DIR"}) \cup {"HINT"}
  IN [list |-> (h :> mask) @@ acc.list, mask |-> mask]

dirtoMap(list, dir, source, mask) ==
  LET self   == (Key("file", dir, source) :> mask) @@ list
      d      == DirKey(dir, Len(dir), source)
      dmask  == mask \cup {"DIR"} \cup
                (IF d \in DOMAIN self THEN self[d] \cap {"HINT"} ELSE {})
      Step(acc, n) == Hint(dir, source, acc, n)
  IN FoldLeft(Step, [list |-> (d :> dmask) @@ self, mask |-> dmask],
              [n \in 1..Len(dir) |-> n - 1]).list

\* key.Path of a rule that is not a directory; "ALL" and unknown protocols
\* leave the field empty.
Protocols == {"ICMP", "TCP", "UDP", "SCTP"}
SocketTypes == <<"STREAM", "DGRAM", "RAW", "RDM", "SEQPACKET", "DCCP", "PACKET">>

RuleKey(rule, source) ==
  CASE rule.cls = "network" /\ rule.path[1] \in Protocols   -> Key("net", <<"protocol", rule.path[1]>>, source)
    [] rule.cls = "network" /\ rule.path[1] \in ToSet(SocketTypes) -> Key("net", <<"type", rule.path[1]>>, source)
    [] rule.cls = "network"                                 -> Key("net", <<>>, source)
    [] rule.cls = "capabilities"                            -> Key("cap", rule.path, source)
    [] rule.by = "name"                                     -> Key("name", rule.path, source)
    [] OTHER                                                -> Key("file", rule.path, source)

AddRule(list, rule) ==
  LET sources == KeySources(rule)
      AddDir(l, source) == dirtoMap(l, rule.path, source, Mask(rule))
  IN IF rule.by = "dir"
     THEN FoldLeft(AddDir, list, sources)
     ELSE [k \in {RuleKey(rule, sources[n]) : n \in DOMAIN sources} |-> Mask(rule)] @@ list

\* One rule per socket type for every "ALL" rule, after the policy's own:
\* without a source in the order met, then the sources allowed, then blocked.
SocketTypeRules(action, sources) ==
  [n \in DOMAIN SocketTypes |->
     [cls |-> "network", by |-> "protocol", path |-> <<SocketTypes[n]>>, recursive |-> FALSE, owner |-> FALSE,
      readOnly |-> FALSE, args |-> {}, sources |-> sources, action |-> action]]

AllRules(policy) == SelectSeq(policy, LAMBDA r : r.cls = "network" /\ r.path = <<"ALL">>)

FirstOfAction(rules) ==
  {n \in DOMAIN rules : /\ rules[n].sources = <<>>
                        /\ \A k \in 1..(n - 1) : rules[k].sources = <<>> => rules[k].action # rules[n].action}

SourcesOf(rules, action) ==
  UNION {ToSet(rules[n].sources) : n \in {k \in DOMAIN rules : rules[k].action = action}}

handleAllNetworkRule(policy) ==
  LET all     == AllRules(policy)
      Plain(n) == IF n \in FirstOfAction(all) /\ all[n].action \in {"Allow", "Block"}
                  THEN SocketTypeRules(all[n].action, <<>>) ELSE <<>>
      Sourced(action) == IF SourcesOf(all, action) = {} THEN <<>>
                         ELSE SocketTypeRules(action, SetToSeq(SourcesOf(all, action)))
  IN policy \o FlattenSeq([n \in DOMAIN all |-> Plain(n)]) \o Sourced("Allow") \o Sourced("Block")

\* Every Allow and Block rule in the order UpdateContainerRules meets them;
\* it has no loop over patterns.
Rules(policies) ==
  SelectSeq(FlattenSeq([n \in DOMAIN policies |-> handleAllNetworkRule(policies[n])]),
            LAMBDA r : r.action \in {"Allow", "Block"} /\ r.by # "pattern")

RuleList(policies, cls) ==
  FoldLeft(AddRule, <<>>, SelectSeq(Rules(policies), LAMBDA r : r.cls = cls))

WhiteListPosture(policies, cls) ==
  \E n \in DOMAIN Rules(policies) : Rules(policies)[n].cls = cls /\ Rules(policies)[n].action = "Allow"

PostureKey(cls) == Key("posture", <<cls>>, NoSource)

PostureAction(cls) == IF (IF cls = "process" THEN "file" ELSE cls) \in block THEN "BLOCK" ELSE "AUDIT"

ArgumentsList(policies) ==
  LET Add(list, r) == (RuleKey(r, Last(KeySources(r))) :> r.args) @@ list
  IN FoldLeft(Add, <<>>, SelectSeq(Rules(policies), LAMBDA r : r.args # {}))

\* The inner map once every Put is done.  fuseProcAndFileRules gives a key of
\* both lists both masks; the other classes use the process mask.
InnerMap ==
  LET proc  == RuleList(securityPolicies, "process")
      file  == RuleList(securityPolicies, "file")
      other == RuleList(securityPolicies, "network") @@ RuleList(securityPolicies, "capabilities")
      first == proc @@ other
  IN [k \in DOMAIN first \cup DOMAIN file |->
        [process |-> IF k \in DOMAIN first THEN first[k] ELSE {},
         file    |-> IF k \in DOMAIN file THEN file[k] ELSE {}]]
     @@ [k \in {PostureKey(c) : c \in {d \in Classes : WhiteListPosture(securityPolicies, d)}} |->
           [process |-> {PostureAction(k.path[1])}, file |-> {}]]

(***************************************************************************)
(* The kernel's decision.  A match is the set holding the mask found, or   *)
(* the empty set.                                                          *)
(***************************************************************************)
\* bpf_map_lookup_elem and the test of the flag that makes the entry a match.
Lookup(map, key, half, need) ==
  IF key \in DOMAIN map /\ need \subseteq map[key][half] THEN {map[key][half]} ELSE {}

\* Where the walk from / down to the file's directory goes no further.
StopsAt(mask, need, source, half) ==
  \/ {"DIR", "RECURSIVE"} \cup need \subseteq mask /\ "HINT" \notin mask
  \/ /\ half = "process" /\ source = NoSource /\ "HINT" \notin mask
     /\ ~({"DIR"} \cup need \subseteq mask /\ "RECURSIVE" \notin mask)

Depth(path) == IF Len(path) - 1 < ScanDepth THEN Len(path) - 1 ELSE ScanDepth

Visited(map, path, source, half, need) ==
  {n \in 0..Depth(path) :
     /\ DirKey(path, n, source) \in DOMAIN map
     /\ \A k \in 0..(n - 1) :
          /\ DirKey(path, k, source) \in DOMAIN map
          /\ ~StopsAt(map[DirKey(path, k, source)][half], need, source, half)}

\* The deepest recursive directory met, else the last directory.
WalkDirs(map, path, source, half, need) ==
  LET visited == Visited(map, path, source, half, need)
      MaskAt(n) == map[DirKey(path, n, source)][half]
      dirs    == {n \in visited : {"DIR"} \cup need \subseteq MaskAt(n)}
      rec     == {n \in dirs : "RECURSIVE" \in MaskAt(n)}
  IN IF rec # {} THEN {MaskAt(Max(rec))}
     ELSE {MaskAt(n) : n \in dirs \cap {Depth(path)}}

\* The first of the matches, which the hooks try in this order.
FirstMatch(matches) ==
  LET found == {n \in DOMAIN matches : matches[n] # {}}
  IN IF found = {} THEN {} ELSE matches[Min(found)]

Sourced(ev, match) == IF ev.source = NoSource THEN {} ELSE match

SourceProcMatch(map, ev) == Sourced(ev, Lookup(map, Key("file", ev.path, ev.source), "process", {"EXEC"}))

ProcMatch(map, ev) ==
  FirstMatch(<<SourceProcMatch(map, ev),
               Sourced(ev, WalkDirs(map, ev.path, ev.source, "process", {"EXEC"})),
               Lookup(map, Key("file", ev.path, NoSource), "process", {"EXEC"}),
               Lookup(map, Key("name", <<Last(ev.path)>>, NoSource), "process", {"EXEC"}),
               WalkDirs(map, ev.path, NoSource, "process", {"EXEC"})>>)

FileMatch(map, ev) ==
  FirstMatch(<<Sourced(ev, Lookup(map, Key("file", ev.path, ev.source), "file", {"READ"})),
               Sourced(ev, WalkDirs(map, ev.path, ev.source, "file", {"READ"})),
               Lookup(map, Key("file", ev.path, NoSource), "file", {"READ"}),
               WalkDirs(map, ev.path, NoSource, "file", {"READ"})>>)

\* p1_p: the protocol a socket of this type and protocol is taken for.
SocketProtocol(type, protocol) ==
  CASE type = "STREAM" /\ protocol \in {"TCP", "0"}             -> "TCP"
    [] type = "DGRAM" /\ protocol \in {"UDP", "0"}              -> "UDP"
    [] type \in {"STREAM", "SEQPACKET"} /\ protocol \in {"SCTP", "0"} /\ ~(type = "STREAM" /\ protocol = "0") -> "SCTP"
    [] OTHER                                                    -> protocol

NetMatch(map, ev) ==
  LET byType(source) == Lookup(map, Key("net", <<"type", ev.type>>, source), "process", {})
      byProtocol(source) == Lookup(map, Key("net", <<"protocol", SocketProtocol(ev.type, ev.protocol)>>, source), "process", {})
  IN FirstMatch(<<Sourced(ev, byType(ev.source)), Sourced(ev, byProtocol(ev.source)),
                  byType(NoSource), byProtocol(NoSource)>>)

CapMatch(map, ev) ==
  FirstMatch(<<Sourced(ev, Lookup(map, Key("cap", ev.path, ev.source), "process", {})),
               Lookup(map, Key("cap", ev.path, NoSource), "process", {})>>)

Quiet  == [denied |-> FALSE, alert |-> FALSE]
Denied == [denied |-> TRUE, alert |-> TRUE]

Unmatched(map, cls) ==
  IF PostureKey(cls) \in DOMAIN map
  THEN [denied |-> map[PostureKey(cls)].process = {"BLOCK"}, alert |-> TRUE]
  ELSE Quiet

\* The first argument counts only when it is alone (busybox).
matchArguments(allowed, map, ev) ==
  LET key == Key("file", ev.path, IF SourceProcMatch(map, ev) # {} THEN ev.source ELSE NoSource)
      ok  == IF key \in DOMAIN allowed THEN allowed[key] ELSE {}
  IN /\ Len(ev.args) \in 1..MaxArgs
     /\ IF Len(ev.args) = 1 THEN ev.args[1] \in ok
        ELSE \A n \in 2..Len(ev.args) : ev.args[n] \in ok

enforce_proc(map, allowed, ev) ==
  LET match == ProcMatch(map, ev)
      mask  == UNION match
  IN CASE match = {}                                              -> Unmatched(map, "process")
       [] "ARGSET" \in mask /\ matchArguments(allowed, map, ev)   -> Quiet
       [] "OWNER" \in mask /\ ev.owner                            -> Quiet
       [] mask \cap {"OWNER", "DENY"} # {}                        -> Denied
       [] OTHER                                                   -> Quiet

\* A denial is dropped for a task without source when there is a posture.
Dropped(map, ev) == PostureKey("file") \in DOMAIN map /\ ev.source = NoSource

enforce_file(map, ev) ==
  LET match == FileMatch(map, ev)
      mask  == UNION match
  IN CASE match = {}                                -> Unmatched(map, "file")
       [] "OWNER" \in mask /\ ~ev.owner             -> IF ev.hook = "path" /\ Dropped(map, ev) THEN Quiet ELSE Denied
       [] "OWNER" \in mask /\ ev.hook # "write"     -> Quiet
       [] "WRITE" \notin mask /\ ev.hook = "write"  -> Denied
       [] "WRITE" \notin mask /\ ev.hook = "open"   -> Quiet
       [] "DENY" \in mask /\ ev.hook # "write"      -> IF Dropped(map, ev) THEN Quiet ELSE Denied
       [] OTHER                                     -> Quiet

match_net_rules(map, ev) ==
  LET match == NetMatch(map, ev)
  IN IF match = {} THEN Unmatched(map, "network")
     ELSE IF "DENY" \in UNION match THEN Denied ELSE Quiet

enforce_cap(map, ev) ==
  LET match == CapMatch(map, ev)
  IN IF match = {} THEN Unmatched(map, "capabilities")
     ELSE IF "DENY" \in UNION match THEN Denied ELSE Quiet

Decision(map, allowed, ev) ==
  CASE ev.cls = "process"      -> enforce_proc(map, allowed, ev)
    [] ev.cls = "file"         -> enforce_file(map, ev)
    [] ev.cls = "network"      -> match_net_rules(map, ev)
    [] ev.cls = "capabilities" -> enforce_cap(map, ev)

(***************************************************************************)
(* What the rules say, without keys and hints: the order of the comment at *)
(* the end of shared.h (the entity with its source, directories with the   *)
(* source, the entity, directories), the options of                        *)
(* security_policy_specification.md, and of two rules with the same words  *)
(* the later.                                                              *)
(***************************************************************************)
Names(rule, source) ==
  IF source = NoSource THEN rule.sources = <<>> ELSE source \in ToSet(rule.sources)

\* The last of the rules numbered ns, as a set.
LastOf(ns) == IF ns = {} THEN {} ELSE {Max(ns)}

RuleOnEntity(rules, ev, source) ==
  LastOf({n \in DOMAIN rules : /\ rules[n].cls = ev.cls /\ Names(rules[n], source)
                               /\ rules[n].by \in {"path", "dir", "capability"}
                               /\ rules[n].path = ev.path})

RuleOnName(rules, ev) ==
  LastOf({n \in DOMAIN rules : /\ rules[n].by = "name" /\ rules[n].path = <<Last(ev.path)>>
                               /\ Names(rules[n], NoSource)})

RuleOnDirectory(rules, ev, source) ==
  LET dirs   == {n \in DOMAIN rules : /\ rules[n].cls = ev.cls /\ Names(rules[n], source) /\ rules[n].by = "dir"
                                      /\ Len(rules[n].path) < Len(ev.path) /\ IsPrefix(rules[n].path, ev.path)}
      latest == {n \in dirs : \A k \in dirs : rules[k].path = rules[n].path => k <= n}
      rec    == {n \in latest : rules[n].recursive}
  IN IF rec # {} THEN {n \in rec : \A k \in rec : Len(rules[k].path) <= Len(rules[n].path)}
     ELSE {n \in latest : rules[n].path = Front(ev.path)}

RuleOnSocket(rules, ev, source, word) ==
  LastOf({n \in DOMAIN rules : rules[n].cls = "network" /\ Names(rules[n], source) /\ rules[n].path = <<word>>})

DecidingRule(rules, ev) ==
  LET S(match) == Sourced(ev, match)
      protocol == SocketProtocol(ev.type, ev.protocol)
  IN IF ev.cls = "network"
     THEN FirstMatch(<<S(RuleOnSocket(rules, ev, ev.source, ev.type)), S(RuleOnSocket(rules, ev, ev.source, protocol)),
                       RuleOnSocket(rules, ev, NoSource, ev.type), RuleOnSocket(rules, ev, NoSource, protocol)>>)
     ELSE FirstMatch(<<S(RuleOnEntity(rules, ev, ev.source)), S(RuleOnDirectory(rules, ev, ev.source)),
                       RuleOnEntity(rules, ev, NoSource),
                       IF ev.cls = "process" THEN RuleOnName(rules, ev) ELSE {},
                       RuleOnDirectory(rules, ev, NoSource)>>)

ArgumentsAllowed(rule, ev) ==
  /\ rule.args # {} /\ Len(ev.args) \in 1..MaxArgs
  /\ IF Len(ev.args) = 1 THEN ev.args[1] \in rule.args ELSE ToSet(Tail(ev.args)) \subseteq rule.args

\* Whether the rule forbids the operation.  The hooks on paths leave the
\* readOnly option of an Allow rule alone, and a write was opened before.
Forbids(rule, ev) ==
  CASE ev.cls = "process" /\ ArgumentsAllowed(rule, ev) -> FALSE
    [] rule.owner /\ ~ev.owner                          -> TRUE
    [] ev.cls = "file" /\ ev.hook = "write"             -> rule.readOnly
    [] rule.owner                                       -> FALSE
    [] ev.cls = "file" /\ ev.hook = "open"              -> rule.action = "Block" /\ ~rule.readOnly
    [] OTHER                                            -> rule.action = "Block"

Meant(rules, ev) ==
  LET r == DecidingRule(rules, ev)
  IN CASE r # {} -> IF \E n \in r : Forbids(rules[n], ev) THEN Denied ELSE Quiet
       [] r = {} /\ \E n \in DOMAIN rules : rules[n].cls = ev.cls /\ rules[n].action = "Allow" ->
            [denied |-> PostureAction(ev.cls) = "BLOCK", alert |-> TRUE]
       [] OTHER -> Quiet

(***************************************************************************)
(* The endpoint's policies and its posture change.                         *)
(***************************************************************************)
Init ==
  /\ securityPolicies = <<>>
  /\ block \in {{}, {"file", "network", "capabilities"}}

ApplyPolicy ==
  /\ Len(securityPolicies) < MaxPolicies
  /\ \E p \in Policies : securityPolicies' = Append(securityPolicies, p)
  /\ UNCHANGED block

RemovePolicy ==
  /\ \E n \in DOMAIN securityPolicies : securityPolicies' = RemoveAt(securityPolicies, n)
  /\ UNCHANGED block

ChangePosture ==
  /\ \E c \in {"file", "network", "capabilities"} : block' = IF c \in block THEN block \ {c} ELSE block \cup {c}
  /\ UNCHANGED securityPolicies

Next == ApplyPolicy \/ RemovePolicy \/ ChangePosture

Spec == Init /\ [][Next]_vars

\* The hooks, with their walk over hinted directories, decide every operation
\* as the rule that has precedence among the container's rules says, and as
\* the default posture says when no rule of a container with Allow rules
\* applies (enforcer.bpf.c, shared.h on the map of rulesHandling.go).
HooksDecideAsMeant ==
  LET map == InnerMap
      allowed == ArgumentsList(securityPolicies)
      rules == Rules(securityPolicies)
  IN \A ev \in Events : Decision(map, allowed, ev) = Meant(rules, ev)

\* A Block rule on an executable with fromSource holds for each source it
\* lists: security_policy_specification.md, fromSource.
SourcesHonoured ==
  LET map == InnerMap
      allowed == ArgumentsList(securityPolicies)
      rules == Rules(securityPolicies)
  IN \A ev \in Events : \A n \in DOMAIN rules :
       (/\ ev.cls = "process" /\ rules[n].cls = "process" /\ rules[n].by = "path"
        /\ rules[n].path = ev.path /\ ev.source \in ToSet(rules[n].sources) \ {NoSource}
        /\ rules[n].action = "Block" /\ ~rules[n].owner /\ rules[n].args = {}
        /\ \A k \in (n + 1)..Len(rules) : rules[k].path # ev.path)
       => Decision(map, allowed, ev).denied
=============================================================================
