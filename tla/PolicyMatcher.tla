---------------------------- MODULE PolicyMatcher ----------------------------
(***************************************************************************)
(* How the feeder attributes an operation to a policy: the list of matches *)
(* UpdateSecurityPolicies and UpdateHostSecurityPolicies keep for an       *)
(* endpoint or the node, and what UpdateMatchedPolicy and PushLog make of  *)
(* a log (feeder/policyMatcher.go, feeder/feeder.go).  Logs come from the  *)
(* system monitor and, for what a BPF-LSM hook reports, from TraceEvents;  *)
(* the hooks are those of PathRules.                                       *)
(*                                                                         *)
(* A policy's name is the policy itself.  Severity, tags and message are   *)
(* one field, the policy they were taken from.  A pattern is the directory *)
(* in /a/b/*.                                                              *)
(***************************************************************************)
EXTENDS PathRules

CONSTANTS
  Postures,       \* the default postures a namespace may have
  Tagged,         \* the policies with tags and a message
  MonitorLogs,    \* what the system monitor may report
  EnforcerAlerts, DefaultPostureLogs,   \* cfg.GlobalCfg
  None

VARIABLES
  mode,          \* "BPFLSM", "AppArmor", or "Audited": no enforcer, PolicyEnabled is Audited
  host,          \* whether the endpoint is the node
  feed,          \* the policies of which fd.SecurityPolicies has the matches
  fdPosture,     \* fd.DefaultPostures of the namespace
  endPosture,    \* endPoint.DefaultPosture; cfg.GlobalCfg's for the node
  global         \* cfg.GlobalCfg.Default*Posture

matcherVars == <<securityPolicies, block, mode, host, feed, fdPosture, endPosture, global>>

NoEntry == [file |-> "", network |-> "", capabilities |-> ""]

(***************************************************************************)
(* The matches of a policy.                                                *)
(***************************************************************************)
AllowActions == {"Allow", "Audit (Allow)"}

\* policyEnabled == KubeArmorPolicyAudited
MatchAction(audited, action) ==
  CASE audited /\ action = "Allow" -> "Audit (Allow)"
    [] audited /\ action = "Block" -> "Audit (Block)"
    [] OTHER                       -> action

NewMatch(policy, rule, source, op, type, resource) ==
  [policy |-> policy, source |-> source, fromSource |-> source # NoSource, op |-> op, type |-> type, resource |-> resource,
   owner |-> rule.owner, readOnly |-> rule.readOnly, recursive |-> rule.recursive,
   action |-> MatchAction(mode = "Audited", rule.action)]

ProcessMatchPolicy(policy, rule, source) ==
  NewMatch(policy, rule, source, "Process",
           CASE rule.by = "name" -> "ExecName" [] rule.by = "dir" -> "Directory" [] rule.by = "pattern" -> "Glob" [] OTHER -> "Path",
           rule.path)

FileMatchPolicy(policy, rule, source) ==
  NewMatch(policy, rule, source, "File",
           CASE rule.by = "dir" -> "Directory" [] rule.by = "pattern" -> "Glob" [] OTHER -> "Path", rule.path)

NetworkMatchPolicy(policy, rule, source) == NewMatch(policy, rule, source, "Network", "Protocol", rule.path[1])

\* getOperationAndCapabilityFromName: without BPF-LSM only net_raw is known.
CapabilityMatchPolicy(policy, rule, source) ==
  CASE mode = "BPFLSM"           -> NewMatch(policy, rule, source, "Capabilities", "Capability", rule.path[1])
    [] rule.path = <<"NET_RAW">> -> NewMatch(policy, rule, source, "Network", "Capability", "RAW")
    [] OTHER                     -> NewMatch(policy, rule, source, "", "Capability", "unknown")

\* A source of a system call rule is [path, dir, recursive]; dir: it ends in /.
SyscallMatchPolicy(policy, rule, source, path) ==
  [NewMatch(policy, rule, IF source = NoSource THEN NoSource ELSE source, "Syscall", rule.syscall, path) EXCEPT
     !.recursive = source # NoSource /\ source.dir /\ source.recursive, !.action = "Audit"]

\* A rule has one match per source.
PerSource(rule) == IF rule.sources = <<>> THEN <<NoSource>> ELSE rule.sources

RulesOf(policy, cls, by) == SelectSeq(policy, LAMBDA r : r.cls = cls /\ r.by = by)

\* The loops over a policy's process rules: paths, directories, patterns.
ProcessMatches(policy) ==
  LET Of(r) == [n \in DOMAIN PerSource(r) |-> ProcessMatchPolicy(policy, r, PerSource(r)[n])]
      rules == SelectSeq(policy, LAMBDA r : r.cls = "process" /\ r.by \in {"path", "name"})
               \o RulesOf(policy, "process", "dir") \o RulesOf(policy, "process", "pattern")
  IN FlattenSeq([n \in DOMAIN rules |-> Of(rules[n])])

\* On the node a pattern is enforced even when nothing else is.
HostProcessMatches(policy) ==
  [n \in DOMAIN ProcessMatches(policy) |->
     LET m == ProcessMatches(policy)[n]
     IN IF m.type # "Glob" THEN m
        ELSE [m EXCEPT !.action = CASE @ = "Audit (Allow)" -> "Allow" [] @ = "Audit (Block)" -> "Block" [] OTHER -> @]]

FileMatches(policy) ==
  LET Of(r) == [n \in DOMAIN PerSource(r) |-> FileMatchPolicy(policy, r, PerSource(r)[n])]
      rules == RulesOf(policy, "file", "path") \o RulesOf(policy, "file", "dir") \o RulesOf(policy, "file", "pattern")
  IN FlattenSeq([n \in DOMAIN rules |-> Of(rules[n])])

HostFileMatches(policy) == FileMatches(policy)

NetworkMatches(policy) ==
  LET Of(r) == [n \in DOMAIN PerSource(r) |-> NetworkMatchPolicy(policy, r, PerSource(r)[n])]
      rules == RulesOf(policy, "network", "protocol")
  IN FlattenSeq([n \in DOMAIN rules |-> Of(rules[n])])

CapabilityMatches(policy) ==
  LET Of(r) == [n \in DOMAIN PerSource(r) |-> CapabilityMatchPolicy(policy, r, PerSource(r)[n])]
      rules == RulesOf(policy, "capabilities", "capability")
  IN FlattenSeq([n \in DOMAIN rules |-> Of(rules[n])])

HostNetworkMatches(policy) == NetworkMatches(policy) \o CapabilityMatches(policy)

\* System calls, then system calls on a path; ReadOnly stands for a recursive path.
SyscallMatches(policy) ==
  LET calls == RulesOf(policy, "syscall", "syscall")
      paths == RulesOf(policy, "syscall", "path")
      Of(r, path, deep) ==
        [n \in DOMAIN PerSource(r) |->
           [SyscallMatchPolicy(policy, r, PerSource(r)[n], path) EXCEPT !.readOnly = deep]]
  IN FlattenSeq([n \in DOMAIN calls |-> Of(calls[n], <<>>, FALSE)])
     \o FlattenSeq([n \in DOMAIN paths |-> Of(paths[n], paths[n].path, paths[n].recursive)])

\* The node's matches are made without the path, which is set too late.
HostSyscallMatches(policy) ==
  [n \in DOMAIN SyscallMatches(policy) |-> [SyscallMatches(policy)[n] EXCEPT !.resource = <<>>, !.readOnly = FALSE]]

\* A policy that brings an AppArmor profile is left out as a whole.
Native(policy) == \E n \in DOMAIN policy : policy[n].by = "apparmor"

\* fd.SecurityPolicies[key].Policies
Matches(policies) ==
  FlattenSeq([n \in DOMAIN policies |->
    LET p == policies[n]
    IN IF Native(p) THEN <<>>
       ELSE IF host THEN HostProcessMatches(p) \o HostFileMatches(p) \o HostNetworkMatches(p) \o HostSyscallMatches(p)
       ELSE ProcessMatches(p) \o FileMatches(p) \o NetworkMatches(p) \o CapabilityMatches(p) \o SyscallMatches(p)])

(***************************************************************************)
(* One log against the matches.  A log is [op, resource, process, parent,  *)
(* rdonly (Data has O_RDONLY), owner (UID = OID), result, syscall,         *)
(* enforcer, visible, type, policy, tags, action].                         *)
(***************************************************************************)
Under(dir, path) == Len(dir) < Len(path) /\ IsPrefix(dir, path)

matchResources(m, log) ==
  LET target == IF m.op = "File" THEN log.resource ELSE log.process
  IN \/ m.type = "Path" /\ m.resource = target
     \/ m.type = "Directory" /\ Under(m.resource, target) /\ (m.recursive \/ Len(target) = Len(m.resource) + 1)
     \/ m.op = "File" /\ m.type = "Directory" /\ m.resource = target

Covers(m, log) ==
  \/ m.type = "Glob" /\ \E path \in {log.resource} \cup (IF log.op = "Process" THEN {log.process} ELSE {}) :
                          Under(m.resource, path) /\ Len(path) = Len(m.resource) + 1
  \/ m.type = "ExecName" /\ m.resource = <<Last(log.process)>>
  \/ matchResources(m, log)

MatchedFlags(m, log) ==
  LET fits == (m.readOnly => log.rdonly) /\ (m.owner => log.owner)
  IN fits => (m.action \in AllowActions \/ (~m.readOnly /\ ~m.owner))

Enforcer == IF mode = "Audited" THEN "eBPF Monitor" ELSE mode

Claim(log, m, action, enforcer) ==
  [log EXCEPT !.type = "MatchedPolicy", !.policy = m.policy, !.action = action, !.enforcer = enforcer,
              !.tags = IF m.policy \in Tagged THEN m.policy ELSE @]

ClaimPosture(log, action) ==
  [log EXCEPT !.type = "MatchedPolicy", !.policy = "DefaultPosture", !.action = action, !.enforcer = "eBPF Monitor", !.tags = None]

Passed(log) == log.result = "Passed"

PostureAlert(posture) == IF posture = "block" THEN "Audit (Block)" ELSE "Audit"

\* acc is [log, skip]: skip once an Audit or Block rule has claimed the log.
MatchProcessOrFile(acc, m, posture) ==
  LET log     == acc.log
      sourced == ~m.fromSource \/ m.source \in {log.parent, log.process}
      covered == sourced /\ Covers(m, log)
      flags   == MatchedFlags(m, log)
      blocks  == \/ m.action = "Block" /\ ~Passed(log)
                 \/ m.action = "Audit (Block)" /\ Passed(log) /\ (flags <=> ~(m.owner \/ m.readOnly))
  IN CASE m.op # log.op \/ acc.skip -> acc
       [] covered /\ flags /\ m.action \in AllowActions /\ Passed(log) ->
            IF log.action = "Audit" THEN acc ELSE [acc EXCEPT !.log = Claim(log, m, "Allow", Enforcer)]
       [] covered /\ flags /\ m.action = "Audit" /\ Passed(log) -> [log |-> Claim(log, m, "Audit", "eBPF Monitor"), skip |-> TRUE]
       [] covered /\ blocks -> [log |-> Claim(log, m, m.action, Enforcer), skip |-> TRUE]
       [] covered /\ flags /\ m.action = "Allow" /\ ~Passed(log) -> acc
       [] sourced /\ m.action = "Allow" /\ ~Passed(log) -> [acc EXCEPT !.log = ClaimPosture(log, "Block")]
       [] sourced /\ m.action = "Audit (Allow)" /\ Passed(log) -> [acc EXCEPT !.log = ClaimPosture(log, PostureAlert(posture.file))]
       [] OTHER ->
            IF Passed(log) /\ log.type = "" /\ \/ posture.file = "block" /\ m.action = "Audit (Allow)"
                                               \/ posture.file = "audit" /\ m.action \in AllowActions
            THEN [acc EXCEPT !.log = ClaimPosture(log, PostureAlert(posture.file))] ELSE acc

\* fetchProtocol of a hook's type or protocol, of the monitor's both.
fetchProtocol(resource) ==
  CASE "TCP" \in resource \/ {"STREAM", "HOPOPT"} \subseteq resource -> "TCP"
    [] "UDP" \in resource \/ {"DGRAM", "HOPOPT"} \subseteq resource  -> "UDP"
    [] resource \cap {"ICMP", "ICMPv6"} # {}                         -> "ICMP"
    [] "RAW" \in resource                                            -> "RAW"
    [] "SCTP" \in resource                                           -> "SCTP"
    [] "STREAM" \in resource                                         -> "STREAM"
    [] "DGRAM" \in resource                                          -> "DGRAM"
    [] OTHER -> LET types == SelectSeq(<<"RDM", "SEQPACKET", "DCCP", "PACKET">>, LAMBDA t : t \in resource)
                IN IF types = <<>> THEN "other" ELSE types[1]

\* An Allow rule that does not match is the posture's only as the last rule.  (No log has
\* the protocol "unknown", which would end the comparison.)
MatchNetwork(acc, m, posture, last) ==
  LET log     == acc.log
      sourced == ~m.fromSource \/ m.source = log.process
      covered == sourced /\ m.resource \in {fetchProtocol(log.resource), "ALL"}
      blocks  == (m.action = "Block" /\ ~Passed(log)) \/ (m.action = "Audit (Block)" /\ Passed(log))
  IN CASE m.op # log.op \/ acc.skip -> acc
       [] covered /\ m.action \in AllowActions /\ Passed(log) -> [log |-> Claim(log, m, "Allow", Enforcer), skip |-> TRUE]
       [] covered /\ m.action = "Audit" /\ Passed(log) -> [log |-> Claim(log, m, "Audit", "eBPF Monitor"), skip |-> TRUE]
       [] covered /\ blocks -> [log |-> Claim(log, m, m.action, Enforcer), skip |-> TRUE]
       [] sourced /\ ~covered /\ ~last -> acc
       [] sourced /\ m.action = "Allow" /\ ~Passed(log) -> [acc EXCEPT !.log = ClaimPosture(log, "Block")]
       [] sourced /\ m.action = "Audit (Allow)" /\ Passed(log) -> [acc EXCEPT !.log = ClaimPosture(log, PostureAlert(posture.network))]
       [] OTHER ->
            IF Passed(log) /\ \/ posture.network = "block" /\ m.action = "Audit (Allow)"
                              \/ posture.network = "audit" /\ m.action \in AllowActions
            THEN [acc EXCEPT !.log = ClaimPosture(log, PostureAlert(posture.network))] ELSE acc

\* No rule ends the search: the last one to match claims the log.
MatchCapability(acc, m, posture) ==
  LET log     == acc.log
      sourced == ~m.fromSource \/ m.source = log.process
      covered == sourced /\ m.resource \in log.resource
      blocks  == (m.action = "Block" /\ ~Passed(log)) \/ (m.action = "Audit (Block)" /\ Passed(log))
  IN CASE m.op # log.op -> acc
       [] covered /\ m.action \in AllowActions /\ Passed(log) -> [acc EXCEPT !.log = Claim(log, m, "Allow", Enforcer)]
       [] covered /\ m.action = "Audit" /\ Passed(log) -> [acc EXCEPT !.log = Claim(log, m, "Audit", "eBPF Monitor")]
       [] covered /\ blocks -> [acc EXCEPT !.log = Claim(log, m, m.action, Enforcer)]
       [] sourced /\ m.action = "Allow" /\ ~Passed(log) -> [acc EXCEPT !.log = ClaimPosture(log, "Block")]
       [] sourced /\ m.action = "Audit (Allow)" /\ Passed(log) -> [acc EXCEPT !.log = ClaimPosture(log, PostureAlert(posture.capabilities))]
       [] OTHER ->
            IF Passed(log) /\ \/ posture.capabilities = "block" /\ m.action = "Audit (Allow)"
                              \/ posture.capabilities = "audit" /\ m.action \in AllowActions
            THEN [acc EXCEPT !.log = ClaimPosture(log, PostureAlert(posture.capabilities))] ELSE acc

\* The log keeps the action it came with.
MatchSyscall(acc, m) ==
  LET log  == acc.log
      from == \/ ~m.fromSource
              \/ m.source.path = log.process
              \/ m.source.dir /\ Under(m.source.path, log.process) /\ (m.recursive \/ Len(log.process) = Len(m.source.path) + 1)
      path == \/ m.resource = <<>>
              \/ m.resource = log.resource
              \/ m.readOnly /\ Under(m.resource, log.resource)
  IN IF m.op = log.op /\ m.type = log.syscall /\ from /\ path
     THEN [acc EXCEPT !.log = Claim(log, m, log.action, log.enforcer)] ELSE acc

\* Variants of the next definition: one that knows no block posture, and one
\* that drops a container's log where visibility is off.
SetLogFieldsAuditOnly(log, existAllow, posture) ==
  IF existAllow /\ posture = "audit" /\ Passed(log) THEN ClaimPosture(log, "Audit")
  ELSE IF host THEN None ELSE [log EXCEPT !.type = "ContainerLog"]
SetLogFieldsVisible(log, existAllow, posture) ==
  IF log.visible THEN [log EXCEPT !.type = IF host THEN "HostLog" ELSE "ContainerLog"] ELSE None

\* What is left when no rule has claimed the log.
setLogFields(log, existAllow, posture) ==
  LET claimed == IF host THEN "MatchedHostPolicy" ELSE "MatchedPolicy"
  IN CASE existAllow /\ posture = "audit" /\ Passed(log)  -> [ClaimPosture(log, "Audit") EXCEPT !.type = claimed]
       [] existAllow /\ posture = "block" /\ ~Passed(log) -> [ClaimPosture(log, "Block") EXCEPT !.type = claimed]
       [] ~host                                           -> [log EXCEPT !.type = "ContainerLog"]
       [] host /\ log.visible                             -> [log EXCEPT !.type = "HostLog"]
       [] OTHER                                           -> None

PostureClass(op) == CASE op = "Network" -> "network" [] op = "Capabilities" -> "capabilities" [] OTHER -> "file"

\* The loop over the matches; posture is fd.DefaultPostures of the namespace.
MatchRules(log, matches, posture) ==
  LET Step(acc, n) ==
        CASE matches[n].action \in AllowActions /\ posture.file = "allow" -> acc
          [] log.op \in {"Process", "File"} -> MatchProcessOrFile(acc, matches[n], posture)
          [] log.op = "Network"             -> MatchNetwork(acc, matches[n], posture, n = Len(matches))
          [] log.op = "Capabilities"        -> MatchCapability(acc, matches[n], posture)
          [] log.op = "Syscall"             -> MatchSyscall(acc, matches[n])
  IN FoldLeft(Step, [log |-> log, skip |-> FALSE], [n \in DOMAIN matches |-> n]).log

\* What becomes of a log once the rules are done with it.
Judgement(log, matched, judged, exist, posture) ==
  CASE log.type = "SystemEvent"                                    -> IF judged THEN log ELSE None
    [] matched.type = "" /\ log.op = "Syscall"                     -> IF host THEN None ELSE setLogFields(matched, FALSE, "")
    [] matched.type = "" /\ log.op # "Syscall"                     -> setLogFields(matched, exist, posture)
    [] matched.type # "" /\ matched.action = "Allow" /\ Passed(log) -> None
    [] OTHER -> [matched EXCEPT !.type = IF host THEN "MatchedHostPolicy" ELSE @]

\* A result other than success and two denials is matched with no rule.
UpdateMatchedPolicy(log, matches) ==
  LET judged  == log.result \in {"Passed", "Denied"}
      matched == IF judged THEN MatchRules(log, matches, IF host THEN NoEntry ELSE fdPosture) ELSE log
      exist   == judged /\ \E n \in DOMAIN matches :
                   /\ matches[n].action \in AllowActions
                   /\ matches[n].op \in (IF log.op \in {"Process", "File"} THEN {"Process", "File"} ELSE {log.op})
      posture == (IF host \/ fdPosture = NoEntry THEN global ELSE fdPosture)[PostureClass(log.op)]
  IN Judgement(log, matched, judged, exist, posture)

Alerts == {"MatchedPolicy", "MatchedHostPolicy"}

\* A policy alert of the monitor becomes a plain log where the enforcer reports
\* the same operation.
Demoted(out) ==
  /\ out.type \in Alerts
  /\ \/ out.policy = "DefaultPosture"
     \/ mode = "BPFLSM" /\ out.action \notin {"Audit", "Audit (Allow)", "Audit (Block)"}

\* The log as it is published, out being what UpdateMatchedPolicy made of it.
Published(log, out) ==
  LET repeats == \/ EnforcerAlerts /\ mode = "BPFLSM" /\ log.enforcer = ""
                 \/ mode # "BPFLSM" /\ ~DefaultPostureLogs
  IN CASE out = None -> None
       [] out # None /\ repeats ->
            IF Demoted(out) THEN [out EXCEPT !.type = IF host THEN "HostLog" ELSE "ContainerLog"] ELSE out
       [] OTHER -> [out EXCEPT !.enforcer = IF mode = "BPFLSM" THEN "BPFLSM" ELSE @]

PushLog(log, matches) ==
  IF log.enforcer = "PRESET" THEN log ELSE Published(log, UpdateMatchedPolicy(log, matches))

\* The words of log.Resource for the key a network hook reports.
GetProtocolFromName(protocol) ==
  CASE protocol = "TCP" -> {"TCP", "STREAM"} [] protocol = "UDP" -> {"UDP", "DGRAM"} [] protocol = "ICMP" -> {"ICMP", "RAW"}
    [] protocol = "SCTP" -> {"SCTP", "STREAM", "SEQPACKET"} [] OTHER -> {protocol}

\* The key looked up last: the one that matched, else the protocol's.
ReportedSocket(map, ev) ==
  LET Found(word, of, source) == Lookup(map, Key("net", <<word, of>>, source), "process", {}) # {}
      protocol == SocketProtocol(ev.type, ev.protocol)
      byType == \/ ev.source # NoSource /\ Found("type", ev.type, ev.source)
                \/ Found("type", ev.type, NoSource) /\ ~(ev.source # NoSource /\ Found("protocol", protocol, ev.source))
  IN IF byType THEN {ev.type} ELSE GetProtocolFromName(protocol)

\* The log of a hook's event.
TraceEvent(map, ev, denied) ==
  [op       |-> CASE ev.cls = "process" -> "Process" [] ev.cls = "file" -> "File" [] ev.cls = "network" -> "Network" [] OTHER -> "Capabilities",
   resource |-> CASE ev.cls = "network" -> ReportedSocket(map, ev) [] ev.cls = "capabilities" -> ToSet(ev.path) [] OTHER -> ev.path,
   process  |-> IF ev.cls = "process" THEN ev.path ELSE ev.source,
   parent   |-> IF ev.cls = "process" THEN ev.source ELSE None,
   rdonly   |-> FALSE, owner |-> ev.owner, result |-> IF denied THEN "Denied" ELSE "Passed", syscall |-> None,
   enforcer |-> "BPFLSM", visible |-> TRUE, type |-> "", policy |-> None, tags |-> None, action |-> ""]

(***************************************************************************)
(* Policies and postures reach the feeder before the enforcer.             *)
(***************************************************************************)
Blocked(posture) == {c \in {"file", "network", "capabilities"} : posture[c] = "block"}

\* UpdateHostRules copies process, file and network rules.
EnforcedPolicies(policies) ==
  IF host THEN [n \in DOMAIN policies |-> SelectSeq(policies[n], LAMBDA r : r.cls # "capabilities")] ELSE policies

MatcherInit ==
  /\ mode \in {"BPFLSM", "AppArmor", "Audited"} /\ host \in BOOLEAN
  /\ feed = <<>> /\ securityPolicies = <<>>
  /\ global \in Postures /\ endPosture = global /\ block = Blocked(global)
  /\ fdPosture = NoEntry

Settled == securityPolicies = EnforcedPolicies(feed)

UpdateSecurityPolicies ==
  /\ Settled
  /\ \/ Len(feed) < MaxPolicies /\ \E p \in Policies \ ToSet(feed) : feed' = Append(feed, p)
     \/ \E n \in DOMAIN feed : feed' = RemoveAt(feed, n)
  /\ UNCHANGED <<securityPolicies, block, mode, host, fdPosture, endPosture, global>>

EnforcePolicies ==
  /\ ~Settled /\ securityPolicies' = EnforcedPolicies(feed)
  /\ UNCHANGED <<block, mode, host, feed, fdPosture, endPosture, global>>

\* A namespace's annotations change.
UpdateDefaultPosture ==
  /\ ~host /\ block = Blocked(endPosture)
  /\ \E p \in Postures : fdPosture' = p /\ endPosture' = p
  /\ UNCHANGED <<securityPolicies, block, mode, host, feed, global>>

EnforcePosture ==
  /\ block # Blocked(endPosture) /\ block' = Blocked(endPosture)
  /\ UNCHANGED <<securityPolicies, mode, host, feed, fdPosture, endPosture, global>>

\* A log no rule claims makes the feeder keep the global posture for the namespace.
PushUnclaimed ==
  /\ ~host /\ fdPosture = NoEntry
  /\ \E log \in MonitorLogs : log.result = "Failed" \/ MatchRules(log, Matches(feed), fdPosture).type = ""
  /\ fdPosture' = global
  /\ UNCHANGED <<securityPolicies, block, mode, host, feed, endPosture, global>>

MatcherNext == UpdateSecurityPolicies \/ EnforcePolicies \/ UpdateDefaultPosture \/ EnforcePosture \/ PushUnclaimed

MatcherSpec == MatcherInit /\ [][MatcherNext]_matcherVars

(***************************************************************************)
(* Properties.                                                             *)
(***************************************************************************)
\* No update is under way, and the feeder's posture is the endpoint's.
InSync ==
  /\ Settled /\ block = Blocked(endPosture)
  /\ fdPosture = endPosture \/ (fdPosture = NoEntry /\ global = endPosture)

\* The policy has a Block rule on the operation.
Blocks(policy, ev) ==
  \E n \in DOMAIN policy :
    /\ policy[n].action = "Block" /\ policy[n].cls = ev.cls
    /\ policy[n].sources = <<>> \/ ev.source \in ToSet(policy[n].sources)
    /\ CASE ev.cls = "network"         -> policy[n].path[1] \in {"ALL", ev.type, SocketProtocol(ev.type, ev.protocol)}
         [] policy[n].by = "name"      -> policy[n].path = <<Last(ev.path)>>
         [] policy[n].by = "dir"       -> \/ policy[n].path = (IF policy[n].recursive THEN SubSeq(ev.path, 1, Len(policy[n].path)) ELSE Front(ev.path))
                                          \/ policy[n].path = ev.path
         [] policy[n].by = "pattern"   -> policy[n].path = Front(ev.path)
         [] OTHER                      -> policy[n].path = ev.path

\* The alert names a policy that blocks the operation, or the posture where none does.
Explains(out, ev) ==
  /\ out.type = "MatchedPolicy" /\ out.action = "Block"
  /\ \/ out.policy = "DefaultPosture" /\ (ev.cls = "capabilities" \/ \A n \in DOMAIN feed : ~Blocks(feed[n], ev))
     \/ out.policy \in ToSet(feed) /\ Blocks(out.policy, ev)

\* An operation that a hook denies in a container raises an alert, which names
\* a policy with a Block rule on it where there is one and DefaultPosture where
\* there is none.  For capabilities an Allow rule that comes later makes it
\* DefaultPosture all the same.  Denials by the options of an Allow rule are
\* left out: the matcher takes these for allowed (policyMatcher.go:1250).
DenialsExplained ==
  (mode = "BPFLSM" /\ ~host /\ InSync) =>
    LET map     == InnerMap
        allowed == ArgumentsList(securityPolicies)
        matches == Matches(feed)
        rules   == Rules(securityPolicies)
    IN \A ev \in Events :
         (/\ Decision(map, allowed, ev).denied
          /\ \A n \in DecidingRule(rules, ev) : rules[n].action = "Block") =>
         Explains(PushLog(TraceEvent(map, ev, TRUE), matches), ev)

IsAlert(out, action) == out # None /\ out.type = "MatchedPolicy" /\ out.action = action

\* An operation that a hook lets pass and reports, since no rule of a container
\* with Allow rules covers it and the posture is audit, raises an alert.
AuditsReported ==
  (mode = "BPFLSM" /\ ~host /\ InSync) =>
    LET map     == InnerMap
        allowed == ArgumentsList(securityPolicies)
        matches == Matches(feed)
    IN \A ev \in Events :
         LET decision == Decision(map, allowed, ev)
         IN decision.alert /\ ~decision.denied /\ endPosture[IF ev.cls = "process" THEN "file" ELSE ev.cls] # "allow"
            => IsAlert(PushLog(TraceEvent(map, ev, FALSE), matches), "Audit")

\* Whatever rules and posture the feeder has by the time it sees the log, that
\* an operation of a container failed or was denied is told to someone.
NoDenialLost ==
  LET matches == Matches(feed)
  IN ~host => \A log \in MonitorLogs : ~Passed(log) => PushLog(log, matches) # None

\* With BPF-LSM the monitor's log of a denied operation is no alert beside the
\* one of the hook that denied it, also while an update is under way.
OneAlertPerDenial ==
  LET matches == Matches(feed)
  IN mode = "BPFLSM" => \A log \in MonitorLogs :
       log.result = "Denied" => ~\E out \in {PushLog(log, matches)} : out # None /\ out.type \in Alerts
=============================================================================
