------------------------------ MODULE SELinux ------------------------------
(***************************************************************************)
(* The SELinux enforcer, which holds the host's policies only: it writes   *)
(* them to a profile, a line for each program and object, and gives the    *)
(* files a line names the labels of the line.  The copy of the profile it  *)
(* keeps (.old) says which labels to take back when the policies change.   *)
(*                                                                         *)
(* Updating takes no lock, and relabelling runs a command for each file.   *)
(* A command may fail, the daemon may crash; env says what may happen.     *)
(***************************************************************************)
EXTENDS Naturals, Sequences, SequencesExt, FiniteSets

CONSTANTS
  Files,           \* the files of the host, each the sequence of its path
  PolicySets,      \* the policies the host may have
  Posture,         \* HostDefaultFilePosture
  Updaters,        \* the handlers that push policies
  Envs             \* [faults, overlap, starts, HostPolicy]

VARIABLES
  env,
  up,              \* "up", "stopping" or "down"
  label,           \* the labels of the files, <<>> for the original one
  profile,         \* the host profile: {} or {its lines}
  old,             \* the copy kubearmor.host.old
  jobs,            \* the updates in progress
  pushed,          \* the policies last pushed
  starts

vars == <<env, up, label, profile, old, jobs, pushed, starts>>

NoSource == <<>>
Daemon == "daemon"
Actors == Updaters \cup {Daemon}
Idle == [pc |-> "idle", lines |-> <<>>]
-----------------------------------------------------------------------------
(* From rules to lines. *)

\* A source without a path is skipped.
Sources(r) == SelectSeq(r.sources, LAMBDA s : s # NoSource)

Line(s, l, r) ==
  [subject |-> s, label |-> l, object |-> r.entity, directory |-> r.by = "dir", recursive |-> r.by = "dir" /\ r.recursive]

FromSources(l, r) == [i \in DOMAIN Sources(r) |-> Line(Sources(r)[i], l, r)]
Global(l, r) == <<Line(NoSource, l, r)>>

AllowedHostProcessMatchPaths(r) == FromSources("allow_t", r)
AllowedHostProcessMatchDirectories(r) == FromSources("allow_t", r)
AllowedHostFileMatchPaths(r) == FromSources(IF r.readOnly THEN "read_t" ELSE "file_t", r)
AllowedHostFileMatchDirectories(r) == FromSources(IF r.readOnly THEN "read_t" ELSE "file_t", r)

BlockedHostProcessMatchPaths(r) == IF r.sources = <<>> THEN Global("block_t", r) ELSE FromSources("block_t", r)
BlockedHostProcessMatchDirectories(r) == IF r.sources = <<>> THEN Global("block_t", r) ELSE FromSources("block_t", r)
BlockedHostFileMatchPaths(r) ==
  LET l == IF r.readOnly THEN "read_t" ELSE "none_t" IN IF r.sources = <<>> THEN Global(l, r) ELSE FromSources(l, r)
BlockedHostFileMatchDirectories(r) ==
  LET l == IF r.readOnly THEN "read_t" ELSE "none_t" IN IF r.sources = <<>> THEN Global(l, r) ELSE FromSources(l, r)

Protocols == <<"tcp", "udp", "icmp", "raw">>
AllFlags == <<"t", "u", "i", "r">>
AllowedHostNetworkMatchProtocols(r) == [i \in 1 .. 4 |-> IF Contains(r.entity, Protocols[i]) THEN AllFlags[i] ELSE "n"]
\* icmp and raw have each other's letter.
BlockedHostNetworkMatchProtocols(r) == [i \in 1 .. 4 |-> IF Contains(r.entity, Protocols[i]) THEN "n" ELSE <<"t", "u", "r", "i">>[i]]

Kinds == <<<<"process", "path">>, <<"process", "dir">>, <<"file", "path">>, <<"file", "dir">>>>

LinesOfRule(r) ==
  CASE <<r.action, r.cls, r.by>> = <<"Allow", "process", "path">> -> AllowedHostProcessMatchPaths(r)
    [] <<r.action, r.cls, r.by>> = <<"Allow", "process", "dir">> -> AllowedHostProcessMatchDirectories(r)
    [] <<r.action, r.cls, r.by>> = <<"Allow", "file", "path">> -> AllowedHostFileMatchPaths(r)
    [] <<r.action, r.cls, r.by>> = <<"Allow", "file", "dir">> -> AllowedHostFileMatchDirectories(r)
    [] <<r.action, r.cls, r.by>> = <<"Block", "process", "path">> -> BlockedHostProcessMatchPaths(r)
    [] <<r.action, r.cls, r.by>> = <<"Block", "process", "dir">> -> BlockedHostProcessMatchDirectories(r)
    [] <<r.action, r.cls, r.by>> = <<"Block", "file", "path">> -> BlockedHostFileMatchPaths(r)
    [] <<r.action, r.cls, r.by>> = <<"Block", "file", "dir">> -> BlockedHostFileMatchDirectories(r)

\* The lines of the rules of some classes with one action, policy by policy: in each the
\* processes before the files, and the paths before the directories.
LinesOf(policies, classes, action) ==
  LET OfKind(policy, kind) == SelectSeq(policy, LAMBDA r : <<r.cls, r.by>> = kind /\ r.cls \in classes /\ r.action = action)
      InOrder(policy) == FlattenSeq([k \in DOMAIN Kinds |-> OfKind(policy, Kinds[k])])
      rules == FlattenSeq([i \in DOMAIN policies |-> InOrder(policies[i])])
  IN FlattenSeq([k \in DOMAIN rules |-> LinesOfRule(rules[k])])

\* The protocols of a source are those of the last rule that names it.
NetworkFlags(policies, s) ==
  LET rules == SelectSeq(FlattenSeq(policies), LAMBDA r : r.cls = "network" /\ r.action \in {"Allow", "Block"} /\ Contains(Sources(r), s))
      r == rules[Len(rules)]
  IN IF rules = <<>> THEN AllFlags
     ELSE IF r.action = "Allow" THEN AllowedHostNetworkMatchProtocols(r)
     ELSE BlockedHostNetworkMatchProtocols(r)

\* ContainsElement: the first line for a subject and an object is the one that stays.
ContainsElement(lines, l) == \E i \in DOMAIN lines : lines[i].subject = l.subject /\ lines[i].object = l.object
FirstOfEach(lines) == FoldLeft(LAMBDA acc, l : IF ContainsElement(acc, l) THEN acc ELSE Append(acc, l), <<>>, lines)

OfSource(lines, s) == SelectSeq(lines, LAMBDA l : l.subject = s)
BySource(lines, order) == FlattenSeq([i \in DOMAIN order |-> OfSource(lines, order[i])])

LocalLine(policies, l) ==
  LET flags == NetworkFlags(policies, l.subject)
  IN l @@ [subjectLabel |-> <<Posture, flags, "exec_t">>, objectLabel |-> <<Posture, flags, l.label>>]
GlobalLine(l) == l @@ [subjectLabel |-> <<>>, objectLabel |-> <<"global", <<>>, l.label>>]

Profile(local, global) == local \o global

\* The maps of the rules with a source are gone through in any order.
GenerateSELinuxHostProfile(policies, blackOrder, whiteOrder) ==
  LET global == FirstOfEach(OfSource(LinesOf(policies, {"process"}, "Block") \o LinesOf(policies, {"file"}, "Block"), NoSource))
      local == FirstOfEach(BySource(LinesOf(policies, {"process", "file"}, "Block"), blackOrder)
                           \o BySource(LinesOf(policies, {"process", "file"}, "Allow"), whiteOrder))
  IN Profile([i \in DOMAIN local |-> LocalLine(policies, local[i])], [i \in DOMAIN global |-> GlobalLine(global[i])])

SourcesOf(policies) == UNION {ToSet(Sources(r)) : r \in ToSet(FlattenSeq(policies))}
-----------------------------------------------------------------------------
(* Labels. *)

\* The labels install.sh puts in the module.
Defined(l) == l[1] = "global" \/ \A i \in 1 .. 4 : l[2][i] \in {AllFlags[i], "n"}

\* The files under a directory, or in it.
Objects(l) ==
  IF ~l.directory THEN {l.object} \cap Files
  ELSE {f \in Files : IsStrictPrefix(l.object, f) /\ (l.recursive \/ Len(f) = Len(l.object) + 1)}
Subjects(l) == {l.subject} \cap Files

\* Whether a command succeeds.
Outcomes(what) == IF what \in env.faults THEN BOOLEAN ELSE {TRUE}
Succeed(what, files) == IF what \in env.faults THEN SUBSET files ELSE {files}

Init ==
  /\ env \in Envs
  /\ up = "down" /\ starts = 0
  /\ label = [f \in Files |-> <<>>]
  /\ profile = {} /\ old = {}
  /\ jobs = [a \in Actors |-> Idle]
  /\ pushed = {}

\* The directory is removed and made again, with an empty profile of the host; then the
\* module is installed.  (The labels to set for an empty profile are none.)
NewSELinuxEnforcer ==
  /\ up = "down" /\ starts < env.starts
  /\ \E tools \in Outcomes("tools"), written \in Outcomes("write"), copied \in Outcomes("copy"), module \in Outcomes("module") :
       LET registered == written \/ ~env.HostPolicy
       IN /\ profile' \in IF ~tools THEN {profile} ELSE IF ~env.HostPolicy THEN {{}} ELSE IF written THEN {{<<>>}} ELSE {{}, {<<>>}}
          /\ old' = IF ~tools THEN old ELSE IF env.HostPolicy /\ written /\ copied THEN {<<>>} ELSE {}
          /\ up' = IF tools /\ registered /\ module THEN "up" ELSE "down"
          /\ starts' = IF tools /\ registered /\ module THEN starts + 1 ELSE starts
  /\ pushed' = {}
  /\ UNCHANGED <<env, label, jobs>>

Crash ==
  /\ up # "down" /\ env.starts > 1
  /\ up' = "down"
  /\ jobs' = [a \in Actors |-> Idle]
  /\ UNCHANGED <<env, label, profile, old, pushed, starts>>

MayStart == env.overlap \/ \A a \in Actors : jobs[a].pc = "idle"

\* UpdateHostSecurityPolicies: nothing to do if the profile has these lines, or is not there.
UpdateHostSecurityPolicies(u, policies) ==
  LET enabled == IF env.HostPolicy THEN policies ELSE <<>>
  IN /\ up = "up" \/ (up = "stopping" /\ env.overlap)
     /\ jobs[u].pc = "idle" /\ MayStart
     /\ pushed' = {enabled}
     /\ \E black, white \in SetToSeqs(SourcesOf(enabled)) :
          LET lines == GenerateSELinuxHostProfile(enabled, black, white)
          IN jobs' = IF profile = {} \/ profile = {lines} THEN jobs
                     ELSE [jobs EXCEPT ![u] = [pc |-> "write", lines |-> lines]]
     /\ UNCHANGED <<env, up, label, profile, old, starts>>

\* UnregisterSELinuxHostProfile, when the enforcer is closed.
UnregisterSELinuxHostProfile ==
  /\ up = "up" /\ MayStart
  /\ up' = IF env.HostPolicy THEN "stopping" ELSE "down"
  /\ jobs' = IF env.HostPolicy THEN [jobs EXCEPT ![Daemon] = [pc |-> "write", lines |-> <<>>]] ELSE jobs
  /\ UNCHANGED <<env, label, profile, old, pushed, starts>>

At(a, pc) == up # "down" /\ jobs[a].pc = pc
Goto(a, pc, lines) == jobs' = [jobs EXCEPT ![a] = [pc |-> pc, lines |-> lines]]
Ends(a) ==
  /\ up' = IF a = Daemon THEN "down" ELSE up
  /\ jobs' = IF a = Daemon THEN [b \in Actors |-> Idle] ELSE [jobs EXCEPT ![a] = Idle]

\* UpdateSELinuxHostProfile: creating the file empties it before the lines are written,
\* and they may fail to reach the disk.
UpdateSELinuxHostProfile(a) ==
  /\ At(a, "write")
  /\ \E ok \in Outcomes("write") :
       /\ profile' \in IF ok THEN {{jobs[a].lines}} ELSE {profile, {<<>>}, {jobs[a].lines}}
       /\ IF ok THEN UNCHANGED up /\ Goto(a, "restore", IF old = {} THEN <<>> ELSE CHOOSE l \in old : TRUE) ELSE Ends(a)
  /\ UNCHANGED <<env, label, old, pushed, starts>>

\* Mutant: the label of the program is not taken back.
RestoreObjects(a) ==
  /\ At(a, "restore") /\ jobs[a].lines # <<>>
  /\ LET l == Head(jobs[a].lines)
     IN \E files \in Succeed("restorecon", Objects(l)) :
          label' = [f \in Files |-> IF f \in files THEN <<>> ELSE label[f]]
  /\ Goto(a, "restore", Tail(jobs[a].lines))
  /\ UNCHANGED <<env, up, profile, old, pushed, starts>>

\* RestoreSELinuxLabels, a line with all its files
RestoreSELinuxLabels(a) ==
  /\ At(a, "restore") /\ jobs[a].lines # <<>>
  /\ LET l == Head(jobs[a].lines)
     IN \E files \in Succeed("restorecon", Subjects(l) \cup Objects(l)) :
          label' = [f \in Files |-> IF f \in files THEN <<>> ELSE label[f]]
  /\ Goto(a, "restore", Tail(jobs[a].lines))
  /\ UNCHANGED <<env, up, profile, old, pushed, starts>>

\* UpdateSELinuxLabels, once the old labels are restored: the profile is copied and read.
CopyProfile(a) ==
  /\ At(a, "restore") /\ jobs[a].lines = <<>>
  /\ \E ok \in Outcomes("copy") : old' \in IF ok THEN {profile} ELSE {old, {<<>>}}
  /\ Goto(a, "label", CHOOSE l \in profile : TRUE)
  /\ UNCHANGED <<env, up, label, profile, pushed, starts>>

\* UpdateSELinuxLabels, a line: the program first and then the object.
UpdateSELinuxLabels(a) ==
  LET l == Head(jobs[a].lines)
  IN /\ At(a, "label") /\ jobs[a].lines # <<>>
     /\ \E s \in Succeed("chcon", Subjects(l)), o \in Succeed("chcon", Objects(l)) :
          label' = [f \in Files |->
            IF f \in o /\ Defined(l.objectLabel) THEN l.objectLabel
            ELSE IF f \in s /\ Defined(l.subjectLabel) THEN l.subjectLabel ELSE label[f]]
     /\ Goto(a, "label", Tail(jobs[a].lines))
     /\ UNCHANGED <<env, up, profile, old, pushed, starts>>

LabelsDone(a) ==
  /\ At(a, "label") /\ jobs[a].lines = <<>>
  /\ Ends(a)
  /\ UNCHANGED <<env, label, profile, old, pushed, starts>>

Step(a) ==
  \/ UpdateSELinuxHostProfile(a) \/ RestoreSELinuxLabels(a) \/ CopyProfile(a)
  \/ UpdateSELinuxLabels(a) \/ LabelsDone(a)

HostCalls == \E u \in Updaters, policies \in PolicySets : UpdateHostSecurityPolicies(u, policies)
Commands == UnregisterSELinuxHostProfile \/ \E a \in Actors : Step(a)

Next == NewSELinuxEnforcer \/ Crash \/ HostCalls \/ Commands

Spec == Init /\ [][Next]_vars
-----------------------------------------------------------------------------
TypeOK ==
  /\ env \in Envs /\ up \in {"up", "stopping", "down"} /\ starts \in 0 .. env.starts
  /\ DOMAIN label = Files /\ \A f \in Files : label[f] = <<>> \/ Defined(label[f])
  /\ Cardinality(profile) <= 1 /\ Cardinality(old) <= 1 /\ pushed \subseteq PolicySets \cup {<<>>}
  /\ \A a \in Actors : jobs[a].pc \in {"idle", "write", "restore", "label"}

Quiet == \A a \in Actors : jobs[a].pc = "idle"
Named(lines) == UNION {Subjects(l) \cup Objects(l) : l \in UNION {ToSet(t) : t \in lines}}
Labelled == {f \in Files : label[f] # <<>>}

\* Every label that was set can be taken back: its file is named in the copy of the
\* profile, whatever was pushed before, also when setting labels or writing the profile
\* fails (UpdateSELinuxLabels copies the profile before it sets a label).
LabelsRecorded ==
  (up # "down" /\ env.faults \cap {"restorecon", "copy"} = {} /\ ~env.overlap /\ env.starts = 1 /\ Quiet) =>
    Labelled \subseteq Named(old)

\* Closing the enforcer gives every file its original label back.
LabelsRestored ==
  (up = "down" /\ env.faults \cap {"restorecon", "copy", "write"} = {} /\ ~env.overlap /\ env.starts = 1) =>
    Labelled = {}

\* A file that a Block rule without sources names has a label for every program, also
\* when rules for some programs name it too (their lines come first in the profile).
BlockedForAll ==
  (up = "up" /\ Quiet /\ env.faults = {} /\ ~env.overlap) =>
    \A policies \in pushed : \A r \in ToSet(FlattenSeq(policies)) :
      (env.HostPolicy /\ r.action = "Block" /\ r.sources = <<>> /\ r.cls # "network") =>
        \A f \in Objects(Line(NoSource, "", r)) : label[f] # <<>> /\ label[f][1] = "global"
=============================================================================
