----------------------------- MODULE MCEnforcers -----------------------------
(***************************************************************************)
(* The selection of an enforcer together with the AppArmor and the SELinux *)
(* enforcer it may set up: the calls of the daemon reach the one that was  *)
(* selected, and a daemon that is started again selects again.             *)
(***************************************************************************)
EXTENDS AppArmor, Enforcers

CONSTANTS web, db, cron, p1, p2, q1, q2

VARIABLES seEnv, seUp, label, profile, old, jobs, sePushed, seStarts

seVars == <<seEnv, seUp, label, profile, old, jobs, sePushed, seStarts>>

MCPods == {web, db, cron}
MCProfileOf == [q \in Pods |-> IF q = cron THEN p2 ELSE p1]
bash == <<"bin", "bash">>
Rule == [cls |-> "file", by |-> "path", entity |-> <<"a", "f">>, recursive |-> FALSE, owner |-> FALSE,
         readOnly |-> FALSE, sources |-> <<>>, action |-> "Block"]
MCPolicySets == {<<>>, <<<<Rule>>>>, <<<<[Rule EXCEPT !.sources = <<bash>>]>>>>}

Generator == INSTANCE AppArmorProfile
MCProfileBody(policies) ==
  Generator!GenerateProfileBody(policies, [file |-> "block", network |-> "audit", capabilities |-> "audit"])

\* Only the host's policies; then one thing at a time.
Bare == [faults |-> {}, overlap |-> FALSE, starts |-> 1, K8sEnv |-> TRUE, HostPolicy |-> TRUE, exec |-> FALSE, pods |-> {}]
MCEnvs == {
  Bare,
  [Bare EXCEPT !.pods = {web, db}],
  [Bare EXCEPT !.pods = {web}, !.starts = 2],
  [Bare EXCEPT !.faults = {"load", "write"}],
  [Bare EXCEPT !.pods = {web}, !.faults = {"load", "write"}, !.HostPolicy = FALSE],
  [Bare EXCEPT !.pods = {web}, !.faults = {"unload", "disable", "unknown"}],
  [Bare EXCEPT !.pods = {web}, !.faults = {"remove"}, !.starts = 2, !.HostPolicy = FALSE],
  [Bare EXCEPT !.pods = {cron}, !.faults = {"enforce"}, !.exec = TRUE, !.HostPolicy = FALSE],
  [Bare EXCEPT !.pods = {web}, !.K8sEnv = FALSE],
  [Bare EXCEPT !.overlap = TRUE]}

SEFiles == {<<"d", "f">>, <<"d", "e", "g">>, bash}
Dir == [Rule EXCEPT !.by = "dir", !.entity = <<"d">>]
SEPolicySets == {
  <<>>,
  <<<<Dir, [Rule EXCEPT !.cls = "process", !.entity = bash]>>>>,
  <<<<[Rule EXCEPT !.entity = <<"d", "f">>, !.sources = <<bash>>]>>, <<[Dir EXCEPT !.recursive = TRUE]>>>>,
  <<<<[Rule EXCEPT !.entity = <<"d", "f">>, !.sources = <<bash>>]>>,
    <<[Rule EXCEPT !.cls = "process", !.entity = <<"d", "f">>, !.sources = <<bash>>],
      [Rule EXCEPT !.entity = <<"d", "f">>, !.sources = <<<<"d", "e", "g">>>>, !.action = "Allow"]>>>>,
  <<<<[Dir EXCEPT !.action = "Allow", !.recursive = TRUE, !.sources = <<bash>>],
      [Dir EXCEPT !.cls = "network", !.entity = <<"tcp">>, !.sources = <<bash>>, !.action = "Allow"]>>>>}
SEBare == [faults |-> {}, overlap |-> FALSE, starts |-> 1, HostPolicy |-> TRUE]
SEEnvs == {
  SEBare,
  [SEBare EXCEPT !.HostPolicy = FALSE],
  [SEBare EXCEPT !.starts = 2],
  [SEBare EXCEPT !.faults = {"tools", "module"}],
  [SEBare EXCEPT !.faults = {"chcon", "write"}],
  [SEBare EXCEPT !.faults = {"restorecon", "copy"}]}

SE == INSTANCE SELinux WITH
  env <- seEnv, up <- seUp, pushed <- sePushed, starts <- seStarts,
  Files <- SEFiles, PolicySets <- SEPolicySets, Posture <- "audit", Envs <- SEEnvs

MCHooks == <<"bprm_check_security", "file_open">>
Plain == [order |-> <<>>, readable |-> TRUE, lsms |-> {}, probe |-> FALSE, inCluster |-> FALSE, fails |-> "no step"]
AppArmorHost == [Plain EXCEPT !.lsms = {"apparmor"}]
SELinuxHost == [Plain EXCEPT !.lsms = {"selinux"}]
MCMachines ==
  {AppArmorHost, SELinuxHost}
  \cup [order : {<<>>, <<"apparmor", "bpf">>, <<"landlock", "selinux">>}, readable : BOOLEAN,
        lsms : {{"bpf"}, {"apparmor", "bpf", "landlock"}, {"selinux", "apparmor"}}, probe : BOOLEAN, inCluster : BOOLEAN,
        fails : {"memlock", "kubearmor_arguments", "objects", "file_open", "events", "no step"}]

\* The hosts with one module meet every environment of its enforcer.
EnvOf ==
  CASE machine = AppArmorHost -> env \in MCEnvs /\ seEnv = SEBare
    [] machine = SELinuxHost -> env = Bare /\ seEnv \in SEEnvs
    [] OTHER -> /\ env \in {Bare, [Bare EXCEPT !.faults = {"load"}]}
                /\ seEnv \in {SEBare, [SEBare EXCEPT !.faults = {"tools", "module"}]}

\* The handlers that push policies are alike.
Symmetric == Permutations(Updaters)

MCInit == EnforcersInit /\ Init /\ SE!Init /\ EnvOf

MCNext ==
  \/ Select /\ UNCHANGED <<vars, seVars>>
  \/ NewAppArmorEnforcer /\ TryAppArmor(up' = "up") /\ UNCHANGED seVars
  \/ SE!NewSELinuxEnforcer /\ TrySELinux(seUp' = "up") /\ UNCHANGED vars
  \/ RegistersProfiles /\ ProfileCalls /\ UNCHANGED <<enforcer, seVars>>
  \/ UpdatesContainers /\ EnforcerType = "AppArmor" /\ ContainerCalls /\ UNCHANGED <<enforcer, seVars>>
  \/ UpdatesHost /\ EnforcerType = "AppArmor" /\ HostCalls /\ UNCHANGED <<enforcer, seVars>>
  \/ UpdatesHost /\ EnforcerType = "SELinux" /\ SE!HostCalls /\ UNCHANGED <<enforcer, vars>>
  \/ (Commands \/ Outside) /\ UNCHANGED <<enforcer, seVars>>
  \/ SE!Commands /\ UNCHANGED <<enforcer, vars>>
  \/ Ends /\ Forget /\ UNCHANGED seVars
  \/ SE!Crash /\ Forget /\ UNCHANGED vars

MCSpec == MCInit /\ [][MCNext]_<<enforcer, vars, seVars>>

\* The kernel has the policies last pushed and no others: the AppArmor profiles with exactly
\* their sub-profiles (UpdateAppArmorProfile), and a label on every file a SELinux Block rule
\* names for all programs (UpdateSELinuxLabels).
PoliciesEnforced == RulesEnforced /\ SubprofilesMatch /\ SE!BlockedForAll

\* What the daemon set is taken back: it stops without leaving a policy in AppArmor or a
\* label on a file, every label it has set is on record, and host policies are not on disk
\* once they are applied, where a reboot would find them (DestroyRuntimeEnforcer,
\* RestoreSELinuxLabels, ClearKubeArmorHostFile).
TakenBack == StoppedClean /\ SE!LabelsRestored /\ SE!LabelsRecorded /\ HostFileCleared

\* The first enforcer in the configured order that can be set up is, and nothing is left of
\* those that could not (selectLsm, DestroyBPFEnforcer); the parts keep their types.
EnforcerChosen ==
  /\ TriedInOrder /\ OneEnforcer
  /\ TypeOK /\ SE!TypeOK /\ EnforcersTypeOK
=============================================================================
