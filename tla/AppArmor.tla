------------------------------ MODULE AppArmor ------------------------------
(***************************************************************************)
(* The AppArmor enforcer: a profile per container of a workload and one    *)
(* for the host, each a file under /etc/apparmor.d and a profile in the    *)
(* kernel.                                                                 *)
(*                                                                         *)
(* Registering and unregistering profiles is serialised by a lock;         *)
(* updating one with new policies takes no lock, and lets other handlers   *)
(* in between the commands it runs.  A command may fail, the daemon may    *)
(* crash or be stopped, and the machine may be rebooted; env says what may *)
(* happen in a behaviour.                                                  *)
(*                                                                         *)
(* A text is <<"none">> (no such file, or nothing loaded), <<"foreign">>   *)
(* (not written by KubeArmor), <<"empty">>, <<"default", privileged>> or   *)
(* <<"body", privileged, profile>>, the profile being the one that         *)
(* AppArmorProfile generates.                                              *)
(***************************************************************************)
EXTENDS Naturals, Sequences, FiniteSets

CONSTANTS
  Profiles,        \* the names of container profiles
  Pods,
  ProfileOf,       \* [Pods -> Profiles]
  Privileged,      \* the profiles of privileged containers
  Foreign,         \* the profiles somebody else put in the directory
  PolicySets,      \* the policies an endpoint may have, or the host
  ProfileBody(_),  \* the profile of policies: GenerateProfileBody, of AppArmorProfile
  Updaters,        \* the handlers that push policies
  Envs             \* [faults, overlap, starts, K8sEnv, HostPolicy, exec, pods]

ASSUME AppArmorAssumption ==
  /\ "kubearmor.host" \notin Profiles /\ ProfileOf \in [Pods -> Profiles]
  /\ Privileged \subseteq Profiles /\ Foreign \subseteq Profiles
  /\ \A e \in Envs : {e.overlap, e.HostPolicy, e.exec} \subseteq BOOLEAN /\ e.starts \in Nat

VARIABLES
  env,
  up,              \* "up", "stopping" or "down"
  file,            \* the directory /etc/apparmor.d
  kernel,          \* the profiles in the kernel
  children,        \* and their sub-profiles
  AppArmorProfiles,\* ae.AppArmorProfiles: the pods of the profiles it manages
  AppArmorPrivilegedProfiles,
  live,            \* the pods the daemon knows of
  running,         \* the profile or sub-profile the processes of a pod run in, <<>> for none
  pushed,          \* the policies last pushed to a profile since it was set up
  update,          \* the updates in progress
  starts           \* how often the daemon was started

memory == <<AppArmorProfiles, AppArmorPrivilegedProfiles, update>>
system == <<file, kernel, children>>
cluster == <<live, running>>
vars == <<env, up, system, memory, cluster, pushed, starts>>

Host == "kubearmor.host"
Names == Profiles \cup {Host}
Idle == [pc |-> "idle", name |-> Host, np |-> <<"none">>]

Default(p, privileged) == <<"default", p \in privileged>>
Body(p, policies, privileged) ==
  <<"body", p = Host \/ p \in privileged, ProfileBody(policies)>>

Managed(text) == text[1] \in {"default", "body"}
OutOfControl(text) == text[1] \in {"foreign", "empty"}
SubprofilesOf(text) == IF text[1] = "body" THEN DOMAIN text[3].FromSource ELSE {}
Of(p, sources) == {<<p, s>> : s \in sources}

With(map, key, value) == [k \in DOMAIN map \cup {key} |-> IF k = key THEN value ELSE map[k]]
Without(map, key) == [k \in DOMAIN map \ {key} |-> map[k]]

\* Whether a command succeeds.
Outcomes(what) == IF what \in env.faults THEN BOOLEAN ELSE {TRUE}

Init ==
  /\ env \in Envs
  /\ up = "down" /\ starts = 0
  /\ file = [n \in Names |-> IF n \in Foreign THEN <<"foreign">> ELSE <<"none">>]
  /\ kernel = [n \in Names |-> IF n \in Foreign THEN <<"foreign">> ELSE <<"none">>]
  /\ children = {}
  /\ AppArmorProfiles = <<>>
  /\ AppArmorPrivilegedProfiles = {}
  /\ live = {} /\ running = [q \in Pods |-> <<>>]
  /\ pushed = [n \in Names |-> {}]
  /\ update = [u \in Updaters |-> Idle]
-----------------------------------------------------------------------------
(* The commands.  They work on the file as it is when they run. *)

\* apparmor_parser -r
Loaded(p, text) ==
  /\ kernel' = [kernel EXCEPT ![p] = IF Managed(text) THEN text ELSE @]
  /\ children' = children \cup Of(p, SubprofilesOf(text))

\* apparmor_parser -R and aa-disable
Unloaded(p, text) ==
  /\ kernel' = [kernel EXCEPT ![p] = IF Managed(text) THEN <<"none">> ELSE @]
  /\ children' = children \ Of(p, SubprofilesOf(text))
-----------------------------------------------------------------------------
(* Starting and stopping. *)

InUseByName(p) == \E q \in Pods : running[q] = <<p>>

\* Mutant: every profile of KubeArmor goes, used or not.
InactiveAll(shells) == {n \in Names : Managed(file[n]) /\ Managed(kernel[n])}

\* The profiles in the directory and in the kernel that no process is seen to run in;
\* shells: whether one runs in the host's.
Inactive(shells) ==
  {n \in Names : Managed(file[n]) /\ Managed(kernel[n]) /\ ~InUseByName(n) /\ ~(n = Host /\ shells)}

\* CreateAppArmorHostProfile, load, and the file is emptied once the profile is loaded.
RegisterAppArmorHostProfile(written, ok, f, k) ==
  CASE ~env.HostPolicy -> file' = f /\ kernel' = k
    [] env.HostPolicy /\ ~written -> file' = [f EXCEPT ![Host] = <<"empty">>] /\ kernel' = k
    [] env.HostPolicy /\ written /\ ok -> /\ file' = [f EXCEPT ![Host] = <<"empty">>]
                              /\ kernel' = [k EXCEPT ![Host] = <<"default", TRUE>>]
    [] OTHER -> file' = [f EXCEPT ![Host] = <<"default", TRUE>>] /\ kernel' = k

\* What is left of an earlier daemon is removed: unloaded, and then its file.  A profile
\* that is not loaded cannot be.  Without the host's profile the enforcer is not set up.
NewAppArmorEnforcer ==
  /\ up = "down" /\ starts < env.starts
  /\ \E shells \in BOOLEAN, written \in Outcomes("write"), ok \in Outcomes("load") :
     \E gone \in IF "remove" \in env.faults THEN SUBSET Inactive(shells) ELSE {Inactive(shells)} :
     \E removed \in IF "remove" \in env.faults THEN SUBSET gone ELSE {gone} :
       /\ RegisterAppArmorHostProfile(written, ok,
                                      [n \in Names |-> IF n \in removed THEN <<"none">> ELSE file[n]],
                                      [n \in Names |-> IF n \in gone THEN <<"none">> ELSE kernel[n]])
       /\ children' = children \ UNION {Of(p, SubprofilesOf(file[p])) : p \in gone}
       /\ up' = IF (written /\ ok) \/ ~env.HostPolicy THEN "up" ELSE "down"
       /\ starts' = IF (written /\ ok) \/ ~env.HostPolicy THEN starts + 1 ELSE starts
  /\ AppArmorProfiles' = <<>> /\ AppArmorPrivilegedProfiles' = {}
  /\ pushed' = [n \in Names |-> {}]
  /\ live' = {}
  /\ UNCHANGED <<env, running, update>>

Crash ==
  /\ up # "down" /\ env.starts > 1
  /\ up' = "down"
  /\ update' = [u \in Updaters |-> Idle]
  /\ UNCHANGED <<env, system, AppArmorProfiles, AppArmorPrivilegedProfiles, cluster, pushed, starts>>

\* The boot scripts load what is in the directory.
Reboot ==
  /\ up = "down" /\ starts > 0 /\ env.starts > 1
  /\ kernel' = [n \in Names |-> IF file[n][1] \in {"empty", "none"} THEN <<"none">> ELSE file[n]]
  /\ children' = UNION {Of(n, SubprofilesOf(file[n])) : n \in Names}
  /\ running' = [q \in Pods |-> <<>>]
  /\ UNCHANGED <<env, up, file, memory, live, pushed, starts>>

Stop ==
  /\ up = "up" /\ (env.overlap \/ \A u \in Updaters : update[u].pc = "idle")
  /\ up' = "stopping"
  /\ UNCHANGED <<env, system, memory, cluster, pushed, starts>>

\* UnregisterAppArmorProfile for no pod, once for each profile there is: the profile is
\* reset, and one that cannot be is passed over.
DestroyProfile(p) ==
  /\ up = "stopping" /\ p \in DOMAIN AppArmorProfiles
  /\ IF Managed(file[p])
     THEN \E written \in Outcomes("write"), ok \in Outcomes("load") :
            /\ file' = [file EXCEPT ![p] = IF written THEN Default(p, AppArmorPrivilegedProfiles) ELSE <<"empty">>]
            /\ IF written /\ ok THEN Loaded(p, file'[p]) ELSE UNCHANGED <<kernel, children>>
     ELSE UNCHANGED system
  /\ AppArmorProfiles' = Without(AppArmorProfiles, p)
  /\ UNCHANGED <<env, up, AppArmorPrivilegedProfiles, update, cluster, pushed, starts>>

\* aa-remove-unknown unloads every profile that no file holds; when it fails the
\* host's profile is reset instead.
UnregisterAppArmorHostProfile ==
  \/ /\ env.HostPolicy
     /\ kernel' = [n \in Names |-> IF file[n][1] \in {"none", "empty"} THEN <<"none">> ELSE kernel[n]]
     /\ children' = {c \in children : c[2] \in SubprofilesOf(file[c[1]])}
     /\ UNCHANGED file
  \/ /\ env.HostPolicy /\ "unknown" \in env.faults
     /\ file' = [file EXCEPT ![Host] = <<"none">>]
     /\ \E ok \in Outcomes("load") \cup Outcomes("write") : kernel' = [kernel EXCEPT ![Host] = IF ok THEN <<"default", TRUE>> ELSE @]
     /\ UNCHANGED children
  \/ ~env.HostPolicy /\ UNCHANGED system

DestroyAppArmorEnforcer ==
  /\ up = "stopping" /\ DOMAIN AppArmorProfiles = {}
  /\ UnregisterAppArmorHostProfile
  /\ up' = "down"
  /\ update' = [u \in Updaters |-> Idle]
  /\ UNCHANGED <<env, AppArmorProfiles, AppArmorPrivilegedProfiles, cluster, pushed, starts>>
-----------------------------------------------------------------------------
(* Pods. *)

\* Mutant: a profile that could not be loaded is registered.
RegisterAnyway(q, p) ==
  /\ AppArmorProfiles' = IF p \in DOMAIN AppArmorProfiles THEN AppArmorProfiles ELSE With(AppArmorProfiles, p, <<q>>)
  /\ AppArmorPrivilegedProfiles' = AppArmorPrivilegedProfiles \cup ({p} \cap Privileged)
  /\ file' = [file EXCEPT ![p] = Default(p, AppArmorPrivilegedProfiles')]
  /\ pushed' = [pushed EXCEPT ![p] = {}]
  /\ \E ok \in Outcomes("load") : IF ok THEN Loaded(p, file'[p]) ELSE UNCHANGED <<kernel, children>>
  /\ UNCHANGED update

\* RegisterAppArmorProfile for the profile of a new pod.  A file without KubeArmor's
\* mark is somebody else's, also if it is empty because it could not be written.
RegisterAppArmorProfile(q, p) ==
  CASE OutOfControl(file[p]) -> UNCHANGED <<system, memory, pushed>>
    [] ~OutOfControl(file[p]) /\ p \in DOMAIN AppArmorProfiles ->
         /\ AppArmorProfiles' = [AppArmorProfiles EXCEPT ![p] = IF \E i \in DOMAIN @ : @[i] = q THEN @ ELSE Append(@, q)]
         /\ UNCHANGED <<system, AppArmorPrivilegedProfiles, update, pushed>>
    [] OTHER ->
         /\ AppArmorPrivilegedProfiles' = AppArmorPrivilegedProfiles \cup ({p} \cap Privileged)
         /\ pushed' = [pushed EXCEPT ![p] = {}]
         /\ UNCHANGED update
         /\ \E written \in Outcomes("write"), ok \in Outcomes("load") :
              /\ file' = [file EXCEPT ![p] = IF written THEN Default(p, AppArmorPrivilegedProfiles') ELSE <<"empty">>]
              /\ IF written /\ ok
                 THEN /\ Loaded(p, file'[p])
                      /\ AppArmorProfiles' = With(AppArmorProfiles, p, <<q>>)
                 ELSE UNCHANGED <<kernel, children, AppArmorProfiles>>

PodAdded(q) ==
  /\ up = "up" /\ q \in env.pods \ live
  /\ live' = live \cup {q}
  /\ RegisterAppArmorProfile(q, ProfileOf[q])
  /\ UNCHANGED <<env, up, running, starts>>

\* UnregisterAppArmorProfile for a pod: the profile stays for the next one.
UnregisterAppArmorProfile(q, p) ==
  AppArmorProfiles' = IF p \in DOMAIN AppArmorProfiles
                      THEN [AppArmorProfiles EXCEPT ![p] = SelectSeq(@, LAMBDA r : r # q)] ELSE AppArmorProfiles

PodDeleted(q) ==
  /\ up = "up" /\ q \in live
  /\ live' = live \ {q}
  /\ running' = [running EXCEPT ![q] = <<>>]
  /\ UnregisterAppArmorProfile(q, ProfileOf[q])
  /\ UNCHANGED <<env, up, system, AppArmorPrivilegedProfiles, update, pushed, starts>>

\* The container runtime starts a pod in its profile; a program with a sub-profile
\* takes the place of the first one.
PodRuns(q) ==
  /\ q \in live /\ running[q] = <<>> /\ kernel[ProfileOf[q]] # <<"none">>
  /\ running' = [running EXCEPT ![q] = <<ProfileOf[q]>>]
  /\ UNCHANGED <<env, up, system, memory, live, pushed, starts>>

PodExecs(q) ==
  /\ env.exec /\ running[q] = <<ProfileOf[q]>>
  /\ \E c \in children :
       /\ c[1] = ProfileOf[q] /\ c[2] \in SubprofilesOf(kernel[c[1]])
       /\ running' = [running EXCEPT ![q] = c]
  /\ UNCHANGED <<env, up, system, memory, live, pushed, starts>>

PodEnds(q) ==
  /\ up = "down" /\ running[q] # <<>>
  /\ running' = [running EXCEPT ![q] = <<>>]
  /\ UNCHANGED <<env, up, system, memory, live, pushed, starts>>
-----------------------------------------------------------------------------
(* Policies. *)

MayUpdate(u) ==
  /\ up = "up" \/ (up = "stopping" /\ env.overlap)
  /\ update[u].pc = "idle"
  /\ env.overlap \/ \A v \in Updaters : update[v].pc = "idle"

\* Mutant: the new profile is not compared with the old one by its rules.
SameText(old, np) == old[1] = np[1]

Unchanged(old, np) == old = np

\* GenerateAppArmorProfile: nothing to do if the file has the text already; the
\* sub-profiles that are no longer there are unloaded.  Those of the host have
\* another name than the expression that looks for them.
Generate(u, p, policies) ==
  LET np == Body(p, policies, AppArmorPrivilegedProfiles)
      dropped == IF p = Host THEN {} ELSE SubprofilesOf(file[p]) \ SubprofilesOf(np)
  IN IF file[p] = <<"none">> \/ Unchanged(file[p], np)
     THEN UNCHANGED <<children, update>>
     ELSE /\ \E ok \in Outcomes("unload") :
               children' = IF ok THEN children \ Of(p, dropped) ELSE children
          /\ update' = [update EXCEPT ![u] = [pc |-> "write", name |-> p, np |-> np]]

\* UpdateSecurityPolicies for an endpoint with this profile
UpdateSecurityPolicies(u, p, policies) ==
  /\ MayUpdate(u)
  /\ \E q \in live : ProfileOf[q] = p
  /\ pushed' = [pushed EXCEPT ![p] = {policies}]
  /\ Generate(u, p, policies)
  /\ UNCHANGED <<env, up, file, kernel, AppArmorProfiles, AppArmorPrivilegedProfiles, cluster, starts>>

\* UpdateHostSecurityPolicies
UpdateHostSecurityPolicies(u, policies) ==
  LET enabled == IF env.HostPolicy THEN policies ELSE <<>>
  IN /\ MayUpdate(u)
     /\ pushed' = [pushed EXCEPT ![Host] = {enabled}]
     /\ Generate(u, Host, enabled)
     /\ UNCHANGED <<env, up, file, kernel, AppArmorProfiles, AppArmorPrivilegedProfiles, cluster, starts>>

At(u, pc) == up # "down" /\ update[u].pc = pc

Done(u) == update' = [update EXCEPT ![u] = Idle]
Goto(u, pc) == update' = [update EXCEPT ![u].pc = pc]

\* Creating the file empties it before the text is written.
WriteProfile(u) ==
  /\ At(u, "write")
  /\ \E ok \in Outcomes("write") :
       /\ file' = [file EXCEPT ![update[u].name] = IF ok THEN update[u].np ELSE <<"empty">>]
       /\ IF ok THEN Goto(u, "load") ELSE Done(u)
  /\ UNCHANGED <<env, up, kernel, children, AppArmorProfiles, AppArmorPrivilegedProfiles, cluster, pushed, starts>>

\* ClearKubeArmorHostFile
ClearKubeArmorHostFile(p) == file' = [file EXCEPT ![p] = <<"empty">>]

\* UpdateAppArmorHostProfile ends here; for a container in Kubernetes the profile
\* is disabled and enforced again.
LoadProfile(u) ==
  LET p == update[u].name
  IN /\ At(u, "load")
     /\ \E ok \in Outcomes("load") :
          IF ok THEN /\ Loaded(p, file[p])
                     /\ IF p = Host THEN ClearKubeArmorHostFile(p) ELSE UNCHANGED file
                     /\ IF p # Host /\ env.K8sEnv THEN Goto(u, "disable") ELSE Done(u)
          ELSE Done(u) /\ UNCHANGED system
     /\ UNCHANGED <<env, up, AppArmorProfiles, AppArmorPrivilegedProfiles, cluster, pushed, starts>>

DisableProfile(u) ==
  /\ At(u, "disable")
  /\ \E ok \in Outcomes("disable") :
       IF ok THEN Unloaded(update[u].name, file[update[u].name]) /\ Goto(u, "enforce")
       ELSE Done(u) /\ UNCHANGED <<kernel, children>>
  /\ UNCHANGED <<env, up, file, AppArmorProfiles, AppArmorPrivilegedProfiles, cluster, pushed, starts>>

EnforceProfile(u) ==
  /\ At(u, "enforce")
  /\ \E ok \in Outcomes("enforce") :
       IF ok THEN Loaded(update[u].name, file[update[u].name]) ELSE UNCHANGED <<kernel, children>>
  /\ Done(u)
  /\ UNCHANGED <<env, up, file, AppArmorProfiles, AppArmorPrivilegedProfiles, cluster, pushed, starts>>

\* The calls of the daemon, the commands an update runs, and everything else.
ProfileCalls == \E q \in Pods : PodAdded(q) \/ PodDeleted(q)
ContainerCalls == \E u \in Updaters, p \in Profiles, policies \in PolicySets : UpdateSecurityPolicies(u, p, policies)
HostCalls == \E u \in Updaters, policies \in PolicySets : UpdateHostSecurityPolicies(u, policies)
Commands ==
  \/ \E u \in Updaters : WriteProfile(u) \/ LoadProfile(u) \/ DisableProfile(u) \/ EnforceProfile(u)
  \/ \E p \in Profiles : DestroyProfile(p)
Ends == Crash \/ DestroyAppArmorEnforcer
Outside == Reboot \/ Stop \/ \E q \in Pods : PodRuns(q) \/ PodExecs(q) \/ PodEnds(q)

Next == NewAppArmorEnforcer \/ ProfileCalls \/ ContainerCalls \/ HostCalls \/ Commands \/ Ends \/ Outside

Spec == Init /\ [][Next]_vars
-----------------------------------------------------------------------------
Texts ==
  {<<"none">>, <<"foreign">>, <<"empty">>, <<"default", TRUE>>, <<"default", FALSE>>}
  \cup {<<"body", b, ProfileBody(policies)>> : b \in BOOLEAN, policies \in PolicySets \cup {<<>>}}

TypeOK ==
  /\ env \in Envs /\ up \in {"up", "stopping", "down"} /\ starts \in 0 .. env.starts
  /\ file \in [Names -> Texts] /\ kernel \in [Names -> Texts \ {<<"empty">>}]
  /\ \A c \in children : c[1] \in Names
  /\ DOMAIN AppArmorProfiles \subseteq Profiles
  /\ \A p \in DOMAIN AppArmorProfiles : Cardinality({AppArmorProfiles[p][i] : i \in DOMAIN AppArmorProfiles[p]}) = Len(AppArmorProfiles[p])
  /\ AppArmorPrivilegedProfiles \subseteq Privileged
  /\ \A u \in Updaters : update[u].pc \in {"idle", "write", "load", "disable", "enforce"}

Quiet == \A u \in Updaters : update[u].pc = "idle"

\* The profile in the kernel, with its sub-profiles, is the one of the policies last
\* pushed to it, whatever was pushed before and whichever pods came and went.
RulesEnforced ==
  (up = "up" /\ Quiet /\ env.faults = {} /\ ~env.overlap) =>
    \A n \in Names \ (IF env.HostPolicy THEN {} ELSE {Host}) : \A policies \in pushed[n] :
      LET text == Body(n, policies, Privileged)
      IN kernel[n] = text /\ Of(n, SubprofilesOf(text)) \subseteq children

\* A sub-profile of a managed profile is in the kernel exactly as long as the profile
\* has it, while the daemon is not restarted (GenerateAppArmorProfile unloads the others).
SubprofilesMatch ==
  (up = "up" /\ Quiet /\ env.faults = {} /\ ~env.overlap /\ env.starts = 1) =>
    \A p \in DOMAIN AppArmorProfiles : {c \in children : c[1] = p} = Of(p, SubprofilesOf(kernel[p]))

\* A registered profile is in the kernel, and is a privileged container's exactly if it
\* should be, when loading, writing, unloading or aa-disable fail.
RegisteredIsLoaded ==
  (up = "up" /\ Quiet /\ "enforce" \notin env.faults /\ ~env.overlap) =>
    \A p \in DOMAIN AppArmorProfiles : Managed(kernel[p]) /\ kernel[p][2] = (p \in Privileged)

\* Host policies are not on disk once they are applied, so that a machine that is
\* rebooted comes up without them (ClearKubeArmorHostFile: "This will prevent reboot
\* issues related to ungraceful shutdown of kubearmor").
HostFileCleared ==
  (Quiet /\ up = "up" /\ env.faults = {}) => file[Host][1] \in {"none", "empty"}

\* A daemon that is stopped leaves no policy in the kernel.
StoppedClean ==
  (up = "down" /\ AppArmorProfiles = <<>> /\ env.faults = {} /\ ~env.overlap /\ env.starts = 1) =>
    \A n \in Names : kernel[n][1] # "body"

\* Starting the daemon takes no profile away from a pod that runs in it ("if the profile
\* is used by a running container, do not remove it").
InUseKept ==
  [][(up = "down" /\ starts' > starts) =>
       \A q \in Pods : running[q] # <<>> => kernel'[ProfileOf[q]] = kernel[ProfileOf[q]]]_vars
=============================================================================
