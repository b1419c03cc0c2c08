--------------------------- MODULE AppArmorProofs ---------------------------
(***************************************************************************)
(* Proofs about the AppArmor enforcer, for any pods, profiles, policies    *)
(* and handlers, any number of starts and any failures.                    *)
(*                                                                         *)
(* The invariants come in layers, the second proved with the help of the   *)
(* first: the life of the daemon and its handlers (Life), and that what is *)
(* registered is loaded (Registration).  The others are about what becomes *)
(* of policies when no command fails: those of the host are not left on    *)
(* disk (HostFile), the ones last pushed are in the kernel (Enforcement),  *)
(* and no others are (Exact).                                              *)
(***************************************************************************)
EXTENDS AppArmor, TLAPS

Pcs == {"idle", "write", "load", "disable", "enforce"}
IsProgress(r) == r.pc \in Pcs /\ r.name \in Names /\ r = [pc |-> r.pc, name |-> r.name, np |-> r.np]
Doing(u, p, pcs) == update[u].pc \in pcs /\ update[u].name = p
On(u, p) == update[u].pc # "idle" /\ update[u].name = p

Shape ==
  /\ env \in Envs /\ up \in {"up", "stopping", "down"} /\ starts \in Nat
  /\ file = [n \in Names |-> file[n]] /\ kernel = [n \in Names |-> kernel[n]]
  /\ DOMAIN AppArmorProfiles \subseteq Profiles /\ AppArmorPrivilegedProfiles \subseteq Privileged
  /\ live \subseteq Pods
  /\ running = [q \in Pods |-> running[q]] /\ pushed = [n \in Names |-> pushed[n]]
  /\ update = [u \in Updaters |-> update[u]] /\ \A u \in Updaters : IsProgress(update[u])

\* Before the first start no pod is known and no profile written.
Fresh ==
  starts = 0 => /\ up = "down" /\ live = {} /\ \A q \in Pods : running[q] = <<>>
                /\ \A p \in Profiles : file[p][1] \in {"none", "foreign"}

\* Without sub-profiles a pod runs in its profile.
RunInv == \A q \in Pods : running[q] \in {<<>>, <<ProfileOf[q]>>} \/ env.exec

\* Updates take turns unless they may overlap, and none is left of a daemon that ended.
Turns ==
  /\ ~env.overlap => \A u, v \in Updaters : update[u].pc # "idle" /\ update[v].pc # "idle" => u = v
  /\ ~env.overlap /\ up = "stopping" => Quiet
  /\ up = "down" => Quiet

Life == Shape /\ Fresh /\ RunInv /\ Turns
-----------------------------------------------------------------------------
(* Texts. *)

LEMMA DefaultFacts ==
  ASSUME NEW p, NEW S
  PROVE  /\ Default(p, S)[1] = "default" /\ Default(p, S)[2] = (p \in S)
         /\ Managed(Default(p, S)) /\ SubprofilesOf(Default(p, S)) = {}
<1>1. Default(p, S)[1] = "default" /\ Default(p, S)[2] = (p \in S)
  BY DEF Default
<1> QED BY <1>1 DEF Managed, SubprofilesOf

LEMMA BodyFacts ==
  ASSUME NEW p, NEW policies, NEW S
  PROVE  /\ Body(p, policies, S)[1] = "body" /\ Body(p, policies, S)[2] = (p = Host \/ p \in S)
         /\ Managed(Body(p, policies, S))
<1>1. Body(p, policies, S)[1] = "body" /\ Body(p, policies, S)[2] = (p = Host \/ p \in S)
  BY DEF Body
<1> QED BY <1>1 DEF Managed

LEMMA WordFacts ==
  /\ <<"none">>[1] = "none" /\ <<"empty">>[1] = "empty" /\ <<"foreign">>[1] = "foreign"
  /\ <<"default", TRUE>>[1] = "default"
OBVIOUS

LEMMA NameFacts ==
  /\ Host \in Names /\ Host \notin Profiles /\ Profiles \subseteq Names /\ Privileged \subseteq Profiles
  /\ Host \notin Foreign /\ \A q \in Pods : ProfileOf[q] \in Profiles
BY AppArmorAssumption DEF Names, Host

LEMMA EnvFacts ==
  ASSUME env \in Envs
  PROVE  env.overlap \in BOOLEAN /\ env.HostPolicy \in BOOLEAN /\ env.exec \in BOOLEAN /\ env.starts \in Nat
BY AppArmorAssumption
-----------------------------------------------------------------------------
(* What the longer actions do, case by case. *)

\* RegisterAppArmorProfile: somebody else's file, a profile that is registered, or a new one.
LEMMA PodAddedCases ==
  ASSUME NEW q \in Pods, Shape, PodAdded(q), NEW p, p = ProfileOf[q]
  PROVE  /\ up = "up" /\ live' = live \cup {q}
         /\ UNCHANGED <<env, up, running, starts, update>>
         /\ \/ /\ OutOfControl(file[p])
               /\ UNCHANGED <<file, kernel, children, AppArmorProfiles, AppArmorPrivilegedProfiles, pushed>>
            \/ /\ p \in DOMAIN AppArmorProfiles /\ DOMAIN AppArmorProfiles' = DOMAIN AppArmorProfiles
               /\ ~OutOfControl(file[p])
               /\ UNCHANGED <<file, kernel, children, AppArmorPrivilegedProfiles, pushed>>
            \/ /\ p \notin DOMAIN AppArmorProfiles /\ ~OutOfControl(file[p])
               /\ AppArmorPrivilegedProfiles' = AppArmorPrivilegedProfiles \cup ({p} \cap Privileged)
               /\ pushed' = [pushed EXCEPT ![p] = {}]
               /\ \/ /\ file' = [file EXCEPT ![p] = Default(p, AppArmorPrivilegedProfiles')]
                     /\ kernel' = [kernel EXCEPT ![p] = Default(p, AppArmorPrivilegedProfiles')]
                     /\ children' = children
                     /\ DOMAIN AppArmorProfiles' = DOMAIN AppArmorProfiles \cup {p}
                  \/ /\ file' = [file EXCEPT ![p] = Default(p, AppArmorPrivilegedProfiles')]
                     /\ "load" \in env.faults
                     /\ UNCHANGED <<kernel, children, AppArmorProfiles>>
                  \/ /\ file' = [file EXCEPT ![p] = <<"empty">>]
                     /\ "write" \in env.faults
                     /\ UNCHANGED <<kernel, children, AppArmorProfiles>>
<1>1. up = "up" /\ live' = live \cup {q} /\ UNCHANGED <<env, up, running, starts>> /\ RegisterAppArmorProfile(q, p)
  BY DEF PodAdded
<1>2. p \in Names
  BY NameFacts
<1>3. CASE OutOfControl(file[p])
  BY <1>1, <1>3 DEF RegisterAppArmorProfile, system, memory
<1>4. CASE ~OutOfControl(file[p]) /\ p \in DOMAIN AppArmorProfiles
  BY <1>1, <1>4 DEF RegisterAppArmorProfile, system
<1>5. CASE ~OutOfControl(file[p]) /\ p \notin DOMAIN AppArmorProfiles
  <2> DEFINE D == Default(p, AppArmorPrivilegedProfiles')
  <2>1. PICK written \in Outcomes("write"), ok \in Outcomes("load") :
          /\ AppArmorPrivilegedProfiles' = AppArmorPrivilegedProfiles \cup ({p} \cap Privileged)
          /\ pushed' = [pushed EXCEPT ![p] = {}] /\ UNCHANGED update
          /\ file' = [file EXCEPT ![p] = IF written THEN D ELSE <<"empty">>]
          /\ IF written /\ ok
             THEN /\ Loaded(p, file'[p])
                  /\ AppArmorProfiles' = With(AppArmorProfiles, p, <<q>>)
             ELSE UNCHANGED <<kernel, children, AppArmorProfiles>>
    BY <1>1, <1>5 DEF RegisterAppArmorProfile
  <2>2. (~written => "write" \in env.faults) /\ (~ok => "load" \in env.faults)
    BY Zenon DEF Outcomes
  <2> HIDE DEF D
  <2>3. CASE written /\ ok
    <3>1. file' = [file EXCEPT ![p] = D] /\ file'[p] = D
      BY <2>1, <2>3, <1>2 DEF Shape
    <3>2. kernel' = [kernel EXCEPT ![p] = D] /\ children' = children
      <4>1. Managed(D) /\ SubprofilesOf(D) = {}
        BY DefaultFacts, Zenon DEF D
      <4>2. Of(p, {}) = {}
        BY DEF Of
      <4>3. Loaded(p, D)
        BY <3>1, <2>1, <2>3
      <4> QED BY <4>1, <4>2, <4>3 DEF Loaded
    <3>3. DOMAIN AppArmorProfiles' = DOMAIN AppArmorProfiles \cup {p}
      BY <2>1, <2>3 DEF With
    <3> QED BY <3>1, <3>2, <3>3, <2>1, <1>1, <1>5 DEF D
  <2>4. CASE ~(written /\ ok)
    <3>1. UNCHANGED <<kernel, children, AppArmorProfiles>>
      BY <2>1, <2>4
    <3>2. CASE written
      BY <3>1, <3>2, <2>1, <2>2, <2>4, <1>1, <1>5 DEF D
    <3>3. CASE ~written
      BY <3>1, <3>3, <2>1, <2>2, <1>1, <1>5 DEF D
    <3> QED BY <3>2, <3>3
  <2> QED BY <2>3, <2>4
<1> QED BY <1>3, <1>4, <1>5

\* An update starts, and there is nothing to do or a text to write.
NewText(p, policies) == Body(p, policies, AppArmorPrivilegedProfiles)

\* The update goes on to write np, unless there is no file or it has that text.
Draft(u, p, np) ==
  \/ (file[p] = <<"none">> \/ file[p] = np) /\ update' = update
  \/ /\ file[p] # <<"none">> /\ file[p] # np
     /\ update' = [update EXCEPT ![u] = [pc |-> "write", name |-> p, np |-> np]]

\* The sub-profiles that np does not have are unloaded.
Dropping(p, np) ==
  /\ children' \subseteq children
  /\ \A c \in children \ children' : p # Host /\ c \in Of(p, SubprofilesOf(file[p]) \ SubprofilesOf(np))
  /\ p # Host /\ env.faults = {} /\ file[p] # <<"none">> /\ file[p] # np =>
       \A c \in children' : c \notin Of(p, SubprofilesOf(file[p]) \ SubprofilesOf(np))

LEMMA GenerateCases ==
  ASSUME NEW u \in Updaters, NEW p, NEW policies, Generate(u, p, policies)
  PROVE  Draft(u, p, NewText(p, policies)) /\ Dropping(p, NewText(p, policies))
<1> DEFINE np == NewText(p, policies)
           dropped == IF p = Host THEN {} ELSE SubprofilesOf(file[p]) \ SubprofilesOf(np)
<1>1. CASE file[p] = <<"none">> \/ Unchanged(file[p], np)
  <2>1. children' = children /\ update' = update
    BY <1>1 DEF Generate, NewText
  <2> QED BY <1>1, <2>1 DEF Draft, Dropping, Unchanged
<1>2. CASE ~(file[p] = <<"none">> \/ Unchanged(file[p], np))
  <2>1. PICK ok \in Outcomes("unload") : children' = IF ok THEN children \ Of(p, dropped) ELSE children
    BY <1>2 DEF Generate, NewText
  <2>2. update' = [update EXCEPT ![u] = [pc |-> "write", name |-> p, np |-> np]]
    BY <1>2 DEF Generate, NewText
  <2>3. env.faults = {} => ok
    BY DEF Outcomes
  <2>4. Of(p, {}) = {}
    BY DEF Of
  <2>5. Draft(u, p, np)
    BY <1>2, <2>2 DEF Draft, Unchanged
  <2>6. Dropping(p, np)
    BY <2>1, <2>3, <2>4 DEF Dropping
  <2> QED BY <2>5, <2>6
<1> QED BY <1>1, <1>2
-----------------------------------------------------------------------------
(* The life of the daemon. *)

LEMMA LifeInit == Init => Life
<1> SUFFICES ASSUME Init PROVE Life
  OBVIOUS
<1>1. Shape
  BY NameFacts DEF Init, Shape, Idle, Pcs, IsProgress
<1>2. Fresh
  BY NameFacts DEF Init, Fresh
<1>3. RunInv /\ Turns
  BY DEF Init, RunInv, Turns, Quiet, Idle
<1> QED BY <1>1, <1>2, <1>3 DEF Life

LEMMA IdleFacts == IsProgress(Idle) /\ Idle.pc = "idle"
BY NameFacts DEF IsProgress, Idle, Pcs

\* Setting the progress of one update leaves the others alone.
LEMMA SetProgress ==
  ASSUME NEW u \in Updaters, NEW r, Shape, IsProgress(r), update' = [update EXCEPT ![u] = r]
  PROVE  /\ update' = [v \in Updaters |-> update'[v]] /\ \A v \in Updaters : IsProgress(update'[v])
         /\ \A v \in Updaters : update'[v] = IF v = u THEN r ELSE update[v]
<1>1. \A v \in Updaters : update'[v] = IF v = u THEN r ELSE update[v]
  BY DEF Shape
<1>2. update' = [v \in Updaters |-> update'[v]]
  BY DEF Shape
<1> QED BY <1>1, <1>2 DEF Shape

LEMMA GotoFacts ==
  ASSUME NEW u \in Updaters, NEW pc \in Pcs, Shape, Goto(u, pc)
  PROVE  \E r : /\ IsProgress(r) /\ r.pc = pc /\ r.name = update[u].name /\ r.np = update[u].np
               /\ update' = [update EXCEPT ![u] = r]
<1> DEFINE r == [pc |-> pc, name |-> update[u].name, np |-> update[u].np]
<1>1. IsProgress(r) /\ r.pc = pc /\ r.name = update[u].name /\ r.np = update[u].np
  BY DEF IsProgress, Shape
<1>2. [update[u] EXCEPT !.pc = pc] = r
  <2>1. update[u] = [pc |-> update[u].pc, name |-> update[u].name, np |-> update[u].np]
    BY DEF Shape, IsProgress
  <2> QED BY <2>1
<1>3. update' = [update EXCEPT ![u] = r]
  BY <1>2, Zenon DEF Goto
<1> HIDE DEF r
<1> QED BY <1>1, <1>3, Zenon

\* What a command of an update does, and how far the update of p is afterwards.
Effect(u, p, r) ==
  /\ IsProgress(r) /\ update' = [update EXCEPT ![u] = r] /\ (r.pc = "idle" \/ r.name = p)
  /\ \/ /\ update[u].pc = "write" /\ r.pc = "load" /\ UNCHANGED <<kernel, children>>
        /\ file' = [file EXCEPT ![p] = update[u].np]
     \/ /\ update[u].pc = "write" /\ r.pc = "idle" /\ UNCHANGED <<kernel, children>>
        /\ file' = [file EXCEPT ![p] = <<"empty">>] /\ "write" \in env.faults
     \/ /\ update[u].pc = "load" /\ r.pc \in {"idle", "disable"} /\ Loaded(p, file[p])
        /\ r.pc = "disable" => p # Host
        /\ file' = IF p = Host THEN [file EXCEPT ![p] = <<"empty">>] ELSE file
     \/ /\ update[u].pc = "load" /\ r.pc = "idle" /\ UNCHANGED <<file, kernel, children>>
        /\ "load" \in env.faults
     \/ /\ update[u].pc = "disable" /\ r.pc = "enforce" /\ Unloaded(p, file[p]) /\ file' = file
     \/ /\ update[u].pc = "disable" /\ r.pc = "idle" /\ UNCHANGED <<file, kernel, children>>
        /\ "disable" \in env.faults
     \/ /\ update[u].pc = "enforce" /\ r.pc = "idle" /\ Loaded(p, file[p]) /\ file' = file
     \/ /\ update[u].pc = "enforce" /\ r.pc = "idle" /\ UNCHANGED <<file, kernel, children>>
        /\ "enforce" \in env.faults

\* WriteProfile, LoadProfile, DisableProfile and EnforceProfile.
LEMMA CommandCases ==
  ASSUME NEW u \in Updaters, Shape,
         WriteProfile(u) \/ LoadProfile(u) \/ DisableProfile(u) \/ EnforceProfile(u),
         NEW p, p = update[u].name
  PROVE  /\ up # "down" /\ p \in Names
         /\ UNCHANGED <<env, up, AppArmorProfiles, AppArmorPrivilegedProfiles, live, running, pushed, starts>>
         /\ \E r : Effect(u, p, r)
<1>1. up # "down" /\ p \in Names
  BY DEF WriteProfile, LoadProfile, DisableProfile, EnforceProfile, At, Shape, IsProgress
<1>2. UNCHANGED <<env, up, AppArmorProfiles, AppArmorPrivilegedProfiles, live, running, pushed, starts>>
  BY DEF WriteProfile, LoadProfile, DisableProfile, EnforceProfile, cluster
<1>3. \A pc \in Pcs : Goto(u, pc) =>
        \E r : IsProgress(r) /\ r.pc = pc /\ r.name = p /\ update' = [update EXCEPT ![u] = r]
  BY GotoFacts
<1>4. Done(u) => IsProgress(Idle) /\ Idle.pc = "idle" /\ update' = [update EXCEPT ![u] = Idle]
  BY IdleFacts DEF Done
<1>5. {"load", "disable", "enforce"} \subseteq Pcs
  BY DEF Pcs
<1> HIDE DEF Idle
<1>6. CASE WriteProfile(u)
  <2>1. PICK ok \in Outcomes("write") :
          /\ file' = [file EXCEPT ![p] = IF ok THEN update[u].np ELSE <<"empty">>]
          /\ IF ok THEN Goto(u, "load") ELSE Done(u)
    BY <1>6, Zenon DEF WriteProfile
  <2>2. update[u].pc = "write" /\ UNCHANGED <<kernel, children>> /\ (~ok => "write" \in env.faults)
    BY <1>6, Zenon DEF WriteProfile, At, Outcomes
  <2>3. CASE ok
    <3>1. PICK r : IsProgress(r) /\ r.pc = "load" /\ r.name = p /\ update' = [update EXCEPT ![u] = r]
      BY <2>1, <2>3, <1>3, <1>5
    <3> QED BY <3>1, <2>1, <2>2, <2>3, <1>1, <1>2, Zenon DEF Effect
  <2>4. CASE ~ok
    BY <2>1, <2>2, <2>4, <1>1, <1>2, <1>4 DEF Effect
  <2> QED BY <2>3, <2>4
<1>7. CASE LoadProfile(u)
  <2>1. PICK ok \in Outcomes("load") :
          IF ok THEN /\ Loaded(p, file[p])
                     /\ IF p = Host THEN ClearKubeArmorHostFile(p) ELSE UNCHANGED file
                     /\ IF p # Host /\ env.K8sEnv THEN Goto(u, "disable") ELSE Done(u)
          ELSE Done(u) /\ UNCHANGED system
    BY <1>7 DEF LoadProfile
  <2>2. update[u].pc = "load" /\ (~ok => "load" \in env.faults)
    BY <1>7, Zenon DEF LoadProfile, At, Outcomes
  <2>3. CASE ok
    <3>1. Loaded(p, file[p]) /\ file' = IF p = Host THEN [file EXCEPT ![p] = <<"empty">>] ELSE file
      BY <2>1, <2>3 DEF ClearKubeArmorHostFile
    <3>2. CASE p # Host /\ env.K8sEnv
      <4>1. PICK r : IsProgress(r) /\ r.pc = "disable" /\ r.name = p /\ update' = [update EXCEPT ![u] = r]
        BY <2>1, <2>3, <3>2, <1>3, <1>5
      <4> QED BY <4>1, <3>1, <3>2, <2>2, <1>1, <1>2, Zenon DEF Effect
    <3>3. CASE ~(p # Host /\ env.K8sEnv)
      BY <3>1, <3>3, <2>1, <2>2, <2>3, <1>1, <1>2, <1>4 DEF Effect
    <3> QED BY <3>2, <3>3
  <2>4. CASE ~ok
    BY <2>1, <2>2, <2>4, <1>1, <1>2, <1>4 DEF system, Effect
  <2> QED BY <2>3, <2>4
<1>8. CASE DisableProfile(u)
  <2>1. PICK ok \in Outcomes("disable") :
          IF ok THEN Unloaded(p, file[p]) /\ Goto(u, "enforce")
          ELSE Done(u) /\ UNCHANGED <<kernel, children>>
    BY <1>8 DEF DisableProfile
  <2>2. update[u].pc = "disable" /\ file' = file /\ (~ok => "disable" \in env.faults)
    BY <1>8, Zenon DEF DisableProfile, At, Outcomes
  <2>3. CASE ok
    <3>1. PICK r : IsProgress(r) /\ r.pc = "enforce" /\ r.name = p /\ update' = [update EXCEPT ![u] = r]
      BY <2>1, <2>3, <1>3, <1>5
    <3> QED BY <3>1, <2>1, <2>2, <2>3, <1>1, <1>2, Zenon DEF Effect
  <2>4. CASE ~ok
    BY <2>1, <2>2, <2>4, <1>1, <1>2, <1>4 DEF Effect
  <2> QED BY <2>3, <2>4
<1>9. CASE EnforceProfile(u)
  <2>1. PICK ok \in Outcomes("enforce") :
          IF ok THEN Loaded(p, file[p]) ELSE UNCHANGED <<kernel, children>>
    BY <1>9 DEF EnforceProfile
  <2>2. update[u].pc = "enforce" /\ file' = file /\ (~ok => "enforce" \in env.faults) /\ Done(u)
    BY <1>9, Zenon DEF EnforceProfile, At, Outcomes
  <2> QED BY <2>1, <2>2, <1>1, <1>2, <1>4 DEF Effect
<1> QED BY <1>6, <1>7, <1>8, <1>9

\* The start of the daemon: which profiles are unloaded, which files removed, and the host's.
LEMMA StartCases ==
  ASSUME Shape, NewAppArmorEnforcer
  PROVE  /\ up = "down" /\ starts < env.starts
         /\ DOMAIN AppArmorProfiles' = {} /\ AppArmorPrivilegedProfiles' = {} /\ live' = {}
         /\ pushed' = [n \in Names |-> {}] /\ UNCHANGED <<env, running, update>>
         /\ \/ up' = "up" /\ starts' = starts + 1
            \/ up' = "down" /\ starts' = starts /\ env.faults # {}
         /\ file' = [n \in Names |-> file'[n]] /\ kernel' = [n \in Names |-> kernel'[n]]
         /\ children' \subseteq children
         /\ \E shells \in BOOLEAN : \E gone \in SUBSET Inactive(shells) : \E removed \in SUBSET gone :
              /\ \A p \in Profiles : /\ file'[p] = IF p \in removed THEN <<"none">> ELSE file[p]
                                    /\ kernel'[p] = IF p \in gone THEN <<"none">> ELSE kernel[p]
              /\ ~env.HostPolicy => /\ file'[Host] = IF Host \in removed THEN <<"none">> ELSE file[Host]
                                    /\ kernel'[Host] = IF Host \in gone THEN <<"none">> ELSE kernel[Host]
              /\ env.HostPolicy /\ up' = "up" => file'[Host] = <<"empty">> /\ kernel'[Host] = <<"default", TRUE>>
<1>1. PICK shells \in BOOLEAN, written \in Outcomes("write"), ok \in Outcomes("load") :
      \E gone \in IF "remove" \in env.faults THEN SUBSET Inactive(shells) ELSE {Inactive(shells)} :
      \E removed \in IF "remove" \in env.faults THEN SUBSET gone ELSE {gone} :
       /\ RegisterAppArmorHostProfile(written, ok,
                                      [n \in Names |-> IF n \in removed THEN <<"none">> ELSE file[n]],
                                      [n \in Names |-> IF n \in gone THEN <<"none">> ELSE kernel[n]])
       /\ children' = children \ UNION {Of(p, SubprofilesOf(file[p])) : p \in gone}
       /\ up' = IF (written /\ ok) \/ ~env.HostPolicy THEN "up" ELSE "down"
       /\ starts' = IF (written /\ ok) \/ ~env.HostPolicy THEN starts + 1 ELSE starts
  BY Zenon DEF NewAppArmorEnforcer
<1> DEFINE Started(gone, removed) ==
       /\ RegisterAppArmorHostProfile(written, ok,
                                      [n \in Names |-> IF n \in removed THEN <<"none">> ELSE file[n]],
                                      [n \in Names |-> IF n \in gone THEN <<"none">> ELSE kernel[n]])
       /\ children' = children \ UNION {Of(p, SubprofilesOf(file[p])) : p \in gone}
       /\ up' = IF (written /\ ok) \/ ~env.HostPolicy THEN "up" ELSE "down"
       /\ starts' = IF (written /\ ok) \/ ~env.HostPolicy THEN starts + 1 ELSE starts
<1>1a. PICK gone \in SUBSET Inactive(shells) : \E removed \in SUBSET gone : Started(gone, removed)
  <2>1. \E gone \in IF "remove" \in env.faults THEN SUBSET Inactive(shells) ELSE {Inactive(shells)} :
        \E removed \in IF "remove" \in env.faults THEN SUBSET gone ELSE {gone} : Started(gone, removed)
    BY <1>1, Zenon
  <2> HIDE DEF Started
  <2> QED BY <2>1
<1>1b. PICK removed \in SUBSET gone : Started(gone, removed)
  <2> HIDE DEF Started
  <2> QED BY <1>1a
<1>2. /\ RegisterAppArmorHostProfile(written, ok,
                                     [n \in Names |-> IF n \in removed THEN <<"none">> ELSE file[n]],
                                     [n \in Names |-> IF n \in gone THEN <<"none">> ELSE kernel[n]])
      /\ children' = children \ UNION {Of(p, SubprofilesOf(file[p])) : p \in gone}
      /\ up' = IF (written /\ ok) \/ ~env.HostPolicy THEN "up" ELSE "down"
      /\ starts' = IF (written /\ ok) \/ ~env.HostPolicy THEN starts + 1 ELSE starts
  BY <1>1b
<1> DEFINE f == [n \in Names |-> IF n \in removed THEN <<"none">> ELSE file[n]]
           k == [n \in Names |-> IF n \in gone THEN <<"none">> ELSE kernel[n]]
<1>3. (~written => "write" \in env.faults) /\ (~ok => "load" \in env.faults) /\ env.HostPolicy \in BOOLEAN
  BY EnvFacts, Zenon DEF Outcomes, Shape
<1>4. /\ up = "down" /\ starts < env.starts
      /\ AppArmorProfiles' = <<>> /\ AppArmorPrivilegedProfiles' = {} /\ live' = {}
      /\ pushed' = [n \in Names |-> {}] /\ UNCHANGED <<env, running, update>>
  BY DEF NewAppArmorEnforcer
<1>5. f = [n \in Names |-> f[n]] /\ \A n \in Names : f[n] = IF n \in removed THEN <<"none">> ELSE file[n]
  OBVIOUS
<1>6. k = [n \in Names |-> k[n]] /\ \A n \in Names : k[n] = IF n \in gone THEN <<"none">> ELSE kernel[n]
  OBVIOUS
<1>7. RegisterAppArmorHostProfile(written, ok, f, k)
  BY <1>2
<1> HIDE DEF f, k
<1>8. /\ file' = [n \in Names |-> file'[n]] /\ kernel' = [n \in Names |-> kernel'[n]]
      /\ \A p \in Profiles : file'[p] = f[p] /\ kernel'[p] = k[p]
      /\ ~env.HostPolicy => file' = f /\ kernel' = k
      /\ env.HostPolicy /\ written /\ ok => file'[Host] = <<"empty">> /\ kernel'[Host] = <<"default", TRUE>>
  <2>1. CASE ~env.HostPolicy
    BY <2>1, <1>5, <1>6, <1>7, NameFacts, Zenon DEF RegisterAppArmorHostProfile
  <2>2. CASE env.HostPolicy /\ ~written
    BY <2>2, <1>5, <1>6, <1>7, NameFacts, Zenon DEF RegisterAppArmorHostProfile
  <2>3. CASE env.HostPolicy /\ written /\ ok
    BY <2>3, <1>5, <1>6, <1>7, NameFacts, Zenon DEF RegisterAppArmorHostProfile
  <2>4. CASE env.HostPolicy /\ written /\ ~ok
    BY <2>4, <1>5, <1>6, <1>7, NameFacts, Zenon DEF RegisterAppArmorHostProfile
  <2> QED BY <2>1, <2>2, <2>3, <2>4, <1>3, Zenon
<1>9. children' \subseteq children
  BY <1>2
<1>10. \/ up' = "up" /\ starts' = starts + 1 /\ (env.HostPolicy => written /\ ok)
       \/ up' = "down" /\ starts' = starts /\ env.faults # {}
  BY <1>2, <1>3
<1>11. DOMAIN AppArmorProfiles' = {}
  BY <1>4
<1>12. /\ \A p \in Profiles : /\ file'[p] = IF p \in removed THEN <<"none">> ELSE file[p]
                             /\ kernel'[p] = IF p \in gone THEN <<"none">> ELSE kernel[p]
       /\ ~env.HostPolicy => /\ file'[Host] = IF Host \in removed THEN <<"none">> ELSE file[Host]
                             /\ kernel'[Host] = IF Host \in gone THEN <<"none">> ELSE kernel[Host]
       /\ env.HostPolicy /\ up' = "up" => file'[Host] = <<"empty">> /\ kernel'[Host] = <<"default", TRUE>>
  BY <1>5, <1>6, <1>8, <1>10, NameFacts, Zenon
<1> QED BY <1>4, <1>8, <1>9, <1>10, <1>11, <1>12, Zenon

\* The daemon, its handlers and the pods live as they should.
LEMMA LifeNext ==
  ASSUME Life, [Next]_vars
  PROVE  Life'
<1> USE DEF Life
<1>0. env.overlap \in BOOLEAN /\ env.exec \in BOOLEAN /\ env.starts \in Nat
  BY EnvFacts DEF Shape
<1>1. CASE NewAppArmorEnforcer
  <2>1. Shape'
    <3>0. (up' = "up" /\ starts' = starts + 1) \/ (up' = "down" /\ starts' = starts)
      BY <1>1, StartCases
    <3>1. starts' \in Nat /\ up' \in {"up", "down"}
      BY <3>0 DEF Shape
    <3>2. pushed' = [n \in Names |-> pushed'[n]]
      BY <1>1, StartCases
    <3> QED BY <3>1, <3>2, <1>1, StartCases, Zenon DEF Shape
  <2>2. Fresh'
    <3> SUFFICES ASSUME starts' = 0 PROVE Fresh'
      BY DEF Fresh
    <3>0. (up' = "up" /\ starts' = starts + 1) \/ (up' = "down" /\ starts' = starts)
      BY <1>1, StartCases
    <3>1. starts = 0 /\ up' = "down"
      BY <3>0 DEF Shape
    <3>2. \A p \in Profiles : file'[p] = <<"none">> \/ file'[p] = file[p]
      BY <1>1, StartCases, Zenon
    <3> QED BY <3>1, <3>2, <1>1, StartCases DEF Fresh
  <2>3. RunInv' /\ Turns'
    BY <1>1, StartCases DEF RunInv, Turns, Quiet
  <2> QED BY <2>1, <2>2, <2>3
<1>2. ASSUME NEW q \in Pods, PodAdded(q) PROVE Life'
  <2> DEFINE p == ProfileOf[q]
  <2>0. p \in Names /\ p \in Profiles
    BY NameFacts
  <2>1. UNCHANGED <<env, up, running, starts, update>> /\ live' = live \cup {q} /\ up = "up"
    BY <1>2, PodAddedCases, Zenon
  <2>2. /\ file' = [n \in Names |-> file'[n]] /\ kernel' = [n \in Names |-> kernel'[n]]
        /\ pushed' = [n \in Names |-> pushed'[n]]
        /\ DOMAIN AppArmorProfiles' \subseteq Profiles /\ AppArmorPrivilegedProfiles' \subseteq Privileged
    <3>1. file' = file \/ \E t : file' = [file EXCEPT ![p] = t]
      BY <1>2, PodAddedCases, Zenon
    <3>2. kernel' = kernel \/ \E t : kernel' = [kernel EXCEPT ![p] = t]
      BY <1>2, PodAddedCases, Zenon
    <3>3. pushed' = pushed \/ pushed' = [pushed EXCEPT ![p] = {}]
      BY <1>2, PodAddedCases, Zenon
    <3>4. DOMAIN AppArmorProfiles' \subseteq DOMAIN AppArmorProfiles \cup {p}
      BY <1>2, PodAddedCases, Zenon
    <3>5. AppArmorPrivilegedProfiles' \subseteq AppArmorPrivilegedProfiles \cup Privileged
      BY <1>2, PodAddedCases, Zenon
    <3> HIDE DEF p
    <3> QED BY <3>1, <3>2, <3>3, <3>4, <3>5, <2>0 DEF Shape
  <2>3. Shape'
    BY <2>1, <2>2 DEF Shape
  <2>4. starts # 0
    BY <2>1 DEF Fresh
  <2> QED BY <2>1, <2>3, <2>4 DEF Fresh, RunInv, Turns, Quiet
<1>3. ASSUME NEW q \in Pods, PodDeleted(q) PROVE Life'
  <2>1. /\ up = "up" /\ live' = live \ {q} /\ running' = [running EXCEPT ![q] = <<>>]
        /\ UNCHANGED <<env, up, file, kernel, AppArmorPrivilegedProfiles, update, pushed, starts>>
        /\ DOMAIN AppArmorProfiles' = DOMAIN AppArmorProfiles
    BY <1>3 DEF PodDeleted, UnregisterAppArmorProfile, system
  <2>2. Shape'
    BY <2>1, Zenon DEF Shape
  <2> QED BY <2>1, <2>2 DEF Fresh, RunInv, Turns, Quiet, Shape
<1>4. ASSUME NEW u \in Updaters, NEW p \in Names, NEW policies, Generate(u, p, policies), MayUpdate(u),
             UNCHANGED <<env, up, file, kernel, AppArmorProfiles, AppArmorPrivilegedProfiles, cluster, starts>>,
             pushed' = [n \in Names |-> pushed'[n]]
      PROVE  Life'
  <2> DEFINE r == [pc |-> "write", name |-> p, np |-> NewText(p, policies)]
  <2>1. IsProgress(r) /\ r.pc = "write"
    BY DEF IsProgress, Pcs
  <2> HIDE DEF r
  <2>2. update' = update \/ update' = [update EXCEPT ![u] = r]
    <3>1. Draft(u, p, NewText(p, policies))
      BY <1>4, GenerateCases
    <3> QED BY <3>1 DEF Draft, r
  <2>3. /\ update' = [v \in Updaters |-> update'[v]] /\ \A v \in Updaters : IsProgress(update'[v])
        /\ \A v \in Updaters : v # u => update'[v] = update[v]
    BY <2>1, <2>2, SetProgress DEF Shape
  <2>4. Shape'
    BY <2>3, <1>4 DEF Shape, cluster
  <2>5. up = "up" \/ (up = "stopping" /\ env.overlap)
    BY <1>4 DEF MayUpdate
  <2>6. ~env.overlap => \A v \in Updaters : update[v].pc = "idle"
    BY <1>4 DEF MayUpdate
  <2>7. Turns'
    BY <2>3, <2>5, <2>6, <1>4 DEF Turns, Quiet
  <2> QED BY <2>4, <2>5, <2>7, <1>4 DEF Fresh, RunInv, cluster
<1>5. ASSUME NEW u \in Updaters, NEW p \in Profiles, NEW policies \in PolicySets, UpdateSecurityPolicies(u, p, policies)
      PROVE  Life'
  <2>1. pushed' = [n \in Names |-> pushed'[n]]
    BY <1>5, Zenon DEF UpdateSecurityPolicies, Shape
  <2> QED BY <2>1, <1>4, <1>5, NameFacts, Zenon DEF UpdateSecurityPolicies
<1>6. ASSUME NEW u \in Updaters, NEW policies \in PolicySets, UpdateHostSecurityPolicies(u, policies)
      PROVE  Life'
  <2>1. pushed' = [n \in Names |-> pushed'[n]]
    BY <1>6, Zenon DEF UpdateHostSecurityPolicies, Shape
  <2> QED BY <2>1, <1>4, <1>6, NameFacts, Zenon DEF UpdateHostSecurityPolicies
<1>7. ASSUME NEW u \in Updaters, WriteProfile(u) \/ LoadProfile(u) \/ DisableProfile(u) \/ EnforceProfile(u)
      PROVE  Life'
  <2> DEFINE p == update[u].name
  <2>1. /\ up # "down" /\ update[u].pc # "idle"
        /\ UNCHANGED <<env, up, AppArmorProfiles, AppArmorPrivilegedProfiles, live, running, pushed, starts>>
        /\ file' = [n \in Names |-> file'[n]] /\ kernel' = [n \in Names |-> kernel'[n]]
    <3>1. PICK r : Effect(u, p, r)
      BY <1>7, CommandCases
    <3>2. file' = file \/ \E t : file' = [file EXCEPT ![p] = t]
      BY <3>1 DEF Effect
    <3>3. kernel' = kernel \/ \E t : kernel' = [kernel EXCEPT ![p] = t]
      BY <3>1 DEF Effect, Loaded, Unloaded
    <3>4. file' = [n \in Names |-> file'[n]] /\ kernel' = [n \in Names |-> kernel'[n]]
      BY <3>2, <3>3 DEF Shape
    <3>5. update[u].pc # "idle"
      BY <3>1 DEF Effect
    <3> QED BY <3>4, <3>5, <1>7, CommandCases
  <2>2. PICK r : IsProgress(r) /\ update' = [update EXCEPT ![u] = r]
    <3>1. PICK r : Effect(u, p, r)
      BY <1>7, CommandCases
    <3> QED BY <3>1, Zenon DEF Effect
  <2>3. /\ update' = [v \in Updaters |-> update'[v]] /\ \A v \in Updaters : IsProgress(update'[v])
        /\ \A v \in Updaters : v # u => update'[v] = update[v]
    BY <2>2, SetProgress, Zenon
  <2>4. Shape'
    BY <2>1, <2>3 DEF Shape
  <2>5. Turns'
    BY <2>1, <2>3 DEF Turns, Quiet, Shape
  <2> QED BY <2>1, <2>4, <2>5 DEF Fresh, RunInv
<1>8. ASSUME NEW p \in Profiles, DestroyProfile(p) PROVE Life'
  <2>1. /\ up = "stopping" /\ DOMAIN AppArmorProfiles' = DOMAIN AppArmorProfiles \ {p}
        /\ UNCHANGED <<env, up, AppArmorPrivilegedProfiles, update, live, running, pushed, starts>>
        /\ file' = [n \in Names |-> file'[n]] /\ kernel' = [n \in Names |-> kernel'[n]]
    BY <1>8 DEF DestroyProfile, Shape, Loaded, Without, cluster, system
  <2>2. Shape'
    BY <2>1 DEF Shape
  <2> QED BY <2>1, <2>2 DEF Fresh, RunInv, Turns, Quiet
<1>9. CASE Crash \/ DestroyAppArmorEnforcer
  <2>1. /\ up # "down" /\ up' = "down" /\ update' = [u \in Updaters |-> Idle]
        /\ UNCHANGED <<env, AppArmorProfiles, AppArmorPrivilegedProfiles, live, running, pushed, starts>>
    BY <1>9 DEF Crash, DestroyAppArmorEnforcer, cluster
  <2>2. file' = [n \in Names |-> file'[n]] /\ kernel' = [n \in Names |-> kernel'[n]]
    BY <1>9, Zenon DEF Crash, DestroyAppArmorEnforcer, UnregisterAppArmorHostProfile, system, Shape
  <2>3. Shape' /\ Turns'
    BY <2>1, <2>2, IdleFacts DEF Shape, Turns, Quiet
  <2> QED BY <2>1, <2>3 DEF Fresh, RunInv
<1>10. CASE Reboot
  <2>1. /\ up = "down" /\ starts > 0
        /\ UNCHANGED <<env, up, file, AppArmorProfiles, AppArmorPrivilegedProfiles, update, live, pushed, starts>>
        /\ running' = [q \in Pods |-> <<>>] /\ kernel' = [n \in Names |-> kernel'[n]]
    BY <1>10 DEF Reboot, memory
  <2>2. Shape'
    BY <2>1 DEF Shape
  <2> QED BY <2>1, <2>2 DEF Fresh, RunInv, Turns, Quiet
<1>11. CASE Stop
  <2>1. /\ up = "up" /\ up' = "stopping" /\ (~env.overlap => Quiet)
        /\ UNCHANGED <<env, file, kernel, AppArmorProfiles, AppArmorPrivilegedProfiles, update, live, running, pushed, starts>>
    BY <1>11, <1>0 DEF Stop, memory, system, cluster, Quiet
  <2> QED BY <2>1 DEF Shape, Fresh, RunInv, Turns, Quiet
<1>12. ASSUME NEW q \in Pods, PodRuns(q) \/ PodExecs(q) \/ PodEnds(q) PROVE Life'
  <2>1. /\ running' = [n \in Pods |-> running'[n]]
        /\ \A n \in Pods : running'[n] \in {<<>>, <<ProfileOf[n]>>, running[n]} \/ env.exec
        /\ starts # 0
        /\ UNCHANGED <<env, up, file, kernel, AppArmorProfiles, AppArmorPrivilegedProfiles, update, live, pushed, starts>>
    <3>1. UNCHANGED <<env, up, file, kernel, AppArmorProfiles, AppArmorPrivilegedProfiles, update, live, pushed, starts>>
      BY <1>12 DEF PodRuns, PodExecs, PodEnds, memory, system
    <3>2. \/ q \in live /\ running' = [running EXCEPT ![q] = <<ProfileOf[q]>>]
          \/ env.exec /\ running[q] = <<ProfileOf[q]>> /\ \E c : running' = [running EXCEPT ![q] = c]
          \/ running[q] # <<>> /\ running' = [running EXCEPT ![q] = <<>>]
      BY <1>12 DEF PodRuns, PodExecs, PodEnds
    <3>3. running' = [n \in Pods |-> running'[n]]
      BY <3>2 DEF Shape
    <3>4. \A n \in Pods : running'[n] \in {<<>>, <<ProfileOf[n]>>, running[n]} \/ env.exec
      BY <3>2 DEF Shape
    <3>5. <<ProfileOf[q]>> # <<>>
      OBVIOUS
    <3>6. starts # 0
      BY <3>2, <3>5 DEF Fresh
    <3> QED BY <3>1, <3>3, <3>4, <3>6
  <2> QED BY <2>1 DEF Shape, Fresh, RunInv, Turns, Quiet
<1>13. CASE UNCHANGED vars
  BY <1>13 DEF vars, system, memory, cluster, Shape, Fresh, RunInv, Turns, Quiet
<1> QED BY <1>1, <1>2, <1>3, <1>5, <1>6, <1>7, <1>8, <1>9, <1>10, <1>11, <1>12, <1>13
        DEF Next, ProfileCalls, ContainerCalls, HostCalls, Commands, Ends, Outside
-----------------------------------------------------------------------------
(* Profiles in use. *)

\* A sub-profile is exec'ed only while the daemon is not restarted.
ExecsOnce == \A e \in Envs : e.exec => e.starts <= 1

LEMMA LifeHolds == Spec => []Life
<1>1. Init => Life
  BY LifeInit
<1>2. Life /\ [Next]_vars => Life'
  BY LifeNext
<1> QED BY <1>1, <1>2, PTL DEF Spec

\* Only NewAppArmorEnforcer starts the daemon.
LEMMA OnlyStarts ==
  ASSUME [Next]_vars, starts' # starts
  PROVE  NewAppArmorEnforcer
<1>1. \A q \in Pods : ~PodAdded(q) /\ ~PodDeleted(q)
  BY DEF PodAdded, PodDeleted
<1>2. \A u \in Updaters, p \in Profiles, policies \in PolicySets : ~UpdateSecurityPolicies(u, p, policies)
  BY DEF UpdateSecurityPolicies
<1>3. \A u \in Updaters, policies \in PolicySets : ~UpdateHostSecurityPolicies(u, policies)
  BY DEF UpdateHostSecurityPolicies
<1>4. \A u \in Updaters : ~WriteProfile(u) /\ ~LoadProfile(u) /\ ~DisableProfile(u) /\ ~EnforceProfile(u)
  BY DEF WriteProfile, LoadProfile, DisableProfile, EnforceProfile
<1>5. \A p \in Profiles : ~DestroyProfile(p)
  BY DEF DestroyProfile
<1>6. ~Ends /\ ~Reboot /\ ~Stop
  BY DEF Ends, Crash, DestroyAppArmorEnforcer, Reboot, Stop
<1>7. \A q \in Pods : ~PodRuns(q) /\ ~PodExecs(q) /\ ~PodEnds(q)
  BY DEF PodRuns, PodExecs, PodEnds
<1> QED BY <1>1, <1>2, <1>3, <1>4, <1>5, <1>6, <1>7
        DEF Next, vars, ProfileCalls, ContainerCalls, HostCalls, Commands, Outside

(* Starting the daemon (NewAppArmorEnforcer, removing what an earlier one left) keeps the
   profile of every pod that runs in it, whatever fails and however often the daemon is
   started, stopped or crashes, provided no program was seen to move into a sub-profile
   by a daemon that is restarted: `ps` then names the sub-profile. *)
THEOREM ProfilesInUseKept == ASSUME ExecsOnce PROVE Spec => InUseKept
<1>1. ASSUME Life, NewAppArmorEnforcer, NEW q \in Pods, running[q] # <<>>
      PROVE  kernel'[ProfileOf[q]] = kernel[ProfileOf[q]]
  <2>1. starts # 0 /\ starts \in Nat /\ env \in Envs
    BY <1>1 DEF Life, Fresh, Shape
  <2>2. starts < env.starts /\ env.starts \in Nat /\ env.exec \in BOOLEAN
    BY <1>1, <2>1, StartCases, EnvFacts DEF Life
  <2>3. ~env.exec
    BY <2>1, <2>2, ExecsOnce DEF ExecsOnce
  <2>4. running[q] = <<ProfileOf[q]>>
    BY <1>1, <2>3 DEF Life, RunInv
  <2>5. \A shells : ProfileOf[q] \notin Inactive(shells)
    BY <2>4 DEF Inactive, InUseByName
  <2>6. Shape /\ ProfileOf[q] \in Profiles
    BY <1>1, NameFacts DEF Life
  <2> QED BY <1>1, <2>5, <2>6, StartCases, Zenon
<1>2. Life /\ [Next]_vars =>
        [(up = "down" /\ starts' > starts) =>
           \A q \in Pods : running[q] # <<>> => kernel'[ProfileOf[q]] = kernel[ProfileOf[q]]]_vars
  <2> SUFFICES ASSUME Life, [Next]_vars, starts' > starts, NEW q \in Pods, running[q] # <<>>
               PROVE  kernel'[ProfileOf[q]] = kernel[ProfileOf[q]]
    OBVIOUS
  <2>1. starts' # starts
    BY DEF Life, Shape
  <2> QED BY <1>1, <2>1, OnlyStarts
<1> QED BY <1>2, LifeHolds, PTL DEF Spec, InUseKept
-----------------------------------------------------------------------------
(* Registration. *)

\* Nobody else has a profile of a privileged container's name.
ForeignPlain == Foreign \cap Privileged = {}

\* A daemon that is restarted could write its files.
WritesOnce == \A e \in Envs : "write" \in e.faults => e.starts <= 1
Orderly == "write" \in env.faults => env.starts <= 1

Flag(p) == p = Host \/ p \in Privileged

\* A file is somebody else's or empty only because it was found so or could not be written.
Marks ==
  /\ \A p \in Profiles : file[p][1] = "foreign" => p \in Foreign
  /\ \A p \in Profiles : file[p][1] = "empty" => "write" \in env.faults

\* A privileged profile that is used is known as one.
Known ==
  \A p \in Privileged :
    \/ p \in AppArmorPrivilegedProfiles
    \/ /\ p \notin DOMAIN AppArmorProfiles /\ file[p][1] # "empty"
       /\ \A q \in live : ProfileOf[q] # p
       /\ \A u \in Updaters : ~On(u, p)

\* The text of an update, and the file of a registered profile, say who is privileged.
Drafts ==
  \A u \in Updaters : update[u].pc = "write" => update[u].np[1] = "body" /\ update[u].np[2] = Flag(update[u].name)
Files ==
  \A p \in DOMAIN AppArmorProfiles : Managed(file[p]) => file[p][2] = Flag(p)

\* While updates take turns, a file stays as it was written until it is loaded.
Written ==
  ~env.overlap => \A u \in Updaters :
    update[u].pc \in {"load", "disable", "enforce"} /\ update[u].name \in DOMAIN AppArmorProfiles
      => Managed(file[update[u].name])

\* A registered profile is in the kernel, or is about to be again.
InKernel ==
  (up = "up" /\ "enforce" \notin env.faults /\ ~env.overlap) =>
    \A p \in DOMAIN AppArmorProfiles :
      \/ Managed(kernel[p]) /\ kernel[p][2] = Flag(p)
      \/ \E u \in Updaters : update[u].pc = "enforce" /\ update[u].name = p

Registration == Marks /\ Known /\ Drafts /\ Files /\ Written /\ InKernel

LEMMA RegistrationInit == Init => Registration
<1> SUFFICES ASSUME Init PROVE Registration
  OBVIOUS
<1>1. \A p \in Names : file[p][1] = "foreign" => p \in Foreign
  BY WordFacts DEF Init
<1>2. \A p \in Names : file[p][1] # "empty"
  BY WordFacts DEF Init
<1>3. \A u \in Updaters : update[u].pc = "idle"
  BY DEF Init, Idle
<1>4. DOMAIN AppArmorProfiles = {} /\ live = {}
  BY DEF Init
<1> QED BY <1>1, <1>2, <1>3, <1>4, NameFacts DEF Registration, Marks, Known, Drafts, Files, Written, InKernel, On

\* NewAppArmorEnforcer: nothing is registered yet, and no file of a profile is empty unless
\* an earlier daemon could not write it.
LEMMA RegistrationStart ==
  ASSUME Life, Registration, Orderly, NewAppArmorEnforcer
  PROVE  Registration'
<1>1. Shape /\ up = "down" /\ Quiet
  BY StartCases DEF Life, Turns
<1>2. /\ DOMAIN AppArmorProfiles' = {} /\ live' = {} /\ env' = env /\ update' = update
  BY <1>1, StartCases
<1>3. \A p \in Profiles : file'[p] = <<"none">> \/ file'[p] = file[p]
  BY <1>1, StartCases, Zenon
<1>4. \A p \in Privileged : file'[p][1] # "empty"
  <2>1. CASE "write" \in env.faults
    <3>1. starts < env.starts /\ env \in Envs /\ starts \in Nat /\ env.starts \in Nat
      BY <1>1, StartCases, EnvFacts, Zenon DEF Shape
    <3>2. starts = 0
      BY <3>1, <2>1 DEF Orderly
    <3>3. \A p \in Profiles : file[p][1] \in {"none", "foreign"}
      BY <3>2 DEF Life, Fresh
    <3> QED BY <1>3, <3>3, NameFacts, WordFacts
  <2>2. CASE "write" \notin env.faults
    BY <2>2, <1>3, NameFacts, WordFacts DEF Registration, Marks
  <2> QED BY <2>1, <2>2
<1>5. Marks'
  BY <1>2, <1>3, WordFacts DEF Registration, Marks
<1>6. Known'
  BY <1>1, <1>2, <1>4 DEF Known, On, Quiet
<1>7. Drafts' /\ Files' /\ Written' /\ InKernel'
  BY <1>1, <1>2 DEF Drafts, Files, Written, InKernel, Quiet
<1> QED BY <1>5, <1>6, <1>7 DEF Registration

\* RegisterAppArmorProfile
LEMMA RegistrationPodAdded ==
  ASSUME Life, Registration, ForeignPlain, NEW q \in Pods, PodAdded(q)
  PROVE  Registration'
<1> DEFINE p == ProfileOf[q]
<1>1. Shape /\ p \in Profiles /\ p \in Names
  BY NameFacts DEF Life
<1>2. up = "up" /\ live' = live \cup {q} /\ UNCHANGED <<env, up, running, starts, update>>
  BY <1>1, PodAddedCases, Zenon
<1>3. CASE OutOfControl(file[p])
  <2>1. UNCHANGED <<file, kernel, AppArmorProfiles, AppArmorPrivilegedProfiles>>
    BY <1>1, <1>3, PodAddedCases, Zenon
  <2>2. p \in Privileged => p \in AppArmorPrivilegedProfiles
    BY <1>1, <1>3 DEF Registration, Known, Marks, OutOfControl, ForeignPlain
  <2>3. Known'
    BY <1>1, <1>2, <2>1, <2>2 DEF Registration, Known, On
  <2> QED BY <1>2, <2>1, <2>3 DEF Registration, Marks, Drafts, Files, Written, InKernel
<1>4. CASE ~OutOfControl(file[p]) /\ p \in DOMAIN AppArmorProfiles
  <2>1. UNCHANGED <<file, kernel, AppArmorPrivilegedProfiles>> /\ DOMAIN AppArmorProfiles' = DOMAIN AppArmorProfiles
    BY <1>1, <1>4, PodAddedCases
  <2>2. p \in Privileged => p \in AppArmorPrivilegedProfiles
    BY <1>1, <1>4 DEF Registration, Known
  <2>3. Known'
    BY <1>1, <1>2, <2>1, <2>2 DEF Registration, Known, On
  <2> QED BY <1>2, <2>1, <2>3 DEF Registration, Marks, Drafts, Files, Written, InKernel
<1>5. CASE ~OutOfControl(file[p]) /\ p \notin DOMAIN AppArmorProfiles
  <2> DEFINE D == Default(p, AppArmorPrivilegedProfiles')
  <2>1. AppArmorPrivilegedProfiles' = AppArmorPrivilegedProfiles \cup ({p} \cap Privileged)
    BY <1>1, <1>5, PodAddedCases, Zenon
  <2>2. \/ /\ file' = [file EXCEPT ![p] = D] /\ kernel' = [kernel EXCEPT ![p] = D]
           /\ DOMAIN AppArmorProfiles' = DOMAIN AppArmorProfiles \cup {p}
        \/ /\ file' = [file EXCEPT ![p] = D] /\ UNCHANGED <<kernel, AppArmorProfiles>>
        \/ /\ file' = [file EXCEPT ![p] = <<"empty">>] /\ "write" \in env.faults
           /\ UNCHANGED <<kernel, AppArmorProfiles>>
    BY <1>1, <1>5, PodAddedCases
  <2>3. D[1] = "default" /\ D[2] = (p \in Privileged) /\ Managed(D) /\ p # Host
    <3>1. D[1] = "default" /\ D[2] = (p \in AppArmorPrivilegedProfiles')
      BY DEF Default
    <3>2. (p \in AppArmorPrivilegedProfiles') = (p \in Privileged)
      BY <2>1, <1>1 DEF Shape
    <3> HIDE DEF D
    <3> QED BY <3>1, <3>2, <1>1, NameFacts DEF Managed
  <2> HIDE DEF D, p
  <2>4. \A n \in Names : n # p => file'[n] = file[n] /\ kernel'[n] = kernel[n]
    BY <2>2, <1>1 DEF Shape
  <2>5. \/ /\ file'[p] = D /\ kernel'[p] = D /\ DOMAIN AppArmorProfiles' = DOMAIN AppArmorProfiles \cup {p}
        \/ /\ file'[p] = D /\ DOMAIN AppArmorProfiles' = DOMAIN AppArmorProfiles
        \/ /\ file'[p] = <<"empty">> /\ "write" \in env.faults /\ DOMAIN AppArmorProfiles' = DOMAIN AppArmorProfiles
    BY <2>2, <1>1 DEF Shape
  <2>6. DOMAIN AppArmorProfiles \subseteq Profiles
    BY <1>1 DEF Shape
  <2>7. Marks'
    BY <2>3, <2>4, <2>5, <1>1, <1>2, NameFacts, WordFacts DEF Registration, Marks
  <2>8. Known'
    BY <2>1, <2>4, <2>5, <1>1, <1>2, NameFacts DEF Registration, Known, On, p
  <2>9. Drafts'
    BY <1>2 DEF Registration, Drafts
  <2>10. Files'
    <3> SUFFICES ASSUME NEW n \in DOMAIN AppArmorProfiles', Managed(file'[n]) PROVE file'[n][2] = Flag(n)
      BY DEF Files
    <3>1. CASE n = p
      BY <3>1, <2>3, <2>5, <1>5 DEF Flag
    <3>2. CASE n # p
      <4>1. n \in DOMAIN AppArmorProfiles /\ file'[n] = file[n]
        BY <3>2, <2>4, <2>5, <2>6, NameFacts
      <4> QED BY <4>1 DEF Registration, Files
    <3> QED BY <3>1, <3>2
  <2>11. Written'
    <3> SUFFICES ASSUME ~env.overlap, NEW u \in Updaters, update[u].pc \in {"load", "disable", "enforce"},
                        update[u].name \in DOMAIN AppArmorProfiles'
                 PROVE  Managed(file'[update[u].name])
      BY <1>2 DEF Written
    <3>1. CASE update[u].name = p
      BY <3>1, <2>3, <2>5, <1>5
    <3>2. CASE update[u].name # p
      BY <3>2, <2>4, <2>5, <2>6, NameFacts DEF Registration, Written
    <3> QED BY <3>1, <3>2
  <2>12. InKernel'
    <3> SUFFICES ASSUME up = "up", "enforce" \notin env.faults, ~env.overlap, NEW n \in DOMAIN AppArmorProfiles'
                 PROVE  \/ Managed(kernel'[n]) /\ kernel'[n][2] = Flag(n)
                        \/ \E u \in Updaters : update[u].pc = "enforce" /\ update[u].name = n
      BY <1>2 DEF InKernel
    <3>1. CASE n = p
      BY <3>1, <2>3, <2>5, <1>5 DEF Flag
    <3>2. CASE n # p
      <4>1. n \in DOMAIN AppArmorProfiles /\ kernel'[n] = kernel[n]
        BY <3>2, <2>4, <2>5, <2>6, NameFacts
      <4> QED BY <4>1 DEF Registration, InKernel
    <3> QED BY <3>1, <3>2
  <2> QED BY <2>7, <2>8, <2>9, <2>10, <2>11, <2>12 DEF Registration
<1> QED BY <1>3, <1>4, <1>5

\* GenerateAppArmorProfile for a container or the host.
LEMMA RegistrationGenerate ==
  ASSUME Life, Registration, NEW u \in Updaters, NEW p \in Names, NEW policies, Generate(u, p, policies), MayUpdate(u),
         UNCHANGED <<env, up, file, kernel, AppArmorProfiles, AppArmorPrivilegedProfiles, live>>,
         p = Host \/ \E q \in live : ProfileOf[q] = p
  PROVE  Registration'
<1> DEFINE r == [pc |-> "write", name |-> p, np |-> NewText(p, policies)]
<1>1. Shape /\ update[u].pc = "idle"
  BY DEF Life, MayUpdate
<1>2. update' = update \/ update' = [update EXCEPT ![u] = r]
  <2>1. Draft(u, p, NewText(p, policies))
    BY GenerateCases
  <2> QED BY <2>1 DEF Draft
<1>3. r.pc = "write" /\ r.name = p /\ r.np = NewText(p, policies)
  OBVIOUS
<1>4. p \in Privileged => p \in AppArmorPrivilegedProfiles
  BY NameFacts DEF Registration, Known
<1>5. r.np[1] = "body" /\ r.np[2] = Flag(p)
  BY <1>1, <1>3, <1>4, BodyFacts DEF NewText, Flag, Shape
<1> HIDE DEF r
<1>6. \A v \in Updaters : update'[v] = update[v] \/ (v = u /\ update'[v] = r)
  BY <1>1, <1>2 DEF Shape
<1>7. Known'
  BY <1>3, <1>4, <1>6 DEF Registration, Known, On
<1>8. Drafts'
  BY <1>3, <1>5, <1>6 DEF Registration, Drafts
<1>9. Written'
  BY <1>3, <1>6 DEF Registration, Written
<1>10. InKernel'
  <2>1. \A v \in Updaters : update[v].pc = "enforce" => update'[v] = update[v]
    BY <1>1, <1>2 DEF Shape
  <2> QED BY <2>1 DEF Registration, InKernel
<1> QED BY <1>7, <1>8, <1>9, <1>10 DEF Registration, Marks, Files

\* The commands of an update: written, loaded, disabled and enforced again.
LEMMA RegistrationCommand ==
  ASSUME Life, Registration, NEW u \in Updaters,
         WriteProfile(u) \/ LoadProfile(u) \/ DisableProfile(u) \/ EnforceProfile(u)
  PROVE  Registration'
<1> DEFINE p == update[u].name
<1>1. Shape /\ p \in Names /\ up # "down"
  BY CommandCases DEF Life
<1>2. UNCHANGED <<env, up, AppArmorProfiles, AppArmorPrivilegedProfiles, live>> /\ DOMAIN AppArmorProfiles \subseteq Profiles
  BY <1>1, CommandCases DEF Shape
<1>3. PICK r : Effect(u, p, r)
  BY <1>1, CommandCases
<1>4. \A v \in Updaters : update'[v] = IF v = u THEN r ELSE update[v]
  BY <1>1, <1>3 DEF Shape, Effect
<1>5. \A n \in Names : n # p => file'[n] = file[n] /\ kernel'[n] = kernel[n]
  BY <1>1, <1>3 DEF Shape, Effect, Loaded, Unloaded
<1>6. \/ update[u].pc = "write" /\ r.pc = "load" /\ file'[p] = update[u].np
      \/ file'[p] = <<"empty">> /\ "write" \in env.faults /\ r.pc = "idle"
      \/ file'[p] = <<"empty">> /\ p = Host
      \/ file'[p] = file[p] /\ update[u].pc # "write"
  BY <1>1, <1>3 DEF Shape, Effect
<1>7. update[u].pc = "write" => update[u].np[1] = "body" /\ update[u].np[2] = Flag(p)
  BY DEF Registration, Drafts
<1>8. kernel'[p] = kernel[p] \/ (Managed(file[p]) /\ kernel'[p] = file[p]) \/ r.pc = "enforce"
  BY <1>1, <1>3 DEF Shape, Effect, Loaded
<1>9. p # Host /\ update[u].pc = "enforce" /\ "enforce" \notin env.faults /\ Managed(file[p]) => kernel'[p] = file[p]
  BY <1>1, <1>3 DEF Shape, Effect, Loaded
<1>10. update[u].pc # "idle" /\ (r.pc \in {"load", "disable", "enforce"} => r.name = p)
  BY <1>3, Zenon DEF Effect
<1>11. r.pc # "write"
  BY <1>3 DEF Effect
<1>12. r.pc \in {"disable", "enforce"} => update[u].pc \in {"load", "disable"} /\ (p # Host => file'[p] = file[p])
  BY <1>3, <1>1 DEF Shape, Effect
<1> HIDE DEF p
<1>13. Marks'
  <2> SUFFICES ASSUME NEW n \in Profiles
               PROVE  /\ file'[n][1] = "foreign" => n \in Foreign
                      /\ file'[n][1] = "empty" => "write" \in env.faults
    BY <1>2, Zenon DEF Marks
  <2>1. /\ file[n][1] = "foreign" => n \in Foreign
        /\ file[n][1] = "empty" => "write" \in env.faults
    BY DEF Registration, Marks
  <2>2. n \in Names /\ n # Host
    BY NameFacts
  <2>3. CASE n # p
    BY <2>1, <2>2, <2>3, <1>5, Zenon
  <2>4. CASE n = p
    <3>1. CASE update[u].pc = "write" /\ file'[p] = update[u].np
      BY <2>4, <3>1, <1>7
    <3>2. CASE file'[p] = <<"empty">> /\ "write" \in env.faults
      BY <2>4, <3>2, WordFacts
    <3>3. CASE file'[p] = file[p]
      BY <2>1, <2>4, <3>3
    <3> QED BY <2>2, <2>4, <3>1, <3>2, <3>3, <1>6
  <2> QED BY <2>3, <2>4
<1>14. Known'
  <2>1. \A v \in Updaters : \A n : update'[v].pc # "idle" /\ update'[v].name = n => update[v].pc # "idle" /\ update[v].name = n
    BY <1>3, <1>4, <1>10, Zenon DEF p, Effect
  <2> SUFFICES ASSUME NEW n \in Privileged, n \notin AppArmorPrivilegedProfiles
               PROVE  /\ n \notin DOMAIN AppArmorProfiles /\ file'[n][1] # "empty"
                      /\ (\A q \in live : ProfileOf[q] # n) /\ \A v \in Updaters : ~On(v, n)'
    BY <1>2, Zenon DEF Known
  <2>2. /\ n \notin DOMAIN AppArmorProfiles /\ file[n][1] # "empty"
        /\ (\A q \in live : ProfileOf[q] # n) /\ \A v \in Updaters : ~On(v, n)
    BY DEF Registration, Known
  <2>3. n # p /\ n \in Names
    BY <2>2, <1>10, NameFacts DEF On, p
  <2>4. \A v \in Updaters : ~On(v, n)'
    BY <2>1, <2>2 DEF On
  <2>5. file'[n] = file[n]
    BY <2>3, <1>5
  <2> QED BY <2>2, <2>4, <2>5
<1>15. Drafts'
  BY <1>4, <1>11 DEF Registration, Drafts
<1>16. Files'
  <2> SUFFICES ASSUME NEW n \in DOMAIN AppArmorProfiles, Managed(file'[n])
               PROVE  file'[n][2] = Flag(n)
    BY <1>2 DEF Files, Flag
  <2>1. Managed(file[n]) => file[n][2] = Flag(n)
    BY DEF Registration, Files
  <2>2. n \in Names /\ n # Host
    BY <1>2, NameFacts
  <2>3. CASE n # p
    BY <2>1, <2>2, <2>3, <1>5
  <2>4. CASE n = p
    <3>1. CASE update[u].pc = "write" /\ file'[p] = update[u].np
      BY <2>4, <3>1, <1>7
    <3>2. file'[p] # <<"empty">>
      BY <2>4, WordFacts DEF Managed
    <3>3. CASE file'[p] = file[p]
      BY <2>1, <2>4, <3>3
    <3> QED BY <3>1, <3>2, <3>3, <1>6
  <2> QED BY <2>3, <2>4
<1>17. Written'
  <2> SUFFICES ASSUME ~env.overlap, NEW v \in Updaters, update'[v].pc \in {"load", "disable", "enforce"},
                      update'[v].name \in DOMAIN AppArmorProfiles
               PROVE  Managed(file'[update'[v].name])
    BY <1>2 DEF Written
  <2>1. v = u
    BY <1>4, <1>10 DEF Life, Turns
  <2>2. update'[v].name = p /\ update'[v].pc = r.pc
    BY <2>1, <1>4, <1>10
  <2>3. p \in Profiles /\ p # Host
    BY <2>2, <1>2, NameFacts
  <2>4. CASE r.pc = "load"
    <3>1. file'[p] = update[u].np /\ update[u].pc = "write"
      BY <2>4, <1>3, <1>1 DEF Shape, Effect, p
    <3> QED BY <3>1, <2>2, <1>7 DEF Managed
  <2>5. CASE r.pc \in {"disable", "enforce"}
    <3>1. Managed(file[p])
      BY <2>5, <2>2, <1>12, Zenon DEF Registration, Written, p
    <3> QED BY <3>1, <2>2, <2>3, <2>5, <1>12, Zenon
  <2> QED BY <2>2, <2>4, <2>5
<1>18. InKernel'
  <2> SUFFICES ASSUME up = "up", "enforce" \notin env.faults, ~env.overlap, NEW n \in DOMAIN AppArmorProfiles
               PROVE  \/ Managed(kernel'[n]) /\ kernel'[n][2] = Flag(n)
                      \/ \E v \in Updaters : update'[v].pc = "enforce" /\ update'[v].name = n
    BY <1>2 DEF InKernel
  <2>1. n \in Names /\ n # Host
    BY <1>2, NameFacts
  <2>2. \/ Managed(kernel[n]) /\ kernel[n][2] = Flag(n)
        \/ \E v \in Updaters : update[v].pc = "enforce" /\ update[v].name = n
    BY DEF Registration, InKernel
  <2>3. \A v \in Updaters : update[v].pc = "enforce" => v = u
    BY <1>10 DEF Life, Turns
  <2>4. CASE n # p
    BY <2>1, <2>2, <2>3, <2>4, <1>5 DEF p
  <2>5. CASE n = p
    <3>1. Managed(file[p]) => file[p][2] = Flag(p)
      BY <2>5 DEF Registration, Files
    <3>2. CASE update[u].pc = "enforce"
      <4>1. Managed(file[p])
        BY <3>2, <2>5 DEF Registration, Written, p
      <4> QED BY <4>1, <3>1, <3>2, <2>1, <2>5, <1>9
    <3>3. CASE update[u].pc # "enforce"
      <4>1. Managed(kernel[p]) /\ kernel[p][2] = Flag(p)
        BY <3>3, <2>2, <2>3, <2>5
      <4> QED BY <4>1, <3>1, <2>5, <1>4, <1>8, <1>10, Zenon
    <3> QED BY <3>2, <3>3
  <2> QED BY <2>4, <2>5, Zenon
<1> QED BY <1>13, <1>14, <1>15, <1>16, <1>17, <1>18 DEF Registration

\* The profiles are reset one by one when the daemon is stopped.
LEMMA RegistrationDestroy ==
  ASSUME Life, Registration, NEW p \in Profiles, DestroyProfile(p)
  PROVE  Registration'
<1>1. /\ up = "stopping" /\ p \in DOMAIN AppArmorProfiles /\ DOMAIN AppArmorProfiles' = DOMAIN AppArmorProfiles \ {p}
      /\ UNCHANGED <<env, up, AppArmorPrivilegedProfiles, update, live>>
  BY DEF DestroyProfile, Without, cluster
<1>2. \/ file' = file
      \/ file' = [file EXCEPT ![p] = Default(p, AppArmorPrivilegedProfiles)]
      \/ file' = [file EXCEPT ![p] = <<"empty">>] /\ "write" \in env.faults
  BY Zenon DEF DestroyProfile, Outcomes, system
<1>3. Shape /\ p \in Names
  BY NameFacts DEF Life
<1>4. \A n \in Names : n # p => file'[n] = file[n]
  BY <1>2, <1>3 DEF Shape
<1>5. file'[p] = file[p] \/ file'[p][1] = "default" \/ (file'[p][1] = "empty" /\ "write" \in env.faults)
  <2>1. Default(p, AppArmorPrivilegedProfiles)[1] = "default"
    BY DEF Default
  <2>2. file'[p] \in {file[p], Default(p, AppArmorPrivilegedProfiles)} \/ (file'[p] = <<"empty">> /\ "write" \in env.faults)
    BY <1>2, <1>3 DEF Shape
  <2> QED BY <2>1, <2>2, WordFacts
<1>6. Marks'
  BY <1>1, <1>4, <1>5, NameFacts DEF Registration, Marks
<1>7. Known'
  BY <1>1, <1>4, NameFacts DEF Registration, Known, On
<1>8. Drafts' /\ InKernel'
  BY <1>1 DEF Registration, Drafts, InKernel
<1>9. \A n \in DOMAIN AppArmorProfiles' : n \in DOMAIN AppArmorProfiles /\ file'[n] = file[n]
  BY <1>1, <1>3, <1>4, NameFacts DEF Shape
<1>10. Files'
  BY <1>9 DEF Registration, Files
<1>11. Written'
  BY <1>1, <1>9 DEF Registration, Written
<1> QED BY <1>6, <1>7, <1>8, <1>10, <1>11 DEF Registration

LEMMA RegistrationNext ==
  ASSUME Life, Registration, ForeignPlain, Orderly, [Next]_vars
  PROVE  Registration'
<1>1. CASE NewAppArmorEnforcer
  BY <1>1, RegistrationStart
<1>2. ASSUME NEW q \in Pods, PodAdded(q) PROVE Registration'
  BY <1>2, RegistrationPodAdded
<1>3. ASSUME NEW q \in Pods, PodDeleted(q) PROVE Registration'
  <2>1. /\ live' \subseteq live /\ DOMAIN AppArmorProfiles' = DOMAIN AppArmorProfiles
        /\ UNCHANGED <<env, up, file, kernel, AppArmorPrivilegedProfiles, update>>
    BY <1>3 DEF PodDeleted, UnregisterAppArmorProfile, system
  <2> QED BY <2>1 DEF Registration, Marks, Known, Drafts, Files, Written, InKernel, On
<1>4. ASSUME NEW u \in Updaters, NEW p \in Profiles, NEW policies \in PolicySets, UpdateSecurityPolicies(u, p, policies)
      PROVE  Registration'
  BY <1>4, RegistrationGenerate, NameFacts DEF UpdateSecurityPolicies, cluster
<1>5. ASSUME NEW u \in Updaters, NEW policies \in PolicySets, UpdateHostSecurityPolicies(u, policies)
      PROVE  Registration'
  BY <1>5, RegistrationGenerate, NameFacts DEF UpdateHostSecurityPolicies, cluster
<1>6. ASSUME NEW u \in Updaters, WriteProfile(u) \/ LoadProfile(u) \/ DisableProfile(u) \/ EnforceProfile(u)
      PROVE  Registration'
  BY <1>6, RegistrationCommand
<1>7. ASSUME NEW p \in Profiles, DestroyProfile(p) PROVE Registration'
  BY <1>7, RegistrationDestroy
<1>8. CASE Crash \/ DestroyAppArmorEnforcer
  <2>1. /\ up' = "down" /\ \A u \in Updaters : update'[u].pc = "idle"
        /\ UNCHANGED <<env, AppArmorProfiles, AppArmorPrivilegedProfiles, live>>
    BY <1>8 DEF Crash, DestroyAppArmorEnforcer, cluster, Idle
  <2>2. \A p \in Profiles : file'[p] = file[p]
    <3>1. file' = file \/ file' = [file EXCEPT ![Host] = <<"none">>]
      BY <1>8, Zenon DEF Crash, DestroyAppArmorEnforcer, UnregisterAppArmorHostProfile, system
    <3> QED BY <3>1, NameFacts DEF Life, Shape
  <2>3. Marks' /\ Known' /\ Files'
    BY <2>1, <2>2, NameFacts, Zenon DEF Registration, Marks, Known, Files, On, Life, Shape
  <2> QED BY <2>1, <2>3 DEF Registration, Drafts, Written, InKernel
<1>9. CASE Reboot
  <2>1. up' = "down" /\ UNCHANGED <<env, file, AppArmorProfiles, AppArmorPrivilegedProfiles, update, live>>
    BY <1>9, Zenon DEF Reboot, memory
  <2> QED BY <2>1 DEF Registration, Marks, Known, Drafts, Files, Written, InKernel, On
<1>10. CASE Stop
  <2>1. up' = "stopping" /\ UNCHANGED <<env, file, AppArmorProfiles, AppArmorPrivilegedProfiles, update, live>>
    BY <1>10 DEF Stop, memory, system, cluster
  <2> QED BY <2>1 DEF Registration, Marks, Known, Drafts, Files, Written, InKernel, On
<1>11. CASE UNCHANGED <<env, up, system, memory, live>>
  BY <1>11 DEF system, memory, Registration, Marks, Known, Drafts, Files, Written, InKernel, On
<1>12. ASSUME NEW q \in Pods, PodRuns(q) \/ PodExecs(q) \/ PodEnds(q) PROVE Registration'
  BY <1>11, <1>12 DEF PodRuns, PodExecs, PodEnds
<1>13. CASE UNCHANGED vars
  BY <1>11, <1>13 DEF vars, cluster
<1> QED BY <1>1, <1>2, <1>3, <1>4, <1>5, <1>6, <1>7, <1>8, <1>9, <1>10, <1>12, <1>13
        DEF Next, ProfileCalls, ContainerCalls, HostCalls, Commands, Ends, Outside

\* What may happen in a behaviour does not change.
LEMMA EnvStays ==
  ASSUME [Next]_vars
  PROVE  env' = env
<1>1. \A q \in Pods : PodAdded(q) \/ PodDeleted(q) => env' = env
  BY DEF PodAdded, PodDeleted
<1>2. \A u \in Updaters, p \in Profiles, policies \in PolicySets : UpdateSecurityPolicies(u, p, policies) => env' = env
  BY DEF UpdateSecurityPolicies
<1>3. \A u \in Updaters, policies \in PolicySets : UpdateHostSecurityPolicies(u, policies) => env' = env
  BY DEF UpdateHostSecurityPolicies
<1>4. \A u \in Updaters : WriteProfile(u) \/ LoadProfile(u) \/ DisableProfile(u) \/ EnforceProfile(u) => env' = env
  BY Zenon DEF WriteProfile, LoadProfile, DisableProfile, EnforceProfile
<1>5. \A p \in Profiles : DestroyProfile(p) => env' = env
  BY Zenon DEF DestroyProfile
<1>6. NewAppArmorEnforcer \/ Ends \/ Reboot \/ Stop => env' = env
  BY DEF NewAppArmorEnforcer, Ends, Crash, DestroyAppArmorEnforcer, Reboot, Stop
<1>7. \A q \in Pods : PodRuns(q) \/ PodExecs(q) \/ PodEnds(q) => env' = env
  BY DEF PodRuns, PodExecs, PodEnds
<1> QED BY <1>1, <1>2, <1>3, <1>4, <1>5, <1>6, <1>7
        DEF Next, vars, ProfileCalls, ContainerCalls, HostCalls, Commands, Outside

LEMMA RegistrationHolds == ASSUME ForeignPlain PROVE Spec => [](Life /\ (Orderly => Registration))
<1>1. Init => Life /\ Registration
  BY LifeInit, RegistrationInit
<1>2. Life /\ (Orderly => Registration) /\ [Next]_vars => (Life /\ (Orderly => Registration))'
  <2> SUFFICES ASSUME Life, Orderly => Registration, [Next]_vars PROVE Life' /\ (Orderly' => Registration')
    OBVIOUS
  <2>1. Orderly' = Orderly
    BY EnvStays DEF Orderly
  <2> QED BY <2>1, LifeNext, RegistrationNext
<1> QED BY <1>1, <1>2, PTL DEF Spec

(* RegisteredIsLoaded: a profile the enforcer has registered (RegisterAppArmorProfile) is in
   the kernel, and lets a container do as much as a privileged one exactly if it is one's,
   whatever commands but aa-enforce fail, between any two updates. *)
THEOREM RegisteredProfilesLoaded == ASSUME ForeignPlain, WritesOnce PROVE Spec => []RegisteredIsLoaded
<1>1. Life /\ (Orderly => Registration) => RegisteredIsLoaded
  <2> SUFFICES ASSUME Life, Orderly => Registration PROVE RegisteredIsLoaded
    OBVIOUS
  <2>1. Orderly
    BY DEF Orderly, WritesOnce, Life, Shape
  <2> QED BY <2>1, NameFacts DEF Life, Shape, Registration, InKernel, RegisteredIsLoaded, Quiet, Flag
<1> QED BY <1>1, RegistrationHolds, PTL
-----------------------------------------------------------------------------
(* The file of the host. *)

\* The host's file is emptied once its profile is loaded, and never there without host policies.
HostFile ==
  /\ ~env.HostPolicy => file[Host] = <<"none">> /\ kernel[Host] = <<"none">> /\ \A u \in Updaters : ~On(u, Host)
  /\ up # "down" => file[Host][1] \in {"none", "empty"} \/ \E u \in Updaters : Doing(u, Host, {"load"})
  /\ \A u \in Updaters : On(u, Host) => update[u].pc \in {"write", "load"}

\* An update of one profile leaves the others' progress alone.
LEMMA OnlyUpdater ==
  ASSUME Shape, NEW u \in Updaters, NEW r, update' = [update EXCEPT ![u] = r]
  PROVE  \A v \in Updaters : update'[v] = IF v = u THEN r ELSE update[v]
BY DEF Shape

LEMMA HostFileInit == Init => HostFile
BY NameFacts, WordFacts DEF Init, HostFile, On, Idle

LEMMA HostFileSame ==
  ASSUME HostFile, UNCHANGED <<env, update>>, file'[Host] = file[Host], kernel'[Host] = kernel[Host],
         up' # "down" => up # "down"
  PROVE  HostFile'
BY DEF HostFile, On, Doing

LEMMA HostFileNext ==
  ASSUME Life, HostFile, env.faults = {}, [Next]_vars
  PROVE  HostFile'
<1>0. Shape /\ Host \in Names /\ env.HostPolicy \in BOOLEAN
  BY NameFacts, EnvFacts DEF Life, Shape
<1>1. CASE NewAppArmorEnforcer
  <2>1. up = "down" /\ UNCHANGED <<env, update>> /\ Quiet
    BY <1>0, <1>1, StartCases DEF Life, Turns
  <2>2. ~env.HostPolicy => file'[Host] = <<"none">> /\ kernel'[Host] = <<"none">>
    BY <1>0, <1>1, StartCases, Zenon DEF HostFile
  <2>3. env.HostPolicy /\ up' # "down" => file'[Host] = <<"empty">>
    BY <1>0, <1>1, StartCases, Zenon
  <2> QED BY <2>1, <2>2, <2>3, <1>0, WordFacts DEF HostFile, Quiet, On
<1>2. ASSUME NEW q \in Pods, PodAdded(q) PROVE HostFile'
  <2>1. UNCHANGED <<env, up, update>>
    BY <1>0, <1>2, PodAddedCases, Zenon
  <2>2. file' = file \/ \E t : file' = [file EXCEPT ![ProfileOf[q]] = t]
    BY <1>0, <1>2, PodAddedCases, Zenon
  <2>3. kernel' = kernel \/ \E t : kernel' = [kernel EXCEPT ![ProfileOf[q]] = t]
    BY <1>0, <1>2, PodAddedCases, Zenon
  <2>4. file'[Host] = file[Host] /\ kernel'[Host] = kernel[Host]
    BY <2>2, <2>3, <1>0, NameFacts DEF Shape
  <2> QED BY <2>1, <2>4, HostFileSame
<1>3. ASSUME NEW q \in Pods, PodDeleted(q) PROVE HostFile'
  BY <1>3, HostFileSame DEF PodDeleted, system
<1>4. ASSUME NEW u \in Updaters, NEW p \in Names, NEW policies, Generate(u, p, policies), MayUpdate(u),
             UNCHANGED <<env, up, file, kernel>>
      PROVE  HostFile'
  <2>1. CASE update' = update
    BY <2>1, <1>4, HostFileSame
  <2>2. CASE update' # update
    <3> DEFINE r == [pc |-> "write", name |-> p, np |-> NewText(p, policies)]
    <3>1. file[p] # <<"none">> /\ update' = [update EXCEPT ![u] = r]
      <4>1. Draft(u, p, NewText(p, policies))
        BY <1>4, GenerateCases
      <4> QED BY <4>1, <2>2 DEF Draft
    <3>2. r.pc = "write" /\ r.name = p
      OBVIOUS
    <3> HIDE DEF r
    <3>3. \A v \in Updaters : update'[v] = IF v = u THEN r ELSE update[v]
      BY <3>1, <1>0, OnlyUpdater, Zenon
    <3>4. update[u].pc = "idle"
      BY <1>4 DEF MayUpdate
    <3>5. ~env.HostPolicy => p # Host
      BY <3>1 DEF HostFile
    <3>6. \A v \in Updaters : Doing(v, Host, {"load"}) => Doing(v, Host, {"load"})'
      BY <3>3, <3>4 DEF Doing
    <3>7. \A v \in Updaters : On(v, Host)' => On(v, Host) \/ (p = Host /\ v = u)
      BY <3>2, <3>3 DEF On
    <3>8. \A v \in Updaters : On(v, Host)' => update'[v].pc \in {"write", "load"}
      BY <3>2, <3>3 DEF On, HostFile
    <3> QED BY <3>5, <3>6, <3>7, <3>8, <1>4 DEF HostFile
  <2> QED BY <2>1, <2>2
<1>5. ASSUME NEW u \in Updaters, NEW p \in Profiles, NEW policies \in PolicySets, UpdateSecurityPolicies(u, p, policies)
      PROVE  HostFile'
  BY <1>4, <1>5, NameFacts DEF UpdateSecurityPolicies
<1>6. ASSUME NEW u \in Updaters, NEW policies \in PolicySets, UpdateHostSecurityPolicies(u, policies)
      PROVE  HostFile'
  BY <1>4, <1>6, NameFacts DEF UpdateHostSecurityPolicies
<1>7. ASSUME NEW u \in Updaters, WriteProfile(u) \/ LoadProfile(u) \/ DisableProfile(u) \/ EnforceProfile(u)
      PROVE  HostFile'
  <2> DEFINE p == update[u].name
  <2>1. up # "down" /\ UNCHANGED <<env, up>> /\ p \in Names
    BY <1>0, <1>7, CommandCases
  <2>2. PICK r : Effect(u, p, r)
    BY <1>0, <1>7, CommandCases
  <2>3. \A v \in Updaters : update'[v] = IF v = u THEN r ELSE update[v]
    BY <2>2, <1>0, OnlyUpdater, Zenon DEF Effect
  <2>4. update[u].pc # "idle" /\ (r.pc = "idle" \/ r.name = p)
    BY <2>2 DEF Effect
  <2>5. \A v \in Updaters : On(v, Host)' => On(v, Host)
    BY <2>3, <2>4 DEF On
  <2>6. CASE p # Host
    <3>1. file' = file \/ \E t : file' = [file EXCEPT ![p] = t]
      BY <2>2 DEF Effect
    <3>2. kernel' = kernel \/ \E t : kernel' = [kernel EXCEPT ![p] = t]
      BY <2>2, Zenon DEF Effect, Loaded, Unloaded
    <3>3. file'[Host] = file[Host] /\ kernel'[Host] = kernel[Host]
      BY <3>1, <3>2, <2>6, <1>0 DEF Shape
    <3>4. \A v \in Updaters : Doing(v, Host, {"load"}) => Doing(v, Host, {"load"})'
      BY <2>3, <2>6 DEF Doing
    <3>5. \A v \in Updaters : On(v, Host)' => update'[v] = update[v]
      BY <2>3, <2>4, <2>6 DEF On
    <3> QED BY <3>3, <3>4, <3>5, <2>1, <2>5, Zenon DEF HostFile
  <2>7. CASE p = Host
    <3>1. On(u, Host) /\ update[u].pc \in {"write", "load"} /\ env.HostPolicy
      BY <2>4, <2>7, <1>0 DEF On, HostFile
    <3>2. \/ r.pc = "load" /\ r.name = Host
          \/ r.pc = "idle" /\ file' = [file EXCEPT ![Host] = <<"empty">>]
      BY <2>2, <2>7, <3>1 DEF Effect
    <3>3. Doing(u, Host, {"load"})' \/ file'[Host] = <<"empty">>
      BY <2>3, <3>2, <1>0 DEF Doing, Shape
    <3>4. \A v \in Updaters : On(v, Host)' => update'[v].pc \in {"write", "load"}
      BY <2>3, <3>2, Zenon DEF On, HostFile
    <3> QED BY <3>1, <3>3, <3>4, <2>1, WordFacts DEF HostFile
  <2> QED BY <2>6, <2>7
<1>8. ASSUME NEW p \in Profiles, DestroyProfile(p) PROVE HostFile'
  <2>1. UNCHANGED <<env, up, update>>
    BY <1>8 DEF DestroyProfile
  <2>2. file' = file \/ \E t : file' = [file EXCEPT ![p] = t]
    BY <1>8 DEF DestroyProfile, system
  <2>3. kernel' = kernel \/ \E t : kernel' = [kernel EXCEPT ![p] = t]
    BY <1>8 DEF DestroyProfile, system, Loaded
  <2>4. file'[Host] = file[Host] /\ kernel'[Host] = kernel[Host]
    BY <2>2, <2>3, <1>0, NameFacts DEF Shape
  <2> QED BY <2>1, <2>4, HostFileSame
<1>9. CASE Crash \/ DestroyAppArmorEnforcer
  <2>1. up' = "down" /\ env' = env /\ \A u \in Updaters : update'[u].pc = "idle"
    BY <1>9 DEF Crash, DestroyAppArmorEnforcer, Idle
  <2>2. ~env.HostPolicy => UNCHANGED <<file, kernel>>
    BY <1>9 DEF Crash, DestroyAppArmorEnforcer, UnregisterAppArmorHostProfile, system
  <2> QED BY <2>1, <2>2, Zenon DEF HostFile, On
<1>10. CASE Reboot
  <2>1. up' = "down" /\ UNCHANGED <<env, file, update>> /\ (file[Host] = <<"none">> => kernel'[Host] = <<"none">>)
    BY <1>0, <1>10, WordFacts DEF Reboot, memory
  <2> QED BY <2>1 DEF HostFile, On
<1>11. CASE Stop
  BY <1>11, HostFileSame DEF Stop, system, memory
<1>12. ASSUME NEW q \in Pods, PodRuns(q) \/ PodExecs(q) \/ PodEnds(q) PROVE HostFile'
  BY <1>12, HostFileSame DEF PodRuns, PodExecs, PodEnds, system, memory
<1>13. CASE UNCHANGED vars
  BY <1>13, HostFileSame DEF vars, system, memory
<1> QED BY <1>1, <1>2, <1>3, <1>5, <1>6, <1>7, <1>8, <1>9, <1>10, <1>11, <1>12, <1>13
        DEF Next, ProfileCalls, ContainerCalls, HostCalls, Commands, Ends, Outside

(* Policies of the host are not on disk once they are applied, so that a machine that is
   rebooted comes up without them (ClearKubeArmorHostFile), also when updates overlap. *)
THEOREM HostPoliciesNotOnDisk == Spec => []HostFileCleared
<1>1. Life /\ (env.faults = {} => HostFile) /\ [Next]_vars => (Life /\ (env.faults = {} => HostFile))'
  <2> SUFFICES ASSUME Life, env.faults = {} => HostFile, [Next]_vars
               PROVE  Life' /\ (env'.faults = {} => HostFile')
    OBVIOUS
  <2> QED BY LifeNext, HostFileNext, EnvStays
<1>2. Life /\ (env.faults = {} => HostFile) => HostFileCleared
  BY DEF HostFile, HostFileCleared, Quiet, Doing
<1> QED BY <1>1, <1>2, LifeInit, HostFileInit, PTL DEF Spec
-----------------------------------------------------------------------------
(* Enforcement. *)

\* No command fails, and updates take turns.
Smooth == env.faults = {} /\ ~env.overlap

Tracked(p) == p \in DOMAIN AppArmorProfiles \/ pushed[p] # {} \/ \E q \in live : ProfileOf[q] = p

\* The text of policies is on its way to the file, or is there; the file is on its way to the
\* kernel, or is there.
InFile(p, policies) ==
  IF \E u \in Updaters : Doing(u, p, {"write"})
  THEN \A u \in Updaters : Doing(u, p, {"write"}) => update[u].np = Body(p, policies, Privileged)
  ELSE file[p] = Body(p, policies, Privileged)
Synced(p) == kernel[p] = file[p] /\ Of(p, SubprofilesOf(file[p])) \subseteq children
Follows(p) ==
  Tracked(p) =>
    /\ file[p][1] \notin {"none", "empty"}
    /\ \A policies \in pushed[p] : InFile(p, policies)
    /\ Managed(file[p]) => Synced(p) \/ \E u \in Updaters : Doing(u, p, {"write", "load", "enforce"})

\* The host's text is on its way to the file, in the file, or in the kernel.
HostFollows ==
  /\ file[Host] = <<"empty">> \/ \E u \in Updaters : Doing(u, Host, {"load"})
  /\ \A policies \in pushed[Host] : LET text == Body(Host, policies, Privileged) IN
       /\ \A u \in Updaters : Doing(u, Host, {"write"}) => update[u].np = text
       /\ \A u \in Updaters : Doing(u, Host, {"load"}) => file[Host] = text
       /\ (\A u \in Updaters : ~On(u, Host)) => kernel[Host] = text /\ Of(Host, SubprofilesOf(text)) \subseteq children

Enforcement ==
  (up = "up" /\ Smooth) => /\ \A p \in Profiles : Follows(p)
                           /\ env.HostPolicy => HostFollows

\* Sub-profiles of one profile are none of another's.
LEMMA OfFacts ==
  /\ \A p, n, S, T : p # n => Of(p, S) \cap Of(n, T) = {}
  /\ \A p : Of(p, {}) = {}
BY DEF Of

LEMMA TextFacts ==
  ASSUME Life, Registration, NEW p \in Names, NEW policies,
         p = Host \/ \E q \in live : ProfileOf[q] = p
  PROVE  NewText(p, policies) = Body(p, policies, Privileged)
<1>1. p \in Privileged => p \in AppArmorPrivilegedProfiles \/ p = Host
  BY NameFacts DEF Registration, Known
<1>2. AppArmorPrivilegedProfiles \subseteq Privileged
  BY DEF Life, Shape
<1>3. (p = Host \/ p \in AppArmorPrivilegedProfiles) = (p = Host \/ p \in Privileged)
  BY <1>1, <1>2
<1> QED BY <1>3 DEF NewText, Body

\* Nothing happens to a profile: what Follows and HostFollows look at stays as it is.
Left(n) ==
  /\ file'[n] = file[n] /\ kernel'[n] = kernel[n] /\ pushed'[n] = pushed[n]
  /\ \A S : Of(n, S) \subseteq children => Of(n, S) \subseteq children'
  /\ \A v \in Updaters : update'[v] = update[v] \/ (~On(v, n) /\ ~On(v, n)')

LEMMA FollowsLeft ==
  ASSUME NEW n \in Profiles, Follows(n), Left(n), Tracked(n)' => Tracked(n)
  PROVE  Follows(n)'
<1> SUFFICES ASSUME Tracked(n)' PROVE Follows(n)'
  BY DEF Follows
<1>1. \A v \in Updaters : Doing(v, n, {"write"})' = Doing(v, n, {"write"})
  BY DEF Left, On, Doing
<1>2. \A v \in Updaters : Doing(v, n, {"write", "load", "enforce"})' = Doing(v, n, {"write", "load", "enforce"})
  BY DEF Left, On, Doing
<1>3. \A v \in Updaters : Doing(v, n, {"write"}) => update'[v] = update[v]
  BY DEF Left, On, Doing
<1>4. \A policies \in pushed[n] : InFile(n, policies)'
  <2> SUFFICES ASSUME NEW policies \in pushed[n] PROVE InFile(n, policies)'
    OBVIOUS
  <2>1. InFile(n, policies)
    BY DEF Follows
  <2> QED BY <2>1, <1>1, <1>3, Zenon DEF InFile, Left
<1>5. Synced(n) => Synced(n)'
  BY DEF Synced, Left
<1> QED BY <1>2, <1>4, <1>5, Zenon DEF Follows, Left

LEMMA HostFollowsLeft ==
  ASSUME HostFollows, Left(Host)
  PROVE  HostFollows'
<1>1. \A v \in Updaters : /\ Doing(v, Host, {"write"})' = Doing(v, Host, {"write"})
                          /\ Doing(v, Host, {"load"})' = Doing(v, Host, {"load"})
                          /\ On(v, Host)' = On(v, Host)
                          /\ Doing(v, Host, {"write"}) => update'[v] = update[v]
  BY DEF Left, On, Doing
<1>2. file'[Host] = <<"empty">> \/ \E u \in Updaters : Doing(u, Host, {"load"})'
  BY <1>1, Zenon DEF HostFollows, Left
<1>3. ASSUME NEW policies \in pushed[Host], NEW text, text = Body(Host, policies, Privileged)
      PROVE  /\ \A u \in Updaters : Doing(u, Host, {"write"})' => update'[u].np = text
             /\ \A u \in Updaters : Doing(u, Host, {"load"})' => file'[Host] = text
             /\ (\A u \in Updaters : ~On(u, Host)') => kernel'[Host] = text /\ Of(Host, SubprofilesOf(text)) \subseteq children'
  <2>1. /\ \A u \in Updaters : Doing(u, Host, {"write"}) => update[u].np = text
        /\ \A u \in Updaters : Doing(u, Host, {"load"}) => file[Host] = text
        /\ (\A u \in Updaters : ~On(u, Host)) => kernel[Host] = text /\ Of(Host, SubprofilesOf(text)) \subseteq children
    BY <1>3 DEF HostFollows
  <2>2. \A u \in Updaters : Doing(u, Host, {"write"})' => update'[u].np = text
    BY <2>1, <1>1, Zenon
  <2>3. \A u \in Updaters : Doing(u, Host, {"load"})' => file'[Host] = text
    BY <2>1, <1>1, Zenon DEF Left
  <2>4. (\A u \in Updaters : ~On(u, Host)') => kernel'[Host] = text /\ Of(Host, SubprofilesOf(text)) \subseteq children'
    BY <2>1, <1>1, Zenon DEF Left
  <2> QED BY <2>2, <2>3, <2>4, Zenon
<1> QED BY <1>2, <1>3, Zenon DEF HostFollows, Left

LEMMA EnforcementPodAdded ==
  ASSUME Life, Registration, Enforcement, NEW q \in Pods, PodAdded(q)
  PROVE  Enforcement'
<1> DEFINE p == ProfileOf[q]
<1>1. Shape /\ p \in Profiles /\ p \in Names /\ p # Host
  BY NameFacts DEF Life
<1>2. up = "up" /\ live' = live \cup {q} /\ UNCHANGED <<env, up, running, starts, update>>
  BY <1>1, PodAddedCases, Zenon
<1> SUFFICES ASSUME Smooth PROVE (\A n \in Profiles : Follows(n)') /\ (env.HostPolicy => HostFollows')
  BY <1>2 DEF Enforcement, Smooth
<1>3. (\A n \in Profiles : Follows(n)) /\ (env.HostPolicy => HostFollows) /\ env.faults = {}
  BY <1>2 DEF Enforcement, Smooth
<1>4. file[p][1] # "empty"
  BY <1>1, <1>3 DEF Registration, Marks
<1>5. CASE OutOfControl(file[p])
  <2>1. UNCHANGED <<file, kernel, children, AppArmorProfiles, AppArmorPrivilegedProfiles, pushed>>
    BY <1>1, <1>5, PodAddedCases, Zenon
  <2>2. \A n \in Names : Left(n)
    BY <2>1, <1>2 DEF Left
  <2>3. \A n \in Profiles : n # p => (Tracked(n)' => Tracked(n))
    BY <2>1, <1>2 DEF Tracked
  <2>4. Follows(p)'
    <3>1. CASE Tracked(p)
      BY <3>1, <2>2, <1>1, <1>3, FollowsLeft
    <3>2. CASE ~Tracked(p)
      <4>1. pushed'[p] = {}
        BY <3>2, <2>1 DEF Tracked
      <4>2. file'[p][1] = "foreign"
        BY <2>1, <1>4, <1>5 DEF OutOfControl
      <4> QED BY <4>1, <4>2 DEF Follows, Managed
    <3> QED BY <3>1, <3>2
  <2> QED BY <2>2, <2>3, <2>4, <1>1, <1>3, NameFacts, FollowsLeft, HostFollowsLeft
<1>6. CASE ~OutOfControl(file[p]) /\ p \in DOMAIN AppArmorProfiles
  <2>1. UNCHANGED <<file, kernel, children, AppArmorPrivilegedProfiles, pushed>> /\ DOMAIN AppArmorProfiles' = DOMAIN AppArmorProfiles
    BY <1>1, <1>6, PodAddedCases
  <2>2. \A n \in Names : Left(n)
    BY <2>1, <1>2, Zenon DEF Left
  <2>3. \A n \in Profiles : Tracked(n)' => Tracked(n)
    BY <2>1, <1>2, <1>6, Zenon DEF Tracked
  <2> QED BY <2>2, <2>3, <1>1, <1>3, NameFacts, FollowsLeft, HostFollowsLeft
<1>7. CASE ~OutOfControl(file[p]) /\ p \notin DOMAIN AppArmorProfiles
  <2> DEFINE D == Default(p, AppArmorPrivilegedProfiles')
  <2>1. /\ file' = [file EXCEPT ![p] = D] /\ kernel' = [kernel EXCEPT ![p] = D] /\ children' = children
        /\ DOMAIN AppArmorProfiles' = DOMAIN AppArmorProfiles \cup {p} /\ pushed' = [pushed EXCEPT ![p] = {}]
    BY <1>1, <1>3, <1>7, PodAddedCases
  <2>2. D[1] = "default"
    BY DEF Default
  <2> HIDE DEF D, p
  <2>3. \A n \in Names : n # p => Left(n)
    BY <2>1, <1>1, <1>2, Zenon DEF Left, Shape
  <2>4. \A n \in Profiles : n # p => (Tracked(n)' => Tracked(n))
    BY <2>1, <1>1, <1>2, NameFacts DEF Tracked, Shape, p
  <2>5. file'[p] = D /\ kernel'[p] = D /\ pushed'[p] = {}
    BY <2>1, <1>1 DEF Shape
  <2>6. Follows(p)'
    <3>1. SubprofilesOf(D) = {}
      BY <2>2 DEF SubprofilesOf
    <3>2. Synced(p)'
      BY <3>1, <2>5, OfFacts DEF Synced
    <3> QED BY <3>2, <2>2, <2>5, Zenon DEF Follows
  <2> QED BY <2>3, <2>4, <2>6, <1>1, <1>3, NameFacts, FollowsLeft, HostFollowsLeft, Zenon
<1> QED BY <1>5, <1>6, <1>7

\* GenerateAppArmorProfile: the text last pushed is in the file already, or on its way.
LEMMA EnforcementGenerate ==
  ASSUME Life, Registration, HostFile, Enforcement, NEW u \in Updaters, NEW p \in Names, NEW policies,
         Generate(u, p, policies), MayUpdate(u), pushed' = [pushed EXCEPT ![p] = {policies}],
         UNCHANGED <<env, up, file, kernel, AppArmorProfiles, AppArmorPrivilegedProfiles, live>>,
         p = Host \/ \E q \in live : ProfileOf[q] = p
  PROVE  Enforcement'
<1> DEFINE np == NewText(p, policies)
           r == [pc |-> "write", name |-> p, np |-> np]
<1> SUFFICES ASSUME up = "up", Smooth PROVE (\A n \in Profiles : Follows(n)') /\ (env.HostPolicy => HostFollows')
  BY DEF Enforcement, Smooth
<1>1. (\A n \in Profiles : Follows(n)) /\ (env.HostPolicy => HostFollows) /\ env.faults = {} /\ Shape
  BY DEF Enforcement, Smooth, Life
<1>2. \A v \in Updaters : update[v].pc = "idle"
  BY DEF MayUpdate, Smooth
<1>3. \/ (file[p] = <<"none">> \/ file[p] = np) /\ update' = update
      \/ file[p] # <<"none">> /\ file[p] # np /\ update' = [update EXCEPT ![u] = r]
  <2>1. Draft(u, p, NewText(p, policies))
    BY GenerateCases
  <2> QED BY <2>1 DEF Draft
<1>4. /\ children' \subseteq children
      /\ \A c \in children \ children' : p # Host /\ c \in Of(p, SubprofilesOf(file[p]) \ SubprofilesOf(np))
  <2>1. Dropping(p, NewText(p, policies))
    BY GenerateCases
  <2> QED BY <2>1 DEF Dropping
<1>5. np = Body(p, policies, Privileged) /\ np[1] = "body"
  BY TextFacts, BodyFacts
<1>6. r.pc = "write" /\ r.name = p /\ r.np = np
  OBVIOUS
<1> HIDE DEF np, r
<1>7. \A v \in Updaters : update'[v] = update[v] \/ (v = u /\ update'[v] = r)
  BY <1>1, <1>3 DEF Shape
<1>8. \A n \in Names : n # p => Left(n)
  <2> SUFFICES ASSUME NEW n \in Names, n # p PROVE Left(n)
    OBVIOUS
  <2>1. pushed'[n] = pushed[n]
    BY <1>1 DEF Shape
  <2>2. \A S : Of(n, S) \subseteq children => Of(n, S) \subseteq children'
    BY <1>4, OfFacts
  <2>3. \A v \in Updaters : update'[v] = update[v] \/ (~On(v, n) /\ ~On(v, n)')
    BY <1>2, <1>6, <1>7 DEF On
  <2> QED BY <2>1, <2>2, <2>3, Zenon DEF Left
<1>9. \A n \in Profiles : n # p => (Tracked(n)' => Tracked(n))
  <2>1. \A n \in Profiles : n # p => pushed'[n] = pushed[n]
    BY <1>1, NameFacts DEF Shape
  <2> QED BY <2>1 DEF Tracked
<1>10. pushed'[p] = {policies}
  BY <1>1 DEF Shape
<1>11. CASE p # Host
  <2>1. Tracked(p) /\ p \in Profiles
    BY <1>11 DEF Tracked, Names
  <2>2. file[p][1] \notin {"none", "empty"} /\ file[p] # <<"none">>
    BY <2>1, <1>1, WordFacts, Zenon DEF Follows
  <2>3. CASE file[p] = np /\ update' = update
    <3>1. children' = children
      <4>1. SubprofilesOf(file[p]) \ SubprofilesOf(np) = {}
        BY <2>3
      <4> QED BY <4>1, <1>4, OfFacts, Zenon
    <3>2. InFile(p, policies)'
      BY <2>3, <1>2, <1>5 DEF InFile, Doing
    <3>3. Managed(file[p]) => Synced(p)
      BY <2>1, <1>1, <1>2 DEF Follows, Doing
    <3>4. Managed(file'[p]) => Synced(p)'
      BY <3>1, <3>3 DEF Synced
    <3>5. Follows(p)'
      BY <3>2, <3>4, <2>2, <1>10 DEF Follows
    <3> QED BY <3>5, <1>1, <1>8, <1>9, <1>11, NameFacts, FollowsLeft, HostFollowsLeft, Zenon
  <2>4. CASE update' = [update EXCEPT ![u] = r]
    <3>1. \A v \in Updaters : update'[v] = IF v = u THEN r ELSE update[v]
      BY <2>4, <1>1, OnlyUpdater, Zenon
    <3>2. Doing(u, p, {"write"})' /\ Doing(u, p, {"write", "load", "enforce"})'
      BY <3>1, <1>6 DEF Doing
    <3>3. InFile(p, policies)'
      BY <3>1, <3>2, <1>2, <1>5, <1>6 DEF InFile, Doing
    <3>4. Follows(p)'
      BY <3>2, <3>3, <2>2, <1>10, Zenon DEF Follows
    <3> QED BY <3>4, <1>1, <1>8, <1>9, <1>11, NameFacts, FollowsLeft, HostFollowsLeft
  <2> QED BY <2>2, <2>3, <2>4, <1>3
<1>12. CASE p = Host
  <2>1. \A n \in Profiles : Follows(n)'
    BY <1>1, <1>8, <1>9, <1>12, NameFacts, FollowsLeft
  <2>2. ASSUME env.HostPolicy PROVE HostFollows'
    <3>1. file[Host] = <<"empty">>
      BY <2>2, <1>1, <1>2, Zenon DEF HostFollows, Doing
    <3>2. file[Host] # <<"none">> /\ file[Host] # np
      BY <3>1, <1>5, WordFacts
    <3>3. update' = [update EXCEPT ![u] = r]
      BY <3>2, <1>3, <1>12
    <3>4. \A v \in Updaters : update'[v] = IF v = u THEN r ELSE update[v]
      BY <3>3, <1>1, OnlyUpdater, Zenon
    <3>5. On(u, Host)'
      BY <3>4, <1>6, <1>12 DEF On
    <3>6. \A v \in Updaters : /\ Doing(v, Host, {"write"})' => update'[v].np = np
                              /\ ~Doing(v, Host, {"load"})'
      BY <3>4, <1>2, <1>6 DEF Doing
    <3> QED BY <3>1, <3>5, <3>6, <1>5, <1>10, <1>12, Zenon DEF HostFollows
  <2> QED BY <2>1, <2>2
<1> QED BY <1>11, <1>12

\* A command that is over has brought the text one step further, and the other profiles are
\* left alone.
LEMMA EnforcementCommand ==
  ASSUME Life, Registration, HostFile, Enforcement, NEW u \in Updaters,
         WriteProfile(u) \/ LoadProfile(u) \/ DisableProfile(u) \/ EnforceProfile(u)
  PROVE  Enforcement'
<1>0. PICK p : p = update[u].name
  OBVIOUS
<1> USE <1>0
<1>1. Shape /\ p \in Names /\ UNCHANGED <<env, up, AppArmorProfiles, live, pushed>>
  BY CommandCases DEF Life
<1> SUFFICES ASSUME up = "up", Smooth PROVE (\A n \in Profiles : Follows(n)') /\ (env.HostPolicy => HostFollows')
  BY <1>1 DEF Enforcement, Smooth
<1>2. (\A n \in Profiles : Follows(n)) /\ (env.HostPolicy => HostFollows) /\ env.faults = {} /\ ~env.overlap
  BY DEF Enforcement, Smooth
<1>3. PICK r : Effect(u, p, r)
  BY <1>1, CommandCases
<1>4. \A v \in Updaters : update'[v] = IF v = u THEN r ELSE update[v]
  BY <1>1, <1>3, OnlyUpdater, Zenon DEF Effect
<1>5. update[u].pc # "idle" /\ (r.pc = "idle" \/ r.name = p)
  BY <1>3 DEF Effect
<1>6. \A v \in Updaters : v # u => update[v].pc = "idle"
  BY <1>2, <1>5 DEF Life, Turns
<1>7. \A n \in Names : n # p => Left(n)
  <2> SUFFICES ASSUME NEW n \in Names, n # p PROVE Left(n)
    OBVIOUS
  <2>1. file' = file \/ \E t : file' = [file EXCEPT ![p] = t]
    BY <1>3, Zenon DEF Effect
  <2>2. kernel' = kernel \/ \E t : kernel' = [kernel EXCEPT ![p] = t]
    BY <1>3, Zenon DEF Effect, Loaded, Unloaded
  <2>3. \E S : children \ Of(p, S) \subseteq children'
    BY <1>3, Zenon DEF Effect, Loaded, Unloaded
  <2>4. file'[n] = file[n] /\ kernel'[n] = kernel[n] /\ pushed'[n] = pushed[n]
    BY <2>1, <2>2, <1>1 DEF Shape
  <2>5. \A S : Of(n, S) \subseteq children => Of(n, S) \subseteq children'
    BY <2>3, OfFacts
  <2>6. \A v \in Updaters : update'[v] = update[v] \/ (~On(v, n) /\ ~On(v, n)')
    BY <1>4, <1>5 DEF On
  <2> QED BY <2>4, <2>5, <2>6, Zenon DEF Left
<1>8. \A n \in Profiles : Tracked(n)' => Tracked(n)
  BY <1>1 DEF Tracked
<1>9. update[u].pc = "write" => update[u].np[1] = "body"
  BY DEF Registration, Drafts
<1>10. CASE p # Host
  <2>1. p \in Profiles /\ Follows(p)
    BY <1>1, <1>2, <1>10 DEF Names
  <2>0. (\A n \in Profiles : n # p => Follows(n)') /\ (env.HostPolicy => HostFollows')
    BY <1>2, <1>7, <1>8, <1>10, NameFacts, FollowsLeft, HostFollowsLeft
  <2> SUFFICES ASSUME Tracked(p) PROVE Follows(p)'
    BY <2>1, <2>0, <1>8, Zenon DEF Follows
  <2>2. \A policies \in pushed[p] : InFile(p, policies)
    BY <2>1, Zenon DEF Follows
  <2>3. CASE update[u].pc = "write"
    <3>1. file' = [file EXCEPT ![p] = update[u].np] /\ r.pc = "load" /\ r.name = p
      BY <2>3, <1>2, <1>3, Zenon DEF Effect
    <3>2. file'[p] = update[u].np
      BY <3>1, <1>1 DEF Shape
    <3>3. \A policies \in pushed[p] : update[u].np = Body(p, policies, Privileged)
      BY <2>2, <2>3 DEF InFile, Doing
    <3>4. \A v \in Updaters : ~Doing(v, p, {"write"})'
      BY <3>1, <1>4, <1>6 DEF Doing
    <3>5. \A policies \in pushed[p] : InFile(p, policies)'
      BY <3>2, <3>3, <3>4 DEF InFile
    <3>6. Doing(u, p, {"write", "load", "enforce"})'
      BY <3>1, <1>4 DEF Doing
    <3> QED BY <3>2, <3>5, <3>6, <2>3, <1>1, <1>9 DEF Follows
  <2>4. CASE update[u].pc # "write"
    <3>1. file' = file /\ r.pc # "write"
      BY <2>4, <1>3, <1>10, Zenon DEF Effect
    <3>2. \A v \in Updaters : ~Doing(v, p, {"write"}) /\ ~Doing(v, p, {"write"})'
      BY <3>1, <2>4, <1>4, <1>6, Zenon DEF Doing
    <3>3. \A policies \in pushed[p] : InFile(p, policies)'
      BY <3>1, <3>2, <2>2 DEF InFile
    <3>4. Managed(file[p]) => Synced(p)' \/ Doing(u, p, {"write", "load", "enforce"})'
      <4> SUFFICES ASSUME Managed(file[p]) PROVE Synced(p)' \/ Doing(u, p, {"write", "load", "enforce"})'
        OBVIOUS
      <4>1. CASE Loaded(p, file[p])
        <5>1. kernel'[p] = file[p] /\ Of(p, SubprofilesOf(file[p])) \subseteq children'
          BY <4>1, <1>1 DEF Loaded, Shape
        <5> QED BY <5>1, <3>1, Zenon DEF Synced
      <4>2. CASE r.pc = "enforce"
        BY <4>2, <1>4, <1>5 DEF Doing
      <4> QED BY <4>1, <4>2, <2>4, <1>2, <1>3, Zenon DEF Effect
    <3> QED BY <3>1, <3>3, <3>4, <2>1, <1>1, Zenon DEF Follows
  <2> QED BY <2>3, <2>4
<1>11. CASE p = Host
  <2>1. \A n \in Profiles : Follows(n)'
    BY <1>2, <1>7, <1>8, <1>11, NameFacts, FollowsLeft
  <2>2. On(u, Host) /\ env.HostPolicy \in BOOLEAN
    BY <1>1, <1>5, <1>11, EnvFacts DEF On, Shape
  <2>3. env.HostPolicy /\ update[u].pc \in {"write", "load"}
    BY <2>2, Zenon DEF HostFile
  <2>4. HostFollows
    BY <2>3, <1>2
  <2>5. CASE update[u].pc = "write"
    <3>1. file' = [file EXCEPT ![Host] = update[u].np] /\ r.pc = "load" /\ r.name = Host
      BY <2>5, <1>2, <1>3, <1>11, Zenon DEF Effect
    <3>2. file'[Host] = update[u].np
      BY <3>1, <1>1, <1>11 DEF Shape
    <3>3. Doing(u, Host, {"load"})' /\ On(u, Host)'
      BY <3>1, <1>4, Zenon DEF Doing, On
    <3>4. \A v \in Updaters : ~Doing(v, Host, {"write"})'
      BY <3>1, <1>4, <1>6 DEF Doing
    <3>5. \A policies \in pushed[Host] : update[u].np = Body(Host, policies, Privileged)
      BY <2>4, <2>5, <1>11, Zenon DEF HostFollows, Doing
    <3>6. HostFollows'
      BY <3>2, <3>3, <3>4, <3>5, <1>1, Zenon DEF HostFollows
    <3> QED BY <3>6, <2>1
  <2>6. CASE update[u].pc = "load"
    <3>1. Loaded(Host, file[Host]) /\ file' = [file EXCEPT ![Host] = <<"empty">>] /\ r.pc = "idle"
      BY <2>6, <1>2, <1>3, <1>11 DEF Effect
    <3>2. file'[Host] = <<"empty">>
      BY <3>1, <1>1, <1>11 DEF Shape
    <3>3. \A v \in Updaters : ~On(v, Host)' /\ ~Doing(v, Host, {"write"})' /\ ~Doing(v, Host, {"load"})'
      BY <3>1, <1>4, <1>6, Zenon DEF On, Doing
    <3>4. \A policies \in pushed[Host] : file[Host] = Body(Host, policies, Privileged)
      BY <2>4, <2>6, <1>11, Zenon DEF HostFollows, Doing
    <3>5. \A policies \in pushed[Host] : /\ kernel'[Host] = Body(Host, policies, Privileged)
                                         /\ Of(Host, SubprofilesOf(Body(Host, policies, Privileged))) \subseteq children'
      <4> SUFFICES ASSUME NEW policies \in pushed[Host], NEW text, text = Body(Host, policies, Privileged)
                   PROVE  kernel'[Host] = text /\ Of(Host, SubprofilesOf(text)) \subseteq children'
        OBVIOUS
      <4>1. file[Host] = text /\ Managed(text)
        BY <3>4, BodyFacts
      <4> QED BY <4>1, <3>1, <1>1, NameFacts DEF Loaded, Shape
    <3>6. HostFollows'
      BY <3>2, <3>3, <3>5, <1>1, Zenon DEF HostFollows
    <3> QED BY <3>6, <2>1
  <2> QED BY <2>3, <2>5, <2>6
<1> QED BY <1>10, <1>11

LEMMA EnforcementInit == Init => Enforcement
BY DEF Init, Enforcement

LEMMA EnforcementSame ==
  ASSUME Enforcement, UNCHANGED <<env, up, file, kernel, children, pushed, update>>,
         DOMAIN AppArmorProfiles' \subseteq DOMAIN AppArmorProfiles, live' \subseteq live
  PROVE  Enforcement'
<1> SUFFICES ASSUME up = "up", Smooth PROVE (\A n \in Profiles : Follows(n)') /\ (env.HostPolicy => HostFollows')
  BY DEF Enforcement, Smooth
<1>1. \A n \in Names : Left(n)
  BY DEF Left
<1>2. \A n \in Profiles : Tracked(n)' => Tracked(n)
  BY DEF Tracked
<1> QED BY <1>1, <1>2, NameFacts, FollowsLeft, HostFollowsLeft, Zenon DEF Enforcement

LEMMA EnforcementNext ==
  ASSUME Life, env.faults = {} => Registration /\ HostFile, Enforcement, [Next]_vars
  PROVE  Enforcement'
<1>0. Shape /\ env' = env
  BY EnvStays DEF Life
<1> SUFFICES ASSUME env.faults = {}, ~env.overlap, up' = "up" PROVE Enforcement'
  BY <1>0 DEF Enforcement, Smooth
<1>1. CASE NewAppArmorEnforcer
  <2>1. DOMAIN AppArmorProfiles' = {} /\ live' = {} /\ pushed' = [n \in Names |-> {}] /\ update' = update /\ Quiet
    BY <1>0, <1>1, StartCases DEF Life, Turns
  <2>2. \A n \in Names : pushed'[n] = {}
    BY <2>1
  <2>3. \A n \in Profiles : ~Tracked(n)'
    BY <2>1, <2>2, NameFacts DEF Tracked
  <2>4. env.HostPolicy => file'[Host] = <<"empty">>
    BY <1>0, <1>1, StartCases, Zenon
  <2>5. env.HostPolicy => HostFollows'
    BY <2>2, <2>4, NameFacts, Zenon DEF HostFollows
  <2> QED BY <2>3, <2>5, <1>0, Zenon DEF Enforcement, Follows
<1>2. ASSUME NEW q \in Pods, PodAdded(q) PROVE Enforcement'
  BY <1>2, EnforcementPodAdded
<1>3. ASSUME NEW q \in Pods, PodDeleted(q) PROVE Enforcement'
  <2>1. /\ UNCHANGED <<env, up, file, kernel, children, pushed, update>>
        /\ DOMAIN AppArmorProfiles' = DOMAIN AppArmorProfiles /\ live' \subseteq live
    BY <1>3 DEF PodDeleted, UnregisterAppArmorProfile, system
  <2> QED BY <2>1, EnforcementSame
<1>4. ASSUME NEW u \in Updaters, NEW p \in Profiles, NEW policies \in PolicySets, UpdateSecurityPolicies(u, p, policies)
      PROVE  Enforcement'
  BY <1>4, EnforcementGenerate, NameFacts, Zenon DEF UpdateSecurityPolicies, cluster
<1>5. ASSUME NEW u \in Updaters, NEW policies \in PolicySets, UpdateHostSecurityPolicies(u, policies)
      PROVE  Enforcement'
  BY <1>5, EnforcementGenerate, NameFacts, Zenon DEF UpdateHostSecurityPolicies, cluster
<1>6. ASSUME NEW u \in Updaters, WriteProfile(u) \/ LoadProfile(u) \/ DisableProfile(u) \/ EnforceProfile(u)
      PROVE  Enforcement'
  BY <1>6, EnforcementCommand
<1>7. \A p \in Profiles : ~DestroyProfile(p)
  BY DEF DestroyProfile
<1>8. ~Crash /\ ~DestroyAppArmorEnforcer /\ ~Reboot /\ ~Stop
  BY DEF Crash, DestroyAppArmorEnforcer, Reboot, Stop
<1>9. ASSUME NEW q \in Pods, PodRuns(q) \/ PodExecs(q) \/ PodEnds(q) PROVE Enforcement'
  BY <1>9, EnforcementSame DEF PodRuns, PodExecs, PodEnds, system, memory
<1>10. CASE UNCHANGED vars
  BY <1>10, EnforcementSame, Zenon DEF vars, system, memory, cluster
<1> QED BY <1>1, <1>2, <1>3, <1>4, <1>5, <1>6, <1>7, <1>8, <1>9, <1>10
        DEF Next, ProfileCalls, ContainerCalls, HostCalls, Commands, Ends, Outside

\* What is needed of the layers below when no command fails.
Layers == Life /\ (env.faults = {} => Registration /\ HostFile)

LEMMA LayersHold == ASSUME ForeignPlain PROVE Spec => []Layers
<1>1. Init => Layers
  BY LifeInit, RegistrationInit, HostFileInit DEF Layers
<1>2. Layers /\ [Next]_vars => Layers'
  <2> SUFFICES ASSUME Layers, [Next]_vars PROVE Layers'
    OBVIOUS
  <2>1. env.faults = {} => Orderly
    BY DEF Orderly
  <2> QED BY <2>1, LifeNext, RegistrationNext, HostFileNext, EnvStays DEF Layers
<1> QED BY <1>1, <1>2, PTL DEF Spec

(* RulesEnforced: between two updates the kernel has, for every profile the daemon pushed
   policies to (UpdateSecurityPolicies, UpdateHostSecurityPolicies), the profile of the last
   ones and its sub-profiles, whatever pods came and went and however often it was started. *)
THEOREM PoliciesInKernel == ASSUME ForeignPlain PROVE Spec => []RulesEnforced
<1>1. Spec => [](Layers /\ Enforcement)
  <2>1. Init => Enforcement
    BY EnforcementInit
  <2>2. Layers /\ Enforcement /\ [Next]_vars => Enforcement'
    BY EnforcementNext DEF Layers
  <2> QED BY <2>1, <2>2, LayersHold, PTL DEF Spec
<1>2. Layers /\ Enforcement => RulesEnforced
  <2> SUFFICES ASSUME Layers, Enforcement, up = "up", Quiet, env.faults = {}, ~env.overlap,
                      NEW n \in Names, n # Host \/ env.HostPolicy, NEW policies \in pushed[n], NEW text, text = Body(n, policies, Privileged)
               PROVE  kernel[n] = text /\ Of(n, SubprofilesOf(text)) \subseteq children
    BY DEF RulesEnforced
  <2>1. \A u \in Updaters : \A pcs : "idle" \notin pcs => ~Doing(u, n, pcs) /\ ~On(u, n)
    BY DEF Quiet, Doing, On
  <2>2. CASE n # Host
    <3>1. Follows(n) /\ Tracked(n)
      BY <2>2, Zenon DEF Enforcement, Smooth, Names, Tracked
    <3>2. file[n] = text
      BY <3>1, <2>1 DEF Follows, InFile
    <3>3. Managed(text)
      BY BodyFacts
    <3> QED BY <3>1, <3>2, <3>3, <2>1, Zenon DEF Follows, Synced
  <2>3. CASE n = Host
    BY <2>1, <2>3, Zenon DEF Enforcement, Smooth, HostFollows
  <2> QED BY <2>2, <2>3
<1> QED BY <1>1, <1>2, PTL
-----------------------------------------------------------------------------
(* Exactness. *)

\* Nobody else has a profile of a pod's name.
NoForeign == \A q \in Pods : ProfileOf[q] \notin Foreign

\* A daemon that is started once, and that nothing goes wrong with.
Single == Smooth /\ env.starts = 1

\* A sub-profile is one of the text that is being written, or of the file.
SubIn(c) ==
  IF \E u \in Updaters : Doing(u, c[1], {"write"})
  THEN \A u \in Updaters : Doing(u, c[1], {"write"}) => c[2] \in SubprofilesOf(update[u].np)
  ELSE c[2] \in SubprofilesOf(file[c[1]])

Exact ==
  /\ starts = 0 => children = {} /\ DOMAIN AppArmorProfiles = {}
  /\ \A c \in children : c = <<c[1], c[2]>>
  /\ \A p \in DOMAIN AppArmorProfiles : Managed(file[p])
  /\ \A u \in Updaters : \A p \in Profiles : On(u, p) => p \in DOMAIN AppArmorProfiles
  /\ up = "up" => /\ \A c \in children : c[1] \in Profiles => c[1] \in DOMAIN AppArmorProfiles /\ SubIn(c)
                  /\ \A q \in live : ProfileOf[q] \in DOMAIN AppArmorProfiles
  /\ \A p \in Profiles \ DOMAIN AppArmorProfiles : kernel[p][1] # "body"
  /\ up = "down" => kernel[Host][1] # "body"

LEMMA ExactInit == Init => Exact
BY NameFacts, WordFacts DEF Init, Exact, On, Idle

LEMMA ExactSame ==
  ASSUME Exact, UNCHANGED <<file, kernel, children, update, starts>>, up' = up \/ up' = "stopping",
         DOMAIN AppArmorProfiles' = DOMAIN AppArmorProfiles, live' \subseteq live
  PROVE  Exact'
<1>1. \A c \in children : SubIn(c) => SubIn(c)'
  BY Zenon DEF SubIn, Doing
<1> QED BY <1>1 DEF Exact, On

LEMMA ExactPodAdded ==
  ASSUME Life, Registration, Exact, NoForeign, env.faults = {}, NEW q \in Pods, PodAdded(q)
  PROVE  Exact'
<1> DEFINE p == ProfileOf[q]
<1>1. Shape /\ p \in Profiles /\ p \in Names /\ p # Host
  BY NameFacts DEF Life
<1>2. up = "up" /\ live' = live \cup {q} /\ UNCHANGED <<env, up, running, starts, update>>
  BY <1>1, PodAddedCases, Zenon
<1>3. ~OutOfControl(file[p])
  BY <1>1 DEF Registration, Marks, OutOfControl, NoForeign
<1>4. CASE p \in DOMAIN AppArmorProfiles
  <2>1. UNCHANGED <<file, kernel, children>> /\ DOMAIN AppArmorProfiles' = DOMAIN AppArmorProfiles
    BY <1>1, <1>3, <1>4, PodAddedCases, Zenon
  <2>2. \A c \in children : SubIn(c) => SubIn(c)'
    BY <2>1, <1>2 DEF SubIn, Doing
  <2> QED BY <2>1, <2>2, <1>2, <1>4 DEF Exact, On
<1>5. CASE p \notin DOMAIN AppArmorProfiles
  <2> DEFINE D == Default(p, AppArmorPrivilegedProfiles')
  <2>1. /\ file' = [file EXCEPT ![p] = D] /\ kernel' = [kernel EXCEPT ![p] = D] /\ children' = children
        /\ DOMAIN AppArmorProfiles' = DOMAIN AppArmorProfiles \cup {p}
    BY <1>1, <1>3, <1>5, PodAddedCases, Zenon
  <2>2. D[1] = "default"
    BY DEF Default
  <2> HIDE DEF D
  <2>3. \A n \in Names : n # p => file'[n] = file[n] /\ kernel'[n] = kernel[n]
    BY <2>1, <1>1, Zenon DEF Shape
  <2>4. file'[p] = D /\ Managed(D)
    BY <2>1, <2>2, <1>1 DEF Shape, Managed
  <2>5. \A c \in children : c[1] \in Profiles => c[1] # p /\ SubIn(c)
    BY <1>2, <1>5 DEF Exact
  <2>6. \A c \in children : c[1] \in Profiles => SubIn(c)'
    BY <2>3, <2>5, <1>2, NameFacts DEF SubIn, Doing
  <2>7. \A n \in DOMAIN AppArmorProfiles' : Managed(file'[n])
    BY <2>1, <2>3, <2>4, <1>1, NameFacts, Zenon DEF Exact, Shape
  <2>8. \A n \in Profiles \ DOMAIN AppArmorProfiles' : kernel'[n][1] # "body"
    BY <2>1, <2>3, NameFacts DEF Exact
  <2>9. starts' # 0
    BY <1>2 DEF Life, Fresh
  <2>10. \A u \in Updaters : \A n \in Profiles : On(u, n)' => n \in DOMAIN AppArmorProfiles'
    BY <2>1, <1>2 DEF Exact, On
  <2>11. \A r \in live' : ProfileOf[r] \in DOMAIN AppArmorProfiles'
    BY <2>1, <1>2 DEF Exact
  <2>12. \A c \in children' : c = <<c[1], c[2]>> /\ (c[1] \in Profiles => c[1] \in DOMAIN AppArmorProfiles' /\ SubIn(c)')
    BY <2>1, <2>6, <1>2 DEF Exact
  <2> QED BY <2>7, <2>8, <2>9, <2>10, <2>11, <2>12, <1>2 DEF Exact
<1> QED BY <1>4, <1>5

\* GenerateAppArmorProfile unloads the sub-profiles that the new text does not have.
LEMMA ExactGenerate ==
  ASSUME Life, Exact, Single, NEW u \in Updaters, NEW p \in Names, NEW policies, Generate(u, p, policies), MayUpdate(u),
         UNCHANGED <<env, up, file, kernel, AppArmorProfiles, AppArmorPrivilegedProfiles, live, starts>>,
         p = Host \/ \E q \in live : ProfileOf[q] = p
  PROVE  Exact'
<1> DEFINE np == NewText(p, policies)
           r == [pc |-> "write", name |-> p, np |-> np]
<1>1. Shape /\ up = "up" /\ \A v \in Updaters : update[v].pc = "idle"
  BY DEF Life, MayUpdate, Single, Smooth
<1>2. \/ (file[p] = <<"none">> \/ file[p] = np) /\ update' = update
      \/ file[p] # <<"none">> /\ file[p] # np /\ update' = [update EXCEPT ![u] = r]
  <2>1. Draft(u, p, NewText(p, policies))
    BY GenerateCases
  <2> QED BY <2>1, Zenon DEF Draft
<1>3. /\ children' \subseteq children
      /\ p # Host /\ file[p] # <<"none">> /\ file[p] # np =>
           \A c \in children' : c \notin Of(p, SubprofilesOf(file[p]) \ SubprofilesOf(np))
  <2>1. Dropping(p, NewText(p, policies))
    BY GenerateCases
  <2> QED BY <2>1, Zenon DEF Dropping, Single, Smooth
<1>4. r.pc = "write" /\ r.name = p /\ r.np = np
  OBVIOUS
<1>5. p # Host => p \in DOMAIN AppArmorProfiles
  BY <1>1 DEF Exact
<1> HIDE DEF np, r
<1>6. \A v \in Updaters : update'[v] = update[v] \/ (v = u /\ update'[v] = r)
  BY <1>1, <1>2 DEF Shape
<1>7. children' \subseteq children
  BY <1>3
<1>8. \A c \in children : ~(\E v \in Updaters : Doing(v, c[1], {"write"}))
  BY <1>1 DEF Doing
<1>9. ASSUME NEW c \in children', c[1] \in Profiles PROVE SubIn(c)'
  <2>1. c \in children /\ c = <<c[1], c[2]>> /\ c[2] \in SubprofilesOf(file[c[1]])
    BY <1>1, <1>7, <1>8, <1>9 DEF Exact, SubIn
  <2>2. CASE c[1] = p /\ update' = [update EXCEPT ![u] = r]
    <3>1. \A v \in Updaters : update'[v] = IF v = u THEN r ELSE update[v]
      BY <2>2, <1>1 DEF Shape
    <3>2. p # Host /\ file[p] # <<"none">> /\ file[p] # np
      <4>1. p # Host
        BY <2>2, <1>9, NameFacts
      <4>2. update[u].pc = "idle" /\ update'[u].pc = "write"
        BY <3>1, <1>1, <1>4
      <4> QED BY <4>1, <4>2, <1>2
    <3>3. c \notin Of(p, SubprofilesOf(file[p]) \ SubprofilesOf(np))
      BY <3>2, <1>3, <1>9
    <3>4. c[2] \in SubprofilesOf(np)
      BY <3>3, <2>1, <2>2 DEF Of
    <3>5. \A v \in Updaters : Doing(v, c[1], {"write"})' <=> v = u
      BY <3>1, <2>2, <1>1, <1>4 DEF Doing
    <3> QED BY <3>1, <3>4, <3>5, <1>4, Zenon DEF SubIn
  <2>3. CASE ~(c[1] = p /\ update' = [update EXCEPT ![u] = r])
    <3>1. \A v \in Updaters : ~Doing(v, c[1], {"write"})'
      BY <2>3, <1>1, <1>2, <1>4, <1>6 DEF Doing
    <3> QED BY <3>1, <2>1 DEF SubIn
  <2> QED BY <2>2, <2>3
<1>10. \A v \in Updaters : \A n \in Profiles : On(v, n)' => n \in DOMAIN AppArmorProfiles
  BY <1>4, <1>5, <1>6, NameFacts DEF Exact, On
<1>11. \A c \in children' : c = <<c[1], c[2]>> /\ (c[1] \in Profiles => c[1] \in DOMAIN AppArmorProfiles)
  BY <1>1, <1>7 DEF Exact
<1>12. starts # 0
  BY <1>1 DEF Life, Fresh
<1> QED BY <1>1, <1>9, <1>10, <1>11, <1>12 DEF Exact

LEMMA ExactCommand ==
  ASSUME Life, Registration, HostFile, Exact, Single, NEW u \in Updaters,
         WriteProfile(u) \/ LoadProfile(u) \/ DisableProfile(u) \/ EnforceProfile(u)
  PROVE  Exact'
<1>0. PICK p : p = update[u].name
  OBVIOUS
<1> USE <1>0
<1>1. Shape /\ p \in Names /\ up # "down" /\ UNCHANGED <<env, up, AppArmorProfiles, live, starts>>
  BY CommandCases DEF Life
<1>2. PICK r : Effect(u, p, r)
  BY <1>1, CommandCases
<1>3. \A v \in Updaters : update'[v] = IF v = u THEN r ELSE update[v]
  BY <1>1, <1>2, OnlyUpdater, Zenon DEF Effect
<1>4. update[u].pc # "idle" /\ (r.pc = "idle" \/ r.name = p) /\ r.pc # "write"
  BY <1>2, Zenon DEF Effect
<1>5. \A v \in Updaters : v # u => update[v].pc = "idle"
  BY <1>4 DEF Life, Turns, Single, Smooth
<1>6. p = Host \/ p \in DOMAIN AppArmorProfiles
  BY <1>1, <1>4 DEF Exact, On, Names
<1>7. \A n \in Names : n # p => file'[n] = file[n] /\ kernel'[n] = kernel[n]
  <2>1. file' = file \/ \E t : file' = [file EXCEPT ![p] = t]
    BY <1>2, Zenon DEF Effect
  <2>2. kernel' = kernel \/ \E t : kernel' = [kernel EXCEPT ![p] = t]
    BY <1>2, Zenon DEF Effect, Loaded, Unloaded
  <2> QED BY <2>1, <2>2, <1>1 DEF Shape
<1>8. p # Host => \/ file'[p] = update[u].np /\ update[u].pc = "write" /\ children' = children
                  \/ file'[p] = file[p] /\ update[u].pc # "write"
  BY <1>1, <1>2 DEF Effect, Shape, Single, Smooth
<1>9. children' \subseteq children \cup Of(p, SubprofilesOf(file[p]))
  BY <1>2, Zenon DEF Effect, Loaded, Unloaded
<1>10. \A c \in Of(p, SubprofilesOf(file[p])) : c = <<c[1], c[2]>> /\ c[1] = p /\ c[2] \in SubprofilesOf(file[p])
  BY DEF Of
<1>11. \A v \in Updaters : \A n : ~Doing(v, n, {"write"})'
  BY <1>3, <1>4, <1>5 DEF Doing
<1>12. \A n \in DOMAIN AppArmorProfiles : Managed(file'[n])
  <2>1. update[u].pc = "write" => Managed(update[u].np)
    BY DEF Registration, Drafts, Managed
  <2> QED BY <2>1, <1>1, <1>6, <1>7, <1>8, NameFacts DEF Exact, Shape
<1>13. \A v \in Updaters : \A n \in Profiles : On(v, n)' => n \in DOMAIN AppArmorProfiles
  BY <1>3, <1>4, <1>6, NameFacts DEF Exact, On
<1>14. \A n \in Profiles \ DOMAIN AppArmorProfiles : kernel'[n][1] # "body"
  BY <1>6, <1>7, NameFacts DEF Exact
<1>15. \A c \in children' : c = <<c[1], c[2]>>
  BY <1>9, <1>10 DEF Exact
<1>16. ASSUME up = "up", NEW c \in children', c[1] \in Profiles
       PROVE  c[1] \in DOMAIN AppArmorProfiles /\ SubIn(c)'
  <2>1. CASE c[1] = p
    <3>1. p # Host
      BY <2>1, <1>16, NameFacts
    <3>2. CASE update[u].pc = "write"
      <4>1. c \in children /\ file'[p] = update[u].np
        BY <3>1, <3>2, <1>8, <1>16
      <4>2. Doing(u, c[1], {"write"}) /\ SubIn(c)
        BY <4>1, <3>2, <2>1, <1>16 DEF Doing, Exact
      <4>3. c[2] \in SubprofilesOf(file'[p])
        BY <4>1, <4>2 DEF SubIn
      <4> QED BY <4>3, <3>1, <2>1, <1>6, <1>11, Zenon DEF SubIn
    <3>3. CASE update[u].pc # "write"
      <4>1. file'[p] = file[p] /\ \A v \in Updaters : ~Doing(v, p, {"write"})
        BY <3>1, <3>3, <1>5, <1>8, Zenon DEF Doing
      <4>2. c[2] \in SubprofilesOf(file[p])
        BY <4>1, <2>1, <1>9, <1>10, <1>16 DEF SubIn, Exact
      <4> QED BY <4>1, <4>2, <3>1, <2>1, <1>6, <1>11 DEF SubIn
    <3> QED BY <3>2, <3>3
  <2>2. CASE c[1] # p
    <3>1. c \in children
      BY <2>2, <1>9, <1>10, <1>16
    <3>2. c[1] \in DOMAIN AppArmorProfiles /\ SubIn(c)
      BY <3>1, <1>16 DEF Exact
    <3>3. \A v \in Updaters : ~Doing(v, c[1], {"write"})
      BY <2>2, <1>5 DEF Doing
    <3>4. file'[c[1]] = file[c[1]]
      BY <2>2, <1>7, <1>16, NameFacts
    <3> QED BY <3>2, <3>3, <3>4, <1>11, Zenon DEF SubIn
  <2> QED BY <2>1, <2>2
<1>17. starts # 0
  BY <1>1 DEF Life, Fresh
<1> QED BY <1>1, <1>12, <1>13, <1>14, <1>15, <1>16, <1>17 DEF Exact

LEMMA ExactNext ==
  ASSUME Life, Registration, HostFile, Exact, Single, NoForeign, [Next]_vars
  PROVE  Exact'
<1>0. Shape /\ Host \in Names /\ env.faults = {} /\ env.starts = 1 /\ env.HostPolicy \in BOOLEAN
  BY NameFacts, EnvFacts DEF Life, Shape, Single, Smooth
<1>1. CASE NewAppArmorEnforcer
  <2>1. starts = 0 /\ up' = "up" /\ update' = update /\ starts' = starts + 1 /\ live' = {}
    <3>1. /\ starts < env.starts /\ update' = update /\ live' = {}
          /\ (up' = "up" /\ starts' = starts + 1) \/ env.faults # {}
      BY <1>0, <1>1, StartCases
    <3>2. starts \in Nat
      BY <1>0 DEF Shape
    <3>3. starts < 1
      BY <3>1, <1>0, Zenon
    <3>4. starts = 0
      BY <3>2, <3>3
    <3> QED BY <3>1, <3>4, <1>0, Zenon
  <2>2. children' = {} /\ DOMAIN AppArmorProfiles' = {} /\ Quiet
    BY <2>1, <1>0, <1>1, StartCases DEF Exact, Life, Turns
  <2>3. \A p \in Profiles : kernel'[p] = <<"none">> \/ kernel'[p] = kernel[p]
    BY <1>0, <1>1, StartCases, Zenon
  <2>4. \A p \in Profiles : kernel'[p][1] # "body"
    <3>1. DOMAIN AppArmorProfiles = {}
      BY <2>1 DEF Exact
    <3>2. \A p \in Profiles : kernel[p][1] # "body"
      BY <3>1 DEF Exact
    <3> QED BY <2>3, <3>2, WordFacts
  <2> QED BY <2>1, <2>2, <2>4 DEF Exact, Quiet, On
<1>2. ASSUME NEW q \in Pods, PodAdded(q) PROVE Exact'
  BY <1>0, <1>2, ExactPodAdded
<1>3. ASSUME NEW q \in Pods, PodDeleted(q) PROVE Exact'
  <2>1. UNCHANGED <<file, kernel, children, update, starts, up>> /\ DOMAIN AppArmorProfiles' = DOMAIN AppArmorProfiles /\ live' \subseteq live
    BY <1>3 DEF PodDeleted, UnregisterAppArmorProfile, system
  <2> QED BY <2>1, ExactSame
<1>4. ASSUME NEW u \in Updaters, NEW p \in Profiles, NEW policies \in PolicySets, UpdateSecurityPolicies(u, p, policies)
      PROVE  Exact'
  BY <1>4, ExactGenerate, NameFacts DEF UpdateSecurityPolicies, cluster
<1>5. ASSUME NEW u \in Updaters, NEW policies \in PolicySets, UpdateHostSecurityPolicies(u, policies)
      PROVE  Exact'
  BY <1>5, ExactGenerate, NameFacts DEF UpdateHostSecurityPolicies, cluster
<1>6. ASSUME NEW u \in Updaters, WriteProfile(u) \/ LoadProfile(u) \/ DisableProfile(u) \/ EnforceProfile(u)
      PROVE  Exact'
  BY <1>6, ExactCommand
<1>7. ASSUME NEW p \in Profiles, DestroyProfile(p) PROVE Exact'
  <2>0. p \in Names /\ p # Host
    BY NameFacts
  <2>1. /\ up = "stopping" /\ p \in DOMAIN AppArmorProfiles /\ DOMAIN AppArmorProfiles' = DOMAIN AppArmorProfiles \ {p}
        /\ UNCHANGED <<up, update, live, starts>>
    BY <1>7 DEF DestroyProfile, Without, cluster
  <2> DEFINE D == Default(p, AppArmorPrivilegedProfiles)
  <2>2. file' = [file EXCEPT ![p] = D] /\ Loaded(p, file'[p])
    BY <2>1, <1>0, <1>7, Zenon DEF DestroyProfile, Exact, Outcomes
  <2>3. D[1] = "default"
    BY DEF Default
  <2> HIDE DEF D
  <2>4. file'[p] = D /\ Managed(D) /\ SubprofilesOf(D) = {}
    BY <2>0, <2>2, <2>3, <1>0 DEF Shape, Managed, SubprofilesOf
  <2>5. kernel' = [kernel EXCEPT ![p] = D] /\ children' = children
    BY <2>2, <2>4, OfFacts, Zenon DEF Loaded
  <2>6. \A n \in Names : (n # p => file'[n] = file[n] /\ kernel'[n] = kernel[n]) /\ (n = p => kernel'[n][1] # "body")
    BY <2>2, <2>3, <2>5, <1>0, Zenon DEF Shape
  <2>7. \A n \in DOMAIN AppArmorProfiles' : Managed(file'[n])
    BY <2>1, <2>6, <1>0, NameFacts, Zenon DEF Exact, Shape
  <2>8. \A n \in Profiles \ DOMAIN AppArmorProfiles' : kernel'[n][1] # "body"
    BY <2>1, <2>6, NameFacts DEF Exact
  <2>9. Quiet /\ starts # 0
    BY <2>1 DEF Life, Turns, Fresh, Single, Smooth
  <2> QED BY <2>1, <2>5, <2>7, <2>8, <2>9 DEF Exact, Quiet, On
<1>8. CASE Crash \/ DestroyAppArmorEnforcer
  <2>1. up = "stopping" /\ up' = "down" /\ UnregisterAppArmorHostProfile /\ UNCHANGED <<AppArmorProfiles, live, starts>>
        /\ \A u \in Updaters : update'[u].pc = "idle"
    <3>1. ~Crash
      BY <1>0 DEF Crash
    <3>2. DestroyAppArmorEnforcer
      BY <1>8, <3>1
    <3> QED BY <3>2 DEF DestroyAppArmorEnforcer, cluster, Idle
  <2>2. file[Host][1] \in {"none", "empty"}
    <3>1. Quiet
      BY <2>1, Zenon DEF Life, Turns, Single, Smooth
    <3> QED BY <3>1, <2>1, Zenon DEF HostFile, Quiet, Doing
  <2>3. file' = file /\ children' \subseteq children /\ \A n \in Names : kernel'[n] \in {kernel[n], <<"none">>}
    BY <2>1, <1>0 DEF UnregisterAppArmorHostProfile, system
  <2>4. kernel'[Host][1] # "body"
    <3>1. CASE env.HostPolicy
      <4>1. kernel'[Host] = <<"none">>
        BY <3>1, <2>1, <2>2, <1>0 DEF UnregisterAppArmorHostProfile
      <4> QED BY <4>1, WordFacts
    <3>2. CASE ~env.HostPolicy
      <4>1. kernel[Host] = <<"none">>
        BY <3>2 DEF HostFile
      <4> QED BY <4>1, <2>3, <1>0, WordFacts
    <3> QED BY <3>1, <3>2, <1>0
  <2>5. starts # 0
    BY <2>1 DEF Life, Fresh
  <2>6. \A n \in Profiles \ DOMAIN AppArmorProfiles : kernel'[n][1] # "body"
    BY <2>3, NameFacts, WordFacts DEF Exact
  <2> QED BY <2>1, <2>3, <2>4, <2>5, <2>6 DEF Exact, On
<1>9. ~Reboot
  BY <1>0 DEF Reboot
<1>10. CASE Stop
  BY <1>10, ExactSame DEF Stop, system, memory, cluster
<1>11. ASSUME NEW q \in Pods, PodRuns(q) \/ PodExecs(q) \/ PodEnds(q) PROVE Exact'
  BY <1>11, ExactSame DEF PodRuns, PodExecs, PodEnds, system, memory
<1>12. CASE UNCHANGED vars
  BY <1>12, ExactSame DEF vars, system, memory, cluster
<1> QED BY <1>1, <1>2, <1>3, <1>4, <1>5, <1>6, <1>7, <1>8, <1>9, <1>10, <1>11, <1>12
        DEF Next, ProfileCalls, ContainerCalls, HostCalls, Commands, Ends, Outside

LEMMA ExactHolds ==
  ASSUME ForeignPlain, NoForeign
  PROVE  Spec => [](Layers /\ Enforcement /\ (Single => Exact))
<1>1. Init => Enforcement /\ Exact
  BY EnforcementInit, ExactInit
<1>2. Layers /\ Enforcement /\ [Next]_vars => Enforcement'
  BY EnforcementNext DEF Layers
<1>3. Layers /\ (Single => Exact) /\ [Next]_vars => (Single => Exact)'
  <2> SUFFICES ASSUME Layers, Single => Exact, [Next]_vars, Single' PROVE Exact'
    OBVIOUS
  <2>1. Single /\ env.faults = {}
    BY EnvStays DEF Single, Smooth
  <2> QED BY <2>1, ExactNext DEF Layers
<1> QED BY <1>1, <1>2, <1>3, LayersHold, PTL DEF Spec

(* SubprofilesMatch: a sub-profile of a registered profile is in the kernel exactly as long as
   the profile there has it (GenerateAppArmorProfile unloads the others), between any two
   updates of a daemon that is started once. *)
THEOREM NoSubprofileLeft == ASSUME ForeignPlain, NoForeign PROVE Spec => []SubprofilesMatch
<1>1. Layers /\ Enforcement /\ (Single => Exact) => SubprofilesMatch
  <2> SUFFICES ASSUME Layers, Enforcement, Single => Exact, up = "up", Quiet, env.faults = {}, ~env.overlap, env.starts = 1,
                      NEW p \in DOMAIN AppArmorProfiles
               PROVE  {c \in children : c[1] = p} = Of(p, SubprofilesOf(kernel[p]))
    BY DEF SubprofilesMatch
  <2>1. Exact /\ p \in Profiles /\ Tracked(p) /\ Managed(file[p])
    BY Zenon DEF Single, Smooth, Layers, Life, Shape, Tracked, Exact
  <2>2. \A u \in Updaters : ~Doing(u, p, {"write"}) /\ ~Doing(u, p, {"write", "load", "enforce"})
    BY DEF Quiet, Doing
  <2>3. Follows(p)
    BY <2>1 DEF Enforcement, Smooth
  <2>4. Synced(p)
    BY <2>1, <2>2, <2>3 DEF Follows
  <2>5. \A c \in children : c[1] = p => c = <<c[1], c[2]>> /\ c[2] \in SubprofilesOf(kernel[p])
    BY <2>1, <2>2, <2>4 DEF Exact, SubIn, Synced
  <2>6. \A c \in Of(p, SubprofilesOf(kernel[p])) : c \in children /\ c[1] = p
    <3>1. Of(p, SubprofilesOf(kernel[p])) \subseteq children
      BY <2>4, Zenon DEF Synced
    <3>2. ASSUME NEW c \in Of(p, SubprofilesOf(kernel[p]))
          PROVE  c[1] = p
      <4>1. PICK s \in SubprofilesOf(kernel[p]) : c = <<p, s>>
        BY DEF Of
      <4> QED BY <4>1
    <3> QED BY <3>1, <3>2, Zenon
  <2> QED BY <2>5, <2>6 DEF Of
<1> QED BY <1>1, ExactHolds, PTL

(* StoppedClean: a daemon that is stopped leaves no policy in the kernel
   (DestroyAppArmorEnforcer), neither a container's nor the host's. *)
THEOREM NoPolicyLeft == ASSUME ForeignPlain, NoForeign PROVE Spec => []StoppedClean
<1>1. Layers /\ Enforcement /\ (Single => Exact) => StoppedClean
  <2> SUFFICES ASSUME Single => Exact, up = "down", AppArmorProfiles = <<>>, env.faults = {}, ~env.overlap, env.starts = 1,
                      NEW n \in Names
               PROVE  kernel[n][1] # "body"
    BY DEF StoppedClean
  <2>1. Exact /\ DOMAIN AppArmorProfiles = {}
    BY DEF Single, Smooth
  <2> QED BY <2>1 DEF Exact, Names
<1> QED BY <1>1, ExactHolds, PTL
=============================================================================
