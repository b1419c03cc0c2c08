------------------------------ MODULE Runtimes ------------------------------
(***************************************************************************)
(* How the daemon learns of containers and forgets them: the handlers of   *)
(* containerd, Docker, CRI-O, NRI and the OCI hook, the monitor's maps     *)
(* from namespace keys to containers and to visibility, and the presets of *)
(* module Presets.  The pod watcher and the policy watcher run beside the  *)
(* runtime handler.                                                        *)
(*                                                                         *)
(* Every pod has one container, so that with Kubernetes each container is  *)
(* an endpoint of its own; without it, the containers carry the same       *)
(* labels and share one endpoint.  Every policy selects every container.   *)
(***************************************************************************)
EXTENDS Presets, SequencesExt

CONSTANTS
    Policies,      \* records [name, action]; action None: no preset rule
    Visibilities,  \* settings of an announced namespace
    Off,           \* the zero visibility
    Default,       \* the global default visibility
    HostSetting,   \* the host's visibility
    MaxPolicies,   \* policies at a time
    MaxRestarts    \* ends of the daemon, by a signal or a crash

VARIABLES
    config,     \* [runtime, k8s, preset, serial, plain, faults], fixed at the
                \* start; preset is None when none could be registered
    state,      \* state[c]: "new", "running", "dead" or "removed"
    key,        \* key[c]: the namespaces of a container that ran
    events,     \* runtime events not handled yet, in order
    announced,  \* the visibility the daemon was told of, or None
    policies,   \* the policies, in the order they arrived
    dm,         \* the daemon's tables, see EmptyDaemon
    pending,    \* tasks of the runtime handler, the first one in progress
    update,     \* update[h]: preset update of handler h
    nri,        \* NRIHandler: containers, containersByNamespaces
    crio,       \* CrioHandler.containers
    hook,       \* [ready, detached, todo] of the OCI hook
    restarts

vars == << config, state, key, events, announced, policies, dm, pending,
           update, nri, crio, hook, restarts >>

PodNamespace == "pods"
ContainerNamespace == "container_namespace"
UnknownNamespace == "Unknown"
NoNamespace == ""
Namespaces == {PodNamespace, ContainerNamespace, UnknownNamespace, NoNamespace}

AllKeys == Keys \cup {NoKey}
Handlers == {"runtime", "pod", "policy"}

\* What may go wrong around the daemon: a pod is described before the runtime
\* told of its container, a container ends before its start is handled, a
\* list of CRI-O's containers fails.
Faults == {"early", "fast", "list"}

\* Containers[c] is None or [key, ns], with key NoKey while only Kubernetes
\* has described c; NsMap[k] is None or a container; NamespacePidsMap[n] is
\* None or [keys, visibility]; NsVisibilityMap[k] is None or the setting the
\* kernel holds for k, and own are the keys whose inner map this process made.
EmptyDaemon ==
    [Containers |-> [c \in ContainerIDs |-> None],
     EndPoints |-> << >>,
     NsMap |-> [k \in AllKeys |-> None],
     NamespacePidsMap |-> [n \in Namespaces |-> None],
     NsVisibilityMap |-> [k \in AllKeys |-> None],
     own |-> {},
     preset |-> EmptyPreset]

Listed(d) == {d.EndPoints[i] : i \in 1 .. Len(d.EndPoints)}
Without(s, c) == SelectSeq(s, LAMBDA x : x # c)

----------------------------------------------------------------------------
(* The monitor's maps.                                                     *)

UpdateNsKeyMap(d, action, k, visibility) ==
    CASE action = "ADDED" ->
           [d EXCEPT !.NsVisibilityMap[k] = visibility, !.own = @ \cup {k}]
      [] action = "MODIFIED" ->
           IF k \in d.own THEN [d EXCEPT !.NsVisibilityMap[k] = visibility] ELSE d
      [] action = "DELETED" ->
           IF d.NsVisibilityMap[k] = None THEN d
           ELSE [d EXCEPT !.NsVisibilityMap[k] = None, !.own = @ \ {k}]

\* Mutant: a new key starts with the global default.
AddContainerIDToNsMapDefault(d, c, ns, k) ==
    LET val == d.NamespacePidsMap[ns]
        known == IF val = None THEN [keys |-> {}, visibility |-> Off] ELSE val
    IN  UpdateNsKeyMap([d EXCEPT !.NsMap[k] = c,
                          !.NamespacePidsMap[ns] = [known EXCEPT !.keys = @ \cup {k}]],
                       "ADDED", k, Default)

\* The namespace's setting for a new key, and the global default for the
\* first key of a namespace that has not been announced.
AddContainerIDToNsMap(d, c, ns, k) ==
    LET named == [d EXCEPT !.NsMap[k] = c]
        val == d.NamespacePidsMap[ns]
    IN  IF val = None
          THEN UpdateNsKeyMap(
                 [named EXCEPT !.NamespacePidsMap[ns] =
                     [keys |-> {k}, visibility |-> Off]], "ADDED", k, Default)
        ELSE IF k \in val.keys THEN named
        ELSE UpdateNsKeyMap(
                 [named EXCEPT !.NamespacePidsMap[ns].keys = @ \cup {k}],
                 "ADDED", k, val.visibility)

\* Without a key the entry is looked up by container, and stays in NsMap.
DeleteContainerIDFromNsMap(d, c, ns, k) ==
    LET found == IF k # NoKey THEN {k} ELSE {x \in AllKeys : d.NsMap[x] = c}
        x == CHOOSE y \in found : TRUE
        unnamed == IF k # NoKey THEN [d EXCEPT !.NsMap[k] = None] ELSE d
    IN  IF found = {} \/ d.NamespacePidsMap[ns] = None THEN unnamed
        ELSE UpdateNsKeyMap(
               [unnamed EXCEPT !.NamespacePidsMap[ns].keys = @ \ {x}],
               "DELETED", x, Off)

\* Every key of the namespace gets the setting; a deleted namespace's keys
\* lose theirs.  SetOf folds UpdateNsKeyMap over a set of keys.
SetOf(d, ks, action, visibility) ==
    [d EXCEPT
       !.NsVisibilityMap = [k \in AllKeys |->
           IF k \in ks THEN UpdateNsKeyMap(d, action, k, visibility).NsVisibilityMap[k]
           ELSE @[k]],
       !.own = IF action = "DELETED" THEN @ \ {k \in ks : d.NsVisibilityMap[k] # None}
               ELSE @]

UpdateVisibility(d, action, ns, visibility) ==
    LET val == d.NamespacePidsMap[ns] IN
    IF action = "DELETED"
      THEN [(IF val = None THEN d ELSE SetOf(d, val.keys, "DELETED", Off))
               EXCEPT !.NamespacePidsMap[ns] = None]
    ELSE IF val = None
      THEN [d EXCEPT !.NamespacePidsMap[ns] = [keys |-> {}, visibility |-> visibility]]
    ELSE SetOf([d EXCEPT !.NamespacePidsMap[ns].visibility = visibility],
               val.keys, "MODIFIED", visibility)

\* The host's own entry, written at the start and when the configuration
\* changes.
UpdateHostVisibility(d) == UpdateNsKeyMap(d, "ADDED", NoKey, HostSetting)

\* The pod handler names the container again, under the pod's namespace, and
\* takes its key out of the namespace "Unknown".
HandleUnknownNamespaceNsMap(d, c, ns, k) ==
    LET added == AddContainerIDToNsMap(d, c, ns, k) IN
    IF added.NamespacePidsMap[UnknownNamespace] = None THEN added
    ELSE [added EXCEPT !.NamespacePidsMap[UnknownNamespace].keys = @ \ {k}]

----------------------------------------------------------------------------
(* What a runtime says of a container: its key, NoKey when there is no     *)
(* process to look at, None for an error.  The namespace comes from the    *)
(* labels; the containers of config.plain are not run by Kubernetes.       *)

Alive == {"running", "stopping"}
Inspect(c) == IF state[c] \in Alive THEN key[c] ELSE NoKey

\* Without Kubernetes a name that is not known is "container_namespace", and
\* a container hook knows no namespace at all.
RuntimeNamespace(c) ==
    CASE config.runtime = "hook" -> NoNamespace
      [] config.runtime # "hook" /\ config.k8s /\ c \notin config.plain -> PodNamespace
      [] config.runtime \in {"containerd", "docker"} /\ ~(config.k8s /\ c \notin config.plain)
           -> ContainerNamespace
      [] OTHER -> UnknownNamespace

ContainerdGetContainerInfo(c) ==
    IF state[c] \in Alive THEN {key[c]} ELSE {NoKey, None}

DockerGetContainerInfo(c) ==
    IF state[c] = "removed" THEN {None} ELSE {Inspect(c)}

CrioGetContainerInfo(c) ==
    IF state[c] \in Alive THEN {key[c]} ELSE {None}

nriToKubeArmorContainer(c) == Inspect(c)

----------------------------------------------------------------------------
(* Steps of the runtime handler.  A task is                                *)
(*   "start", c, k    a container to look at; k is None when its key is    *)
(*                    still to be asked for                                *)
(*   "register", ...  its second half, after the locks were released       *)
(*   "destroy", c, .. a container to forget                                *)
(*   "unregister"     its second half                                      *)
(* push and policies: the endpoint's containers and policies as copied.    *)

Task(op, c, k, ns) ==
    [op |-> op, c |-> c, k |-> k, ns |-> ns, push |-> << >>, policies |-> << >>]

StartTask(c, k) == Task("start", c, k, RuntimeNamespace(c))
DestroyTask(c, k) == Task("destroy", c, k, RuntimeNamespace(c))

\* A container seen first by the runtime.  Without Kubernetes it also joins
\* the endpoint with its labels, whose policies are looked up again.
NewContainer(t) ==
    LET joined == IF config.k8s \/ t.c \in Listed(dm) THEN dm.EndPoints
                  ELSE Append(dm.EndPoints, t.c)
    IN  [dm |-> [dm EXCEPT !.Containers[t.c] = [key |-> t.k, ns |-> t.ns],
                           !.EndPoints = joined],
         push |-> IF config.k8s THEN << >> ELSE joined]

\* A container that Kubernetes described before keeps its namespace.  Its
\* endpoint is looked up: found are the containers its policies are pushed to.
DescribedContainer(t, found) ==
    [dm |-> [dm EXCEPT !.Containers[t.c].key = t.k], push |-> found]

\* CRI-O's and NRI's handlers push the policies of the endpoint; those of
\* containerd and Docker assign it to a variable of the loop.
ContainerdFindsEndPoint(c) == << >>
DockerFindsEndPoint(c) == << >>
CrioFindsEndPoint(c) == IF c \in Listed(dm) THEN << c >> ELSE << >>
NRIFindsEndPoint(c) == IF c \in Listed(dm) THEN << c >> ELSE << >>

Seen(c) == dm.Containers[c] # None /\ dm.Containers[c].key # NoKey

\* The first half of a start: the tables under ContainersLock and
\* EndPointsLock.
Detect(t, found) ==
    LET known == dm.Containers[t.c]
        detected == IF known = None THEN NewContainer(t)
                    ELSE DescribedContainer(t, found)
    IN  /\ dm' = detected.dm
        /\ pending' = << [Task("register", t.c, t.k,
                                IF known = None THEN t.ns ELSE known.ns) EXCEPT
                             !.push = detected.push, !.policies = policies] >>
                      \o Tail(pending)

Skip == pending' = Tail(pending) /\ UNCHANGED dm

\* infos: what the runtime may say; a container seen before is left alone.
Start(t, infos, found) ==
    \E k \in infos :
        IF k = None \/ Seen(t.c) THEN Skip
        ELSE Detect([t EXCEPT !.k = k], found)

\* The second half: the monitor's maps, the presets, and the policies of
\* the endpoint copied in the first half.
Registered(d, c, k) ==
    IF config.preset = None THEN d
    ELSE [d EXCEPT !.preset = RegisterContainer(@, c, k)]

Register(t) ==
    /\ dm' = Registered(AddContainerIDToNsMap(dm, t.c, t.ns, t.k), t.c, t.k)
    /\ update' = [update EXCEPT !["runtime"] =
          IF t.policies = << >> THEN Idle
          ELSE UpdateOf(t.push, RulesFor(t.policies), config.k8s)]
    /\ pending' = Tail(pending)

\* The first half of a removal; k and ns are what the second half is given.
Forget(t, k, ns) ==
    IF dm.Containers[t.c] = None THEN Skip
    ELSE /\ dm' = [dm EXCEPT !.Containers[t.c] = None,
                      !.EndPoints = IF config.k8s THEN @ ELSE Without(@, t.c)]
         /\ pending' = << Task("unregister", t.c, k, ns) >> \o Tail(pending)

KnownKey(c) == IF dm.Containers[c] = None THEN NoKey ELSE dm.Containers[c].key
KnownNamespace(c) ==
    IF dm.Containers[c] = None THEN UnknownNamespace ELSE dm.Containers[c].ns

Unregister(t) ==
    /\ dm' = [DeleteContainerIDFromNsMap(dm, t.c, t.ns, t.k) EXCEPT
                 !.preset = UnregisterContainer(@, t.c)]
    /\ pending' = Tail(pending)

----------------------------------------------------------------------------
(* The same two operations in each handler.                                *)

ContainerdStarts(t) ==
    \/ t.op = "start" /\ UNCHANGED << update, crio >>
         /\ Start(t, ContainerdGetContainerInfo(t.c), ContainerdFindsEndPoint(t.c))
    \/ t.op = "register" /\ Register(t) /\ UNCHANGED crio

ContainerdForgets(t) ==
    /\ \/ t.op = "destroy" /\ Forget(t, KnownKey(t.c), KnownNamespace(t.c))
       \/ t.op = "unregister" /\ Unregister(t)
    /\ UNCHANGED << update, crio >>

DockerStarts(t) ==
    \/ t.op = "start" /\ UNCHANGED << update, crio >>
         /\ Start(t, DockerGetContainerInfo(t.c), DockerFindsEndPoint(t.c))
    \/ t.op = "register" /\ Register(t) /\ UNCHANGED crio

DockerForgets(t) ==
    /\ \/ t.op = "destroy" /\ Forget(t, KnownKey(t.c), KnownNamespace(t.c))
       \/ t.op = "unregister" /\ Unregister(t)
    /\ UNCHANGED << update, crio >>

\* A start that comes to nothing is tried again by the next poll.
CrioStarts(t) ==
    \/ t.op = "start" /\ UNCHANGED update
         /\ Start(t, CrioGetContainerInfo(t.c), CrioFindsEndPoint(t.c))
         /\ crio' = IF CrioGetContainerInfo(t.c) = {None} \/ Seen(t.c)
                      THEN crio \ {t.c} ELSE crio
    \/ t.op = "register" /\ Register(t) /\ UNCHANGED crio

\* CRI-O's handler leaves the presets alone.
CrioForgets(t) ==
    /\ \/ t.op = "destroy" /\ Forget(t, KnownKey(t.c), KnownNamespace(t.c))
       \/ /\ t.op = "unregister"
          /\ dm' = DeleteContainerIDFromNsMap(dm, t.c, t.ns, t.k)
          /\ pending' = Tail(pending)
    /\ UNCHANGED << update, crio >>

handleNewContainer(t) ==
    \/ t.op = "start" /\ UNCHANGED << update, crio >>
         /\ Start(t, {t.k}, NRIFindsEndPoint(t.c))
    \/ t.op = "register" /\ Register(t) /\ UNCHANGED crio

\* What is given up is what the event says, not what was recorded.
handleDeletedContainer(t) ==
    /\ \/ t.op = "destroy" /\ Forget(t, t.k, t.ns)
       \/ t.op = "unregister" /\ Unregister(t)
    /\ UNCHANGED << update, crio >>

\* The hook's handler holds ContainersLock throughout, and knows no presets.
\* The key of a container that Kubernetes described goes to the entry of the
\* record's own id, which is empty; one seen before is registered again.
handleContainerCreate(t) ==
    LET known == dm.Containers[t.c]
        recorded == IF known = None THEN NewContainer(t).dm ELSE dm
    IN  /\ t.op = "start"
        /\ dm' = AddContainerIDToNsMap(recorded, t.c, t.ns, t.k)
        /\ pending' = Tail(pending)
        /\ UNCHANGED << update, crio >>

handleContainerDelete(t) ==
    /\ \/ t.op = "destroy" /\ Forget(t, KnownKey(t.c), KnownNamespace(t.c))
       \/ /\ t.op = "unregister"
          /\ dm' = DeleteContainerIDFromNsMap(dm, t.c, t.ns, t.k)
          /\ pending' = Tail(pending)
    /\ UNCHANGED << update, crio >>

----------------------------------------------------------------------------
(* The events of each runtime.                                             *)

Orders(S) == {s \in [1 .. Cardinality(S) -> S] :
                 \A i, j \in 1 .. Cardinality(S) : i # j => s[i] # s[j]}
Starts(s) == [i \in 1 .. Len(s) |-> StartTask(s[i], Inspect(s[i]))]

HandlerIdle == pending = << >> /\ update["runtime"] = Idle

\* With serial handlers a step begins only when the others are done.
MayBegin(h) ==
    /\ config.serial => \A g \in Handlers \ {h} : update[g] = Idle
    /\ config.serial /\ h # "runtime" => pending = << >>

EventIs(runtime, name) ==
    /\ config.runtime = runtime
    /\ HandlerIdle /\ MayBegin("runtime")
    /\ events # << >> /\ Head(events)[1] = name
    /\ events' = Tail(events)

EventContainer == Head(events)[2]

ContainerdStart ==
    /\ EventIs("containerd", "start")
    /\ pending' = << StartTask(EventContainer, None) >>
    /\ UNCHANGED << dm, nri, crio, hook, update >>

ContainerdDelete ==
    /\ EventIs("containerd", "delete")
    /\ pending' = << DestroyTask(EventContainer, NoKey) >>
    /\ UNCHANGED << dm, nri, crio, hook, update >>

\* The exit event is decoded as a start event, whose pid is another field:
\* what is compared with the recorded pid is the pid or zero.
ContainerdExit ==
    /\ EventIs("containerd", "exit")
    /\ \E pid \in {"pid", "zero"} :
         pending' = IF pid = (IF Seen(EventContainer) THEN "pid" ELSE "zero")
                      THEN << DestroyTask(EventContainer, NoKey) >> ELSE << >>
    /\ UNCHANGED << dm, nri, crio, hook, update >>

DockerStart ==
    /\ EventIs("docker", "start")
    /\ pending' = << StartTask(EventContainer, None) >>
    /\ UNCHANGED << dm, nri, crio, hook, update >>

\* Without Kubernetes a container leaves its endpoint even when it is not
\* among the containers.
DockerStop ==
    /\ EventIs("docker", "stop") \/ EventIs("docker", "destroy")
    /\ dm' = IF config.k8s THEN dm
             ELSE [dm EXCEPT !.EndPoints = Without(@, EventContainer)]
    /\ pending' = << DestroyTask(EventContainer, NoKey) >>
    /\ UNCHANGED << nri, crio, hook, update >>

\* Only the state agent is told.
DockerDie ==
    /\ EventIs("docker", "die")
    /\ UNCHANGED << dm, pending, nri, crio, hook, update >>

----------------------------------------------------------------------------
(* NRI.  The plugin keeps the key a container had while it ran.            *)

mergeContainer(n, c, k, removing) ==
    LET existing == n.containers[c]
        merged == IF existing \notin {None, NoKey} THEN existing ELSE k
    IN  [key |-> merged,
         nri |-> IF existing # None \/ ~removing
                   THEN [n EXCEPT !.containers[c] = merged] ELSE n]

\* A key that was used before belongs to a container that is assumed gone.
\* The entry dropped is the new container's, and the old one's is used.
StartContainer ==
    /\ EventIs("nri", "start")
    /\ LET c == EventContainer
           m == mergeContainer(nri, c, nriToKubeArmorContainer(c), FALSE)
           old == m.nri.containersByNamespaces[m.key]
           dropped == [m.nri EXCEPT !.containers[c] = None]
       IN  IF old = None
             THEN /\ nri' = [m.nri EXCEPT !.containersByNamespaces[m.key] = c]
                  /\ pending' = << StartTask(c, m.key) >>
           ELSE /\ nri' = [dropped EXCEPT !.containersByNamespaces[m.key] = c]
                /\ pending' = (IF dropped.containers[old] = None THEN << >>
                               ELSE << DestroyTask(old, dropped.containers[old]) >>)
                              \o << StartTask(c, m.key) >>
    /\ UNCHANGED << dm, crio, hook, update >>

StopOrRemove(c) ==
    LET m == mergeContainer(nri, c, nriToKubeArmorContainer(c), TRUE) IN
    IF m.nri.containersByNamespaces[m.key] = None
      THEN nri' = m.nri /\ pending' = << >>
    ELSE /\ nri' = [m.nri EXCEPT !.containers[c] = None]
         /\ pending' = << DestroyTask(c, m.key) >>

StopContainer ==
    /\ EventIs("nri", "stop")
    /\ StopOrRemove(EventContainer)
    /\ UNCHANGED << dm, crio, hook, update >>

RemoveContainer ==
    /\ EventIs("nri", "remove")
    /\ StopOrRemove(EventContainer)
    /\ UNCHANGED << dm, crio, hook, update >>

\* At the connection NRI tells of the containers in the order s.
Synchronize(s) ==
    LET Latest(k) == CHOOSE i \in 1 .. Len(s) :
                      /\ Inspect(s[i]) = k
                      /\ \A j \in i + 1 .. Len(s) : Inspect(s[j]) # k
    IN  [containers |-> [c \in ContainerIDs |->
             IF \E i \in 1 .. Len(s) : s[i] = c THEN Inspect(c) ELSE None],
         containersByNamespaces |-> [k \in AllKeys |->
             IF \E i \in 1 .. Len(s) : Inspect(s[i]) = k THEN s[Latest(k)] ELSE None]]

----------------------------------------------------------------------------
(* CRI-O is polled.  A failed list reads as the empty one: the error is    *)
(* assigned to a variable of the if statement.                             *)

GetCrioContainers == {c \in ContainerIDs : state[c] \in Alive \cup {"dead"}}
GetNewCrioContainers(active) == active \ crio
GetDeletedCrioContainers(active) == crio \ active

MonitorCrioEvents(active) ==
    /\ config.runtime = "crio" /\ HandlerIdle /\ MayBegin("runtime")
    /\ active # crio
    /\ \E new \in Orders(GetNewCrioContainers(active)),
          gone \in Orders(GetDeletedCrioContainers(active)) :
         pending' = Starts(new) \o
                    [i \in 1 .. Len(gone) |-> DestroyTask(gone[i], NoKey)]
    /\ crio' = active
    /\ UNCHANGED << events, dm, nri, hook, update >>

----------------------------------------------------------------------------
(* The OCI hook.  A process sends each event over a connection of its own  *)
(* and tries again until it is accepted; the daemon accepts events once    *)
(* the detached process, started with the daemon, has sent the containers  *)
(* there are.  Accepted events are handled by goroutines, in any order.    *)

HookStart == [ready |-> FALSE, detached |-> "waiting", todo |-> << >>]

\* run and sendContainer: the namespaces are read, the pod is not known.
HookTask(event) ==
    IF event[1] = "create" THEN StartTask(event[2], key[event[2]])
    ELSE DestroyTask(event[2], NoKey)

\* Mutant: events are accepted before the containers there are were sent.
handleConnUnready ==
    /\ config.runtime = "hook" /\ HandlerIdle /\ MayBegin("runtime")
    /\ \E i \in 1 .. Len(events) :
         /\ events' = RemoveAt(events, i)
         /\ pending' = << HookTask(events[i]) >>
    /\ UNCHANGED << dm, nri, crio, hook, update >>

handleConn ==
    /\ config.runtime = "hook" /\ hook.ready /\ HandlerIdle /\ MayBegin("runtime")
    /\ \E i \in 1 .. Len(events) :
         /\ events' = RemoveAt(events, i)
         /\ pending' = << HookTask(events[i]) >>
    /\ UNCHANGED << dm, nri, crio, hook, update >>

\* Both runtimes list containers that have ended too, without their namespaces.
listContainers ==
    {[i \in 1 .. Len(s) |-> Task("start", s[i], Inspect(s[i]), PodNamespace)] :
        s \in Orders({c \in ContainerIDs : state[c] \in Alive \cup {"dead"}})}

\* The detached process asks for the list once the daemon listens (the list is never
\* empty, since the daemon's own container, which is not modelled, is in it), ...
runDetached ==
    /\ config.runtime = "hook" /\ hook.detached = "waiting"
    /\ \E list \in listContainers :
         hook' = [hook EXCEPT !.detached = "sending", !.todo = list]
    /\ UNCHANGED << events, dm, pending, nri, crio, update >>

\* ... sends one container after the other, ...
SendDetached ==
    /\ hook.todo # << >> /\ HandlerIdle /\ MayBegin("runtime")
    /\ pending' = << Head(hook.todo) >>
    /\ hook' = [hook EXCEPT !.todo = Tail(@)]
    /\ UNCHANGED << events, dm, nri, crio, update >>

\* ... and closes the connection.
ListenToHook ==
    /\ hook.detached = "sending" /\ hook.todo = << >> /\ HandlerIdle
    /\ hook' = [ready |-> TRUE, detached |-> "done", todo |-> << >>]
    /\ UNCHANGED << events, dm, pending, nri, crio, update >>

----------------------------------------------------------------------------
(* Containers of the node.  A key is free again when no running container  *)
(* has it; with NRI it may be reused before the removal was handled, with  *)
(* the other runtimes the handler has kept up.                             *)

Handled(c) ==
    /\ \A i \in 1 .. Len(events) : events[i][2] # c
    /\ \A i \in 1 .. Len(pending) : pending[i].c # c
    /\ c \notin crio

Free(k) ==
    \A c \in ContainerIDs : key[c] = k =>
        /\ state[c] \notin Alive
        /\ config.runtime # "nri" => state[c] = "removed" /\ Handled(c)

Emit(name, c) ==
    events' = IF config.runtime = "crio" THEN events ELSE Append(events, << name, c >>)

Queued(name, c) == \E i \in 1 .. Len(events) : events[i] = << name, c >>

Run(c, k) ==
    /\ state[c] = "new" /\ Free(k)
    /\ state' = [state EXCEPT ![c] = "running"]
    /\ key' = [key EXCEPT ![c] = k]
    /\ Emit(IF config.runtime = "hook" THEN "create" ELSE "start", c)
    /\ UNCHANGED << config, announced, policies, dm, pending, update, nri, crio, hook,
                    restarts >>

\* Under NRI a stop is announced, and handled, before the process is told.
Stop(c) ==
    /\ config.runtime = "nri" /\ state[c] = "running"
    /\ state' = [state EXCEPT ![c] = "stopping"]
    /\ Emit("stop", c)
    /\ UNCHANGED << config, key, announced, policies, dm, pending, update,
                    nri, crio, hook, restarts >>

\* With fast exits a container may end before its start was handled.
Exit(c) ==
    /\ \/ state[c] = "running" /\ ("fast" \in config.faults \/ dm.NsMap[key[c]] = c)
       \/ state[c] = "stopping" /\ ~Queued("stop", c)
    /\ Queued("create", c) => "fast" \in config.faults
    /\ state' = [state EXCEPT ![c] = "dead"]
    /\ CASE config.runtime = "containerd" -> Emit("exit", c)
         [] config.runtime = "docker" ->
              Emit("die", c) \/ events' = events \o << << "die", c >>, << "stop", c >> >>
         [] config.runtime = "hook" -> Emit("delete", c)
         [] OTHER -> UNCHANGED events
    /\ UNCHANGED << config, key, announced, policies, dm, pending, update, nri,
                    crio, hook, restarts >>

Removal(c) ==
    /\ state[c] = "dead"
    /\ state' = [state EXCEPT ![c] = "removed"]
    /\ CASE config.runtime = "containerd" -> Emit("delete", c)
         [] config.runtime = "docker" -> Emit("destroy", c)
         [] config.runtime = "nri" -> Emit("remove", c)
         [] OTHER -> UNCHANGED events
    /\ UNCHANGED << config, key, announced, policies, dm, pending, update, nri,
                    crio, hook, restarts >>

----------------------------------------------------------------------------
(* The pod watcher, the namespace watcher and the policies.                *)

\* A pod event describes a container of the pod.
Describe(c) ==
    /\ config.k8s /\ update["pod"] = Idle /\ MayBegin("pod")
    /\ state[c] \in Alive /\ c \notin Listed(dm) /\ c \notin config.plain
    /\ "early" \in config.faults \/ Seen(c)
    /\ LET known == dm.Containers[c]
           k == IF known = None THEN NoKey ELSE known.key
           \* the record of a container not seen yet has no id either
           id == IF known = None THEN None ELSE c
           described == [dm EXCEPT
                           !.Containers[c] = [key |-> k, ns |-> PodNamespace],
                           !.EndPoints = Append(@, c)]
       IN  dm' = HandleUnknownNamespaceNsMap(described, id, PodNamespace, k)
    /\ update' = [update EXCEPT !["pod"] =
          IF config.preset = None THEN Idle ELSE UpdateOf(<< c >>, RulesFor(policies), TRUE)]
    /\ UNCHANGED << config, state, key, events, announced, policies, pending, nri,
                    crio, hook, restarts >>

\* The pod is deleted: its endpoint goes, and nothing else.
Undescribe(c) ==
    /\ config.k8s /\ update["pod"] = Idle /\ MayBegin("pod")
    /\ state[c] = "removed" /\ c \in Listed(dm)
    /\ dm' = [dm EXCEPT !.EndPoints = Without(@, c)]
    /\ UNCHANGED << config, state, key, events, announced, policies, pending,
                    update, nri, crio, hook, restarts >>

\* The namespace is seen for the first time, or is annotated anew.
Announce(v) ==
    /\ config.k8s /\ announced # v
    /\ announced' = v
    /\ dm' = UpdateVisibility(dm, IF announced = None THEN "ADDED" ELSE "MODIFIED",
                               PodNamespace, v)
    /\ UNCHANGED << config, state, key, events, policies, pending, update, nri,
                    crio, hook, restarts >>

SamePolicies == {policies[i] : i \in 1 .. Len(policies)}

PushPolicies(new) ==
    /\ config.preset # None /\ update["policy"] = Idle /\ MayBegin("policy")
    /\ policies' = new
    /\ update' = [update EXCEPT !["policy"] =
                    UpdateOf(dm.EndPoints, RulesFor(new), config.k8s)]
    /\ UNCHANGED << config, state, key, events, announced, dm, pending, nri, crio, hook,
                    restarts >>

AddPolicy(p) ==
    /\ p \notin SamePolicies /\ Len(policies) < MaxPolicies
    /\ PushPolicies(Append(policies, p))

DeletePolicy(p) ==
    /\ p \in SamePolicies
    /\ PushPolicies(Without(policies, p))

----------------------------------------------------------------------------
(* Steps inside the handlers, and the daemon itself.                       *)

PresetStep(h) ==
    /\ update[h] # Idle
    /\ LET step == UpdateStep(config.preset, dm.preset, update[h]) IN
         /\ dm' = [dm EXCEPT !.preset = step.preset]
         /\ update' = [update EXCEPT ![h] = step.update]
    /\ UNCHANGED << config, state, key, events, announced, policies, pending, nri,
                    crio, hook, restarts >>

TaskStep ==
    /\ pending # << >> /\ update["runtime"] = Idle
    /\ LET t == Head(pending) IN
         \/ config.runtime = "containerd" /\ (ContainerdStarts(t) \/ ContainerdForgets(t))
         \/ config.runtime = "docker" /\ (DockerStarts(t) \/ DockerForgets(t))
         \/ config.runtime = "crio" /\ (CrioStarts(t) \/ CrioForgets(t))
         \/ config.runtime = "nri" /\ (handleNewContainer(t) \/ handleDeletedContainer(t))
         \/ config.runtime = "hook" /\ (handleContainerCreate(t) \/ handleContainerDelete(t))
    /\ UNCHANGED << config, state, key, events, announced, policies, nri, hook,
                    restarts >>

RuntimeEvent ==
    /\ \/ ContainerdStart \/ ContainerdDelete \/ ContainerdExit
       \/ DockerStart \/ DockerStop \/ DockerDie
       \/ StartContainer \/ StopContainer \/ RemoveContainer
       \/ MonitorCrioEvents(GetCrioContainers)
       \/ "list" \in config.faults /\ MonitorCrioEvents({})
       \/ handleConn \/ runDetached \/ SendDetached \/ ListenToHook
    /\ UNCHANGED << config, state, key, announced, policies, restarts >>

----------------------------------------------------------------------------
(* The daemon itself.                                                      *)

SetContainerNSVisibility(d) == UpdateVisibility(d, "ADDED", ContainerNamespace, Default)

\* What a fresh daemon has in its tables before the first event.
Started(d) ==
    LET host == UpdateHostVisibility(d) IN
    IF config.k8s THEN host ELSE SetContainerNSVisibility(host)

\* The containers a runtime lists for a daemon that starts.
GetContainerdContainers == {c \in ContainerIDs : state[c] \in Alive \cup {"dead"}}
GetAlreadyDeployedDockerContainers == {c \in ContainerIDs : state[c] \in Alive}

Existing ==
    CASE config.runtime \in {"containerd", "nri"} -> GetContainerdContainers
      [] config.runtime = "docker" -> GetAlreadyDeployedDockerContainers
      [] config.runtime \in {"crio", "hook"} -> {}

\* main removes what is pinned in the default directory.  Elsewhere a daemon
\* that is stopped leaves the maps of the presets, one that crashes all of
\* them as they were.
InitialCleanUp(d) == EmptyDaemon

DestroyBPFMaps(d) ==
    [EmptyDaemon EXCEPT !.preset.BPFContainerMap = d.preset.BPFContainerMap]

Crashed(d) ==
    [EmptyDaemon EXCEPT !.NsVisibilityMap = d.NsVisibilityMap,
                        !.preset.BPFContainerMap = d.preset.BPFContainerMap]

Restart ==
    /\ restarts < MaxRestarts
    /\ restarts' = restarts + 1
    /\ dm' \in {Started(InitialCleanUp(dm)), Started(DestroyBPFMaps(dm)),
               Started(Crashed(dm))}
    /\ \E s \in Orders(Existing) :
         /\ pending' = Starts(s)
         /\ nri' = IF config.runtime = "nri" THEN Synchronize(s) ELSE Synchronize(<< >>)
    /\ events' = << >>
    /\ update' = [h \in Handlers |-> Idle]
    /\ crio' = {} /\ announced' = None
    /\ hook' = HookStart
    /\ UNCHANGED << config, state, key, policies >>

\* A preset that stays in the list without a map of its own is left out: the
\* first update of it ends the daemon.
RegisteredPresets ==
    {name \in PresetNames : \E fault \in RegisterFaults :
        LET r == RegisterPreset(name, fault) IN r.listed /\ r.attached}

Configs ==
    {c \in [runtime : {"containerd", "docker", "crio", "nri", "hook"},
            k8s : BOOLEAN, preset : RegisteredPresets \cup {None},
            serial : BOOLEAN, plain : SUBSET ContainerIDs,
            faults : SUBSET Faults] :
        c.k8s \/ c.runtime \in {"containerd", "docker"}}

Init ==
    /\ config \in Configs
    /\ state = [c \in ContainerIDs |-> "new"]
    /\ key = [c \in ContainerIDs |-> NoKey]
    /\ events = << >> /\ announced = None /\ policies = << >>
    /\ dm = Started(EmptyDaemon)
    /\ pending = << >> /\ update = [h \in Handlers |-> Idle]
    /\ nri = Synchronize(<< >>) /\ crio = {}
    /\ hook = HookStart
    /\ restarts = 0

Next ==
    \/ \E c \in ContainerIDs, k \in Keys : Run(c, k)
    \/ \E c \in ContainerIDs : Stop(c) \/ Exit(c) \/ Removal(c)
    \/ \E c \in ContainerIDs : Describe(c) \/ Undescribe(c)
    \/ \E v \in Visibilities : Announce(v)
    \/ \E p \in Policies : AddPolicy(p) \/ DeletePolicy(p)
    \/ RuntimeEvent \/ TaskStep \/ Restart
    \/ \E h \in Handlers : PresetStep(h)

Spec == Init /\ [][Next]_vars

----------------------------------------------------------------------------
(* Properties.                                                             *)

Settled ==
    /\ events = << >> /\ pending = << >>
    /\ \A h \in Handlers : update[h] = Idle
    /\ config.runtime = "crio" => crio = GetCrioContainers
    /\ config.runtime = "hook" => hook.ready

\* Two containers had the key, one after the other.
Reused(k) == \E c, d \in ContainerIDs : c # d /\ key[c] = k /\ key[d] = k
NRIReused(k) == config.runtime = "nri" /\ Reused(k)
CrioReused(k) == config.runtime = "crio" /\ Reused(k)

\* The hook's handler loses the key of a container described before it ran,
\* and may handle the end of a container before its creation.
HookDescribed == config.runtime = "hook" /\ config.faults # {}

\* Attribution of events.  When nothing is in flight, the monitor's NsMap leads
\* from the namespaces of every running container to that container
\* (AddContainerIDToNsMap), and no key leads to a container that was removed
\* (DeleteContainerIDFromNsMap): across restarts of the daemon, failed lists of
\* CRI-O, containers that end before they were looked at, and the protocol by
\* which the OCI hook holds back events until the containers there are were
\* sent.
KnownByNamespace ==
    Settled =>
        /\ \A c \in ContainerIDs : state[c] = "running" => dm.NsMap[key[c]] = c
        /\ \A k \in Keys : dm.NsMap[k] # None /\ ~NRIReused(k) /\ ~HookDescribed =>
              state[dm.NsMap[k]] # "removed"

\* Visibility of namespaces.  When nothing is in flight, the kernel holds for
\* every running container of the namespace the visibility announced for it
\* last, whether the namespace, the runtime or the pod was heard of first, and
\* when a key was used before.
VisibleAsAnnounced ==
    Settled /\ announced # None /\ config.runtime # "hook" =>
        \A c \in ContainerIDs :
            state[c] = "running" /\ dm.Containers[c].ns = PodNamespace =>
                dm.NsVisibilityMap[key[c]] = announced

\* The host's visibility is the configured one.
HostVisibility == dm.NsVisibilityMap[NoKey] = HostSetting

\* The entry of the host, whose key is (0, 0), is not disturbed by containers,
\* as long as none is described, or looked for, without its namespaces.
HostVisibilityKept ==
    config.faults \cap {"early", "fast"} = {} /\ restarts = 0 => HostVisibility

\* Containers come under the visibility of their namespace, and the host keeps its
\* own (UpdateVisibility, handleVisibilityUpdate).
VisibilityKept == VisibleAsAnnounced /\ HostVisibilityKept

LastAction ==
    LET rules == RulesFor(policies) IN
    IF rules = << >> THEN None ELSE rules[Len(rules)].action

\* Presets follow the policies.  When handlers take turns and nothing is in
\* flight, the kernel holds for a running container that has an endpoint the
\* action of the last policy with a rule of the preset, or nothing when there
\* is none: for containers that come before or after their pod and before or
\* after the policies, and for keys used before.
PresetsInSync ==
    Settled /\ config.serial /\ config.runtime # "hook" =>
        \A c \in Listed(dm) : state[c] = "running" /\ ~CrioReused(key[c]) =>
            dm.preset.BPFContainerMap[key[c]] = LastAction

\* No preset rule outlives its container.  When nothing is in flight, a key
\* with an action belongs to a container that was not removed.  With AnonMapExec,
\* whose UpdateSecurityPolicies holds the lock of its map from the read to the
\* write, this holds when the policy watcher and the runtime handler overlap.
NothingForStopped ==
    /\ Settled /\ restarts = 0 /\ config.runtime \notin {"crio", "hook"}
    /\ config.serial \/ config.preset = "AnonMapExec"
    =>
      \A k \in Keys : dm.preset.BPFContainerMap[k] # None /\ ~NRIReused(k) =>
        \E c \in ContainerIDs : key[c] = k /\ state[c] # "removed"

\* An alert of a preset that names a policy (TraceEvents looks the name up
\* when the event is read) names one whose action is what the kernel applies,
\* in the middle of updates too.
AlertNamesPolicy ==
    \A k \in Keys : Decision(dm.preset, k) # None /\ ~CrioReused(k) =>
        LET a == AlertFor(config.preset, dm.preset, k, dm.NsMap[k]) IN
        a.PolicyName # None =>
            \E p \in Policies : p.name = a.PolicyName /\ p.action = Decision(dm.preset, k)
=============================================================================
