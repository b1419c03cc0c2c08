--------------------------- MODULE DefaultPosture ---------------------------
(***************************************************************************)
(* The default posture of endpoints: what happens to an operation that a   *)
(* whitelist does not mention.  A namespace may be annotated with a        *)
(* posture for each scope (file, network, capabilities); the ConfigMap     *)
(* gives the posture of every other scope.                                 *)
(*                                                                         *)
(* Three informers work on it: namespaces ("ns", UpdateDefaultPosture),    *)
(* the ConfigMap ("cm", UpdateGlobalPosture and updatEndpointsWithCM) and  *)
(* pods ("pod", the part of UpdateEndPointWithPod about postures).  They   *)
(* share DefaultPosturesLock and EndPointsLock, which are modelled: a      *)
(* handler that waits for a lock takes no step.  EndPointsLock is held     *)
(* across steps only by "cm", so its holder is either "cm" or nobody.      *)
(* Pods only come; EndPoints models their going.                           *)
(***************************************************************************)
EXTENDS Integers, Sequences, FiniteSets

CONSTANTS
  Namespaces,
  Scopes,
  Annotations,   \* the [Scopes -> value] a namespace may be given
  Settings,      \* the [Scopes -> value] the ConfigMap may hold
  Deletable,     \* the namespaces that may be deleted and created again
  Together,      \* the sets of handlers that may run at the same time
  MaxEndPoints,  \* bound on the number of pods
  Free

\* The values an annotation may have: those the user writes, and the ones of a repair.
Words == {"none", "audit", "block"}
           \cup {a[sc] : a \in UNION {Annotations[n] : n \in Namespaces}, sc \in Scopes}

ASSUME PostureAssumption ==
  /\ Scopes # {}
  /\ \A n \in Namespaces : Annotations[n] \subseteq [Scopes -> Words]
  /\ Free \notin [Scopes -> Words]

Handlers == {"ns", "cm", "pod"}
Empty == [sc \in Scopes |-> ""]    \* tp.DefaultPosture{}

VARIABLES
  annotation,       \* [Namespaces -> [Scopes -> value]] at the API server
  delivered,        \* the same, as the namespace informer last delivered it; Free for none
  pending,          \* the namespaces with a change the informer has not delivered yet
  setting,          \* the ConfigMap as last delivered
  Global,           \* cfg.GlobalCfg.Default*Posture
  DefaultPostures,  \* dm.DefaultPostures; Free for no entry
  Logger,           \* fd.DefaultPostures
  EndPoints,        \* dm.EndPoints: [namespace, posture]
  Enforced,         \* the posture handed to the enforcer for each endpoint
  DPLock, EPLock,   \* holders of DefaultPosturesLock and EndPointsLock
  ns, cm, pod       \* the handlers

api == <<annotation, delivered, pending, setting>>
daemon == <<Global, DefaultPostures, Logger, EndPoints, Enforced>>
locks == <<DPLock, EPLock>>
vars == <<api, daemon, locks, ns, cm, pod>>

NsIdle == [pc |-> "idle", action |-> "MODIFIED", name |-> Free, posture |-> Empty, annotated |-> FALSE,
           length |-> 0, idx |-> 0]
PodIdle == [pc |-> "idle", name |-> Free, posture |-> Empty]

Busy == {h \in Handlers : CASE h = "ns" -> ns.pc # "idle"
                            [] h = "cm" -> cm \notin {"idle", "failed"}
                            [] h = "pod" -> pod.pc # "idle"}
MayStart(h) == h \notin Busy /\ (Busy = {} \/ \E t \in Together : Busy \cup {h} \subseteq t)

\* The posture of one scope.  An invalid annotation gives the default.
validateDefaultPosture(value, default) ==
  CASE value \in {"audit", "Audit"} -> "audit"
    [] value \in {"block", "Block"} -> "block"
    [] OTHER -> default

Annotates(value) == value \in {"audit", "Audit", "block", "Block"}

validateGlobalDefaultPosture(value) == IF value \in {"block", "Block"} THEN "block" ELSE "audit"

PostureOf(given, default) ==
  [sc \in Scopes |-> validateDefaultPosture(given[sc], default[sc])]
Annotated(given) == \E sc \in Scopes : Annotates(given[sc])
FullyAnnotated(given) == \A sc \in Scopes : Annotates(given[sc])

\* An invalid annotation is also overwritten at the API server with the default.
Repaired(given, default) ==
  [sc \in Scopes |-> IF given[sc] = "none" \/ Annotates(given[sc]) THEN given[sc]
                     ELSE default[sc]]

Init ==
  /\ annotation = [n \in Namespaces |-> [sc \in Scopes |-> "none"]]
  /\ delivered = annotation /\ pending = {}
  /\ Global = [sc \in Scopes |-> "audit"]
  /\ setting = Global
  /\ DefaultPostures = [n \in Namespaces |-> Free]
  /\ Logger = [n \in Namespaces |-> Global]
  /\ EndPoints = <<>> /\ Enforced = <<>>
  /\ DPLock = Free /\ EPLock = Free
  /\ ns = NsIdle /\ cm = "idle" /\ pod = PodIdle
-----------------------------------------------------------------------------
(* WatchDefaultPosture and UpdateDefaultPosture. *)

\* The user annotates a namespace.  Every change reaches the informer: the next one waits
\* for its delivery.
Annotate(n) ==
  /\ n \notin pending
  /\ annotation' \in {[annotation EXCEPT ![n] = a] : a \in Annotations[n]}
  /\ pending' = pending \cup {n}
  /\ UNCHANGED <<delivered, setting, daemon, locks, ns, cm, pod>>

\* The posture is computed before any lock is taken, from the global posture of the moment.
NsModified(n) ==
  /\ MayStart("ns") /\ n \in pending
  /\ delivered' = [delivered EXCEPT ![n] = annotation[n]]
  /\ annotation' = [annotation EXCEPT ![n] = Repaired(@, Global)]
  /\ pending' = IF annotation'[n] = annotation[n] THEN pending \ {n} ELSE pending
  /\ ns' = [NsIdle EXCEPT !.pc = "lock", !.name = n,
                          !.posture = PostureOf(annotation[n], Global),
                          !.annotated = Annotated(annotation[n])]
  /\ UNCHANGED <<setting, daemon, locks, cm, pod>>

\* A namespace goes after its pods did.
NsDeleted(n) ==
  /\ n \in Deletable /\ MayStart("ns") /\ delivered[n] # Free
  /\ pod.name # n /\ \A i \in DOMAIN EndPoints : EndPoints[i].namespace # n
  /\ n \notin pending /\ pending' = pending \cup {n}
  /\ annotation' = [annotation EXCEPT ![n] = [sc \in Scopes |-> "none"]]
  /\ delivered' = [delivered EXCEPT ![n] = Free]
  /\ ns' = [NsIdle EXCEPT !.pc = "lock", !.action = "DELETED", !.name = n,
                          !.annotated = Annotated(delivered[n])]
  /\ UNCHANGED <<setting, daemon, locks, cm, pod>>

\* Mutant: only the endpoints there are learn of the annotation.
NsLockForgets ==
  /\ ns.pc = "lock" /\ DPLock = Free
  /\ DPLock' = "ns"
  /\ Logger' = [Logger EXCEPT ![ns.name] =
                  IF ns.action = "DELETED" THEN Free ELSE ns.posture]
  /\ ns' = [ns EXCEPT !.pc = "length"]
  /\ UNCHANGED <<api, Global, DefaultPostures, EndPoints, Enforced, EPLock, cm, pod>>

\* The entry of a deleted namespace is removed, and set again if it was annotated.
NsLock ==
  /\ ns.pc = "lock" /\ DPLock = Free
  /\ DPLock' = "ns"
  /\ DefaultPostures' = [DefaultPostures EXCEPT ![ns.name] =
                           CASE ns.annotated -> ns.posture
                             [] ~ns.annotated /\ ns.action = "DELETED" -> Free
                             [] OTHER -> @]
  /\ Logger' = [Logger EXCEPT ![ns.name] =
                  IF ns.action = "DELETED" THEN Free ELSE ns.posture]
  /\ ns' = [ns EXCEPT !.pc = "length"]
  /\ UNCHANGED <<api, Global, EndPoints, Enforced, EPLock, cm, pod>>

NsLength ==
  /\ ns.pc = "length" /\ EPLock = Free
  /\ ns' = [ns EXCEPT !.pc = "copy", !.length = Len(EndPoints), !.idx = 1]
  /\ UNCHANGED <<api, daemon, locks, cm, pod>>

NsCopy ==
  /\ ns.pc = "copy" /\ ns.idx <= ns.length /\ EPLock = Free
  /\ LET e == EndPoints[ns.idx]
     IN  ns' = IF e.namespace = ns.name /\ e.posture # ns.posture
               THEN [ns EXCEPT !.pc = "write"] ELSE [ns EXCEPT !.idx = @ + 1]
  /\ UNCHANGED <<api, daemon, locks, cm, pod>>

NsWrite ==
  /\ ns.pc = "write" /\ EPLock = Free
  /\ EndPoints' = [EndPoints EXCEPT ![ns.idx].posture = ns.posture]
  /\ ns' = [ns EXCEPT !.pc = "enforce"]
  /\ UNCHANGED <<api, Global, DefaultPostures, Logger, Enforced, locks, cm, pod>>

NsEnforce ==
  /\ ns.pc = "enforce"
  /\ Enforced' = [Enforced EXCEPT ![ns.idx] = ns.posture]
  /\ ns' = [ns EXCEPT !.pc = "copy", !.idx = @ + 1]
  /\ UNCHANGED <<api, Global, DefaultPostures, Logger, EndPoints, locks, cm, pod>>

\* Mutant: the lock is kept.
NsDoneLocked ==
  /\ ns.pc = "copy" /\ ns.idx > ns.length
  /\ ns' = NsIdle
  /\ UNCHANGED <<api, daemon, locks, cm, pod>>

NsDone ==
  /\ ns.pc = "copy" /\ ns.idx > ns.length
  /\ DPLock' = Free
  /\ ns' = NsIdle
  /\ UNCHANGED <<api, daemon, EPLock, cm, pod>>
-----------------------------------------------------------------------------
(* WatchConfigMap: UpdateGlobalPosture, then updatEndpointsWithCM.  Both take           *)
(* EndPointsLock first and DefaultPosturesLock second, and do all their work under the  *)
(* two.                                                                                 *)

CmModified(s) ==
  /\ MayStart("cm") /\ setting # s
  /\ setting' = s
  /\ cm' = "lockEP"
  /\ UNCHANGED <<annotation, delivered, pending, daemon, locks, ns, pod>>

CmLockEP ==
  /\ cm \in {"lockEP", "lockEPAgain"} /\ EPLock = Free
  /\ EPLock' = "cm"
  /\ cm' = IF cm = "lockEP" THEN "global" ELSE "endpoints"
  /\ UNCHANGED <<api, daemon, DPLock, ns, pod>>

UpdateGlobalPosture ==
  /\ cm = "global" /\ DPLock = Free
  /\ Global' = [sc \in Scopes |-> validateGlobalDefaultPosture(setting[sc])]
  /\ EPLock' = Free
  /\ cm' = "lockEPAgain"
  /\ UNCHANGED <<api, DefaultPostures, Logger, EndPoints, Enforced, DPLock, ns, pod>>

\* The endpoints whose posture differs from the one the annotations, and for the rest the
\* ConfigMap's own values, give.
Changed ==
  {i \in DOMAIN EndPoints :
     LET n == EndPoints[i].namespace
     IN  /\ ~FullyAnnotated(annotation[n])
         /\ EndPoints[i].posture # PostureOf(annotation[n], setting)}

updatEndpointsWithCM ==
  /\ cm = "endpoints" /\ DPLock = Free
  /\ LET New(i) == PostureOf(annotation[EndPoints[i].namespace], setting)
         touched == {EndPoints[i].namespace : i \in Changed}
         PostureFor(n) == PostureOf(annotation[n], setting)
     IN  /\ EndPoints' = [i \in DOMAIN EndPoints |->
                            IF i \in Changed THEN [EndPoints[i] EXCEPT !.posture = New(i)]
                            ELSE EndPoints[i]]
         /\ Enforced' = [i \in DOMAIN Enforced |-> IF i \in Changed THEN New(i) ELSE Enforced[i]]
         /\ Logger' = [n \in Namespaces |-> IF n \in touched THEN PostureFor(n) ELSE Logger[n]]
         /\ DefaultPostures' =
              [n \in Namespaces |-> IF n \in touched /\ Annotated(annotation[n])
                                    THEN PostureFor(n) ELSE DefaultPostures[n]]
         /\ annotation' = [n \in Namespaces |-> Repaired(annotation[n], setting)]
         /\ pending' = pending \cup {n \in Namespaces : annotation'[n] # annotation[n]}
  /\ EPLock' = Free
  /\ cm' = "idle"
  /\ UNCHANGED <<delivered, setting, Global, DPLock, ns, pod>>

\* The namespaces cannot be listed: the endpoints keep their postures.
NamespaceListFails ==
  /\ cm = "endpoints" /\ DPLock = Free
  /\ EPLock' = Free
  /\ cm' = "failed"
  /\ UNCHANGED <<api, daemon, DPLock, ns, pod>>
-----------------------------------------------------------------------------
(* The pod informer: the posture is read under one lock, the endpoint published under   *)
(* the other, and handed to the enforcer under none.                                    *)

PodAdded(n) ==
  /\ MayStart("pod") /\ Len(EndPoints) < MaxEndPoints
  /\ pod' = [PodIdle EXCEPT !.pc = "posture", !.name = n]
  /\ UNCHANGED <<api, daemon, locks, ns, cm>>

PodPosture ==
  /\ pod.pc = "posture" /\ DPLock = Free
  /\ pod' = [pod EXCEPT !.pc = "publish",
               !.posture = IF DefaultPostures[pod.name] = Free THEN Global
                           ELSE DefaultPostures[pod.name]]
  /\ UNCHANGED <<api, daemon, locks, ns, cm>>

PodPublish ==
  /\ pod.pc = "publish" /\ EPLock = Free
  /\ EndPoints' = Append(EndPoints, [namespace |-> pod.name, posture |-> pod.posture])
  /\ Enforced' = Append(Enforced, Empty)
  /\ pod' = [pod EXCEPT !.pc = "push"]
  /\ UNCHANGED <<api, Global, DefaultPostures, Logger, locks, ns, cm>>

PodPush ==
  /\ pod.pc = "push"
  /\ Enforced' = [Enforced EXCEPT ![Len(Enforced)] = pod.posture]
  /\ pod' = PodIdle
  /\ UNCHANGED <<api, Global, DefaultPostures, Logger, EndPoints, locks, ns, cm>>
-----------------------------------------------------------------------------
NsNext == NsLock \/ NsLength \/ NsCopy \/ NsWrite \/ NsEnforce \/ NsDone
CmNext == CmLockEP \/ UpdateGlobalPosture \/ updatEndpointsWithCM \/ NamespaceListFails
PodNext == PodPosture \/ PodPublish \/ PodPush

Next ==
  \/ \E n \in Namespaces : Annotate(n) \/ NsModified(n) \/ NsDeleted(n) \/ PodAdded(n)
  \/ \E s \in Settings : CmModified(s)
  \/ NsNext \/ CmNext \/ PodNext

\* A handler that has started goes on whenever it can: it is a goroutine of its informer
\* and Go's scheduler and mutexes starve none.
Fairness == SF_vars(NsNext) /\ SF_vars(CmNext) /\ SF_vars(PodNext)

Spec == Init /\ [][Next]_vars /\ Fairness
-----------------------------------------------------------------------------
(* Properties. *)

Quiet == Busy = {} /\ cm = "idle" /\ pending = {}

\* Once every event is handled, and no listing of the namespaces failed, an endpoint has
\* the posture its namespace is annotated with and the global one for the other scopes,
\* and that posture is in force (UpdateDefaultPosture, updatEndpointsWithCM and the posture
\* a new endpoint gets from UpdateEndPointWithPod).
PostureInSync ==
  Quiet =>
    \A i \in DOMAIN EndPoints :
      /\ EndPoints[i].posture = PostureOf(delivered[EndPoints[i].namespace], Global)
      /\ Enforced[i] = EndPoints[i].posture

\* A handler that has started is done some time: nobody waits for DefaultPosturesLock or
\* EndPointsLock forever (UpdateDefaultPosture, UpdateGlobalPosture, updatEndpointsWithCM).
HandlersFinish == \A h \in Handlers : h \in Busy ~> h \notin Busy
=============================================================================
