------------------------ MODULE DefaultPostureProofs ------------------------
(***************************************************************************)
(* A proof that the handlers of namespaces, of the ConfigMap and of pods   *)
(* leave every endpoint with the posture it should have, for any           *)
(* namespaces, scopes, settings, annotations and number of pods.           *)
(*                                                                         *)
(* The conditions are those of the instance TLC checks: handlers take      *)
(* turns (InTurn), the ConfigMap holds the words audit and block           *)
(* (PlainSettings), and a namespace that has annotations has one for every *)
(* scope, keeps them and is not deleted (AnnotationsStay).  Without any of *)
(* them TLC finds PostureInSync violated.                                  *)
(***************************************************************************)
EXTENDS DefaultPosture, TLAPS

Postures == [Scopes -> {"audit", "block"}]
AllNone == [sc \in Scopes |-> "none"]
Unannotated(n) == \A a \in Annotations[n] : a = AllNone

InTurn == Together = {}
PlainSettings == Settings \subseteq Postures
AnnotationsStay ==
  \A n \in Namespaces :
    \/ Unannotated(n)
    \/ n \notin Deletable /\ \A a \in Annotations[n] : \A sc \in Scopes : a[sc] # "none"

Conditions == InTurn /\ PlainSettings /\ AnnotationsStay

Given == [Scopes -> Words]

NsStates ==
  [pc : {"idle", "lock", "length", "copy", "write", "enforce"}, action : {"MODIFIED", "DELETED"},
   name : Namespaces \cup {Free}, posture : Postures \cup {Empty}, annotated : BOOLEAN,
   length : Nat, idx : Nat]
Hosts == [namespace : Namespaces, posture : Postures]

Shape ==
  /\ annotation \in [Namespaces -> Given]
  /\ delivered \in [Namespaces -> Given \cup {Free}]
  /\ pending \subseteq Namespaces
  /\ Global \in Postures /\ setting \in Postures
  /\ DefaultPostures \in [Namespaces -> Postures \cup {Free}]
  /\ EndPoints \in Seq(Hosts)
  /\ Enforced \in Seq(Postures \cup {Empty}) /\ Len(Enforced) = Len(EndPoints)
  /\ ns \in NsStates
  /\ cm \in {"idle", "failed", "lockEP", "global", "lockEPAgain", "endpoints"}
  /\ pod \in [pc : {"idle", "posture", "publish", "push"}, name : Namespaces \cup {Free},
              posture : Postures \cup {Empty}]

\* One handler at a time.
OneBusy ==
  /\ ns.pc # "idle" => cm \in {"idle", "failed"} /\ pod.pc = "idle"
  /\ pod.pc # "idle" => cm \in {"idle", "failed"}

\* The global posture is that of the ConfigMap, except while the change is being handled.
GlobalInv == cm \notin {"lockEP", "global"} => Global = setting

\* A namespace without a change to be delivered has been delivered as it is, and the
\* annotations that are given are valid.  A namespace is annotated in every scope or in none.
DeliveredInv ==
  \A n \in Namespaces :
    /\ n \notin pending => /\ delivered[n] = annotation[n]
                           /\ annotation[n] = AllNone \/ FullyAnnotated(annotation[n])
    /\ Unannotated(n) => /\ annotation[n] = AllNone /\ delivered[n] \in {AllNone, Free}
                         /\ DefaultPostures[n] = Free
    /\ ~Unannotated(n) => /\ delivered[n] # Free
                          /\ \/ n \notin pending
                             \/ \A sc \in Scopes : annotation[n][sc] # "none"

\* dm.DefaultPostures has the posture of the annotations delivered, except before the
\* handler of a namespace has set it.
EntryInv ==
  \A n \in Namespaces :
    n \notin pending /\ ~(ns.pc = "lock" /\ ns.name = n) =>
      DefaultPostures[n] = IF delivered[n] = AllNone THEN Free ELSE PostureOf(delivered[n], Global)

\* The handler of a namespace works with the annotations delivered and has come as far as
\* its index; a namespace that is deleted has no endpoint.
NsInv ==
  ns.pc # "idle" =>
    /\ ns.name \in Namespaces
    /\ ns.action = "MODIFIED" => /\ delivered[ns.name] # Free
                                 /\ delivered[ns.name] = AllNone => Unannotated(ns.name)
                                 /\ ns.posture = PostureOf(delivered[ns.name], Global)
                                 /\ ns.annotated = Annotated(delivered[ns.name])
    /\ ns.action = "DELETED" => /\ ~ns.annotated /\ ns.name \in pending
                                /\ \A i \in DOMAIN EndPoints : EndPoints[i].namespace # ns.name
    /\ ns.pc \in {"copy", "write", "enforce"} => ns.length = Len(EndPoints) /\ ns.idx \in 1 .. Len(EndPoints) + 1
    /\ ns.pc \in {"write", "enforce"} => ns.idx <= Len(EndPoints) /\ EndPoints[ns.idx].namespace = ns.name
    /\ ns.pc = "enforce" => EndPoints[ns.idx].posture = ns.posture

PodInv ==
  /\ pod.pc # "idle" => pod.name \in Namespaces
  /\ pod.pc \in {"publish", "push"} =>
       pod.posture \in Postures /\ (pod.name \in pending \/ pod.posture = PostureOf(delivered[pod.name], Global))
  /\ pod.pc = "push" => Len(EndPoints) > 0 /\ EndPoints[Len(EndPoints)].posture = pod.posture

\* An endpoint has the posture it should have, or a handler is to come by.
EndPointsInv ==
  \A i \in DOMAIN EndPoints :
    LET n == EndPoints[i].namespace
    IN  \/ n \in pending
        \/ cm # "idle" /\ ~FullyAnnotated(delivered[n])
        \/ ns.pc # "idle" /\ ns.name = n /\ (ns.pc \in {"lock", "length"} \/ i >= ns.idx)
        \/ EndPoints[i].posture = PostureOf(delivered[n], Global)

EnforcedInv ==
  \A i \in DOMAIN EndPoints :
    \/ ns.pc = "enforce" /\ i = ns.idx
    \/ pod.pc = "push" /\ i = Len(EndPoints)
    \/ Enforced[i] = EndPoints[i].posture

IInv ==
  /\ Shape /\ OneBusy /\ GlobalInv /\ DeliveredInv /\ EntryInv
  /\ NsInv /\ PodInv /\ EndPointsInv /\ EnforcedInv
-----------------------------------------------------------------------------
(* The operators on postures. *)

\* A posture computed from annotations has audit or block for every scope.
LEMMA PostureOfType ==
  ASSUME NEW a \in Given, NEW d \in Postures
  PROVE  PostureOf(a, d) \in Postures
BY DEF PostureOf, validateDefaultPosture, Given, Postures

\* With an annotation for every scope the default does not matter.
LEMMA FullIgnoresDefault ==
  ASSUME NEW a \in Given, NEW d, NEW e, FullyAnnotated(a)
  PROVE  PostureOf(a, d) = PostureOf(a, e)
BY DEF PostureOf, validateDefaultPosture, FullyAnnotated, Annotates

\* Without annotations the posture is the default.
LEMMA NoneGivesDefault ==
  ASSUME NEW d \in Postures
  PROVE  PostureOf(AllNone, d) = d
BY DEF PostureOf, validateDefaultPosture, AllNone, Postures

LEMMA NoneFacts ==
  /\ AllNone \in Given /\ ~Annotated(AllNone) /\ ~FullyAnnotated(AllNone)
  /\ \A d : Repaired(AllNone, d) = AllNone
  /\ Free \notin Given /\ Free \notin Postures
<1>1. AllNone \in Given /\ ~Annotated(AllNone)
  BY DEF AllNone, Given, Annotated, Annotates, Words
<1>2. ~FullyAnnotated(AllNone)
  BY PostureAssumption DEF AllNone, FullyAnnotated, Annotates
<1>3. \A d : Repaired(AllNone, d) = AllNone
  BY DEF AllNone, Repaired
<1>4. Free \notin Given /\ Free \notin Postures
  <2>1. Postures \subseteq Given
    BY DEF Postures, Given, Words
  <2> QED BY <2>1, PostureAssumption DEF Given
<1> QED BY <1>1, <1>2, <1>3, <1>4

LEMMA FullFacts ==
  ASSUME NEW a \in Given, FullyAnnotated(a)
  PROVE  /\ Annotated(a) /\ a # AllNone
         /\ \A d : Repaired(a, d) = a
BY PostureAssumption DEF FullyAnnotated, Annotated, AllNone, Annotates, Repaired, Given

\* Annotations that need no repair and are given for all scopes are valid for all scopes;
\* a repair keeps them given.
LEMMA RepairFacts ==
  ASSUME NEW a \in Given, NEW d \in Postures
  PROVE  /\ Repaired(a, d) \in Given
         /\ (\A sc \in Scopes : a[sc] # "none") =>
              /\ a # AllNone
              /\ \A sc \in Scopes : Repaired(a, d)[sc] # "none"
              /\ Repaired(a, d) = a => FullyAnnotated(a)
<1>1. \A sc \in Scopes : d[sc] \in Words /\ d[sc] # "none" /\ Annotates(d[sc])
  BY DEF Postures, Annotates, Words
<1>2. Repaired(a, d) \in Given
  BY <1>1 DEF Repaired, Given
<1>3. \A sc \in Scopes : Repaired(a, d)[sc] = IF a[sc] = "none" \/ Annotates(a[sc]) THEN a[sc] ELSE d[sc]
  BY DEF Repaired
<1>4. (\A sc \in Scopes : a[sc] # "none") => a # AllNone
  BY PostureAssumption DEF AllNone
<1> QED BY <1>1, <1>2, <1>3, <1>4 DEF FullyAnnotated

\* Handlers in turn: one that starts finds no other at work.
LEMMA StartsAlone ==
  ASSUME Conditions, NEW h \in Handlers, MayStart(h)
  PROVE  ns.pc = "idle" /\ cm \in {"idle", "failed"} /\ pod.pc = "idle"
<1>1. Busy = {}
  BY DEF Conditions, InTurn, MayStart
<1> QED BY <1>1 DEF Busy, Handlers

\* The global posture after a change is the ConfigMap's.
LEMMA ValidatedSetting ==
  ASSUME setting \in Postures
  PROVE  [sc \in Scopes |-> validateGlobalDefaultPosture(setting[sc])] = setting
BY DEF Postures, validateGlobalDefaultPosture
-----------------------------------------------------------------------------
(* The inductive invariant: one lemma per action. *)

LEMMA InitInv == Conditions /\ Init => IInv
<1> SUFFICES ASSUME Conditions, Init PROVE IInv
  OBVIOUS
<1>1. Global \in Postures /\ setting \in Postures /\ setting = Global
  BY DEF Init, Postures
<1>2. annotation = [n \in Namespaces |-> AllNone] /\ delivered = annotation /\ pending = {}
  BY DEF Init, AllNone
<1>3. Shape
  <2>1. /\ annotation \in [Namespaces -> Given] /\ delivered \in [Namespaces -> Given \cup {Free}]
        /\ pending \subseteq Namespaces /\ DefaultPostures \in [Namespaces -> Postures \cup {Free}]
    BY <1>2, NoneFacts DEF Init
  <2>2. /\ EndPoints \in Seq(Hosts) /\ Enforced \in Seq(Postures \cup {Empty})
        /\ Len(Enforced) = Len(EndPoints)
    BY DEF Init
  <2>3. /\ ns \in NsStates
        /\ pod \in [pc : {"idle", "posture", "publish", "push"}, name : Namespaces \cup {Free},
                    posture : Postures \cup {Empty}]
    BY DEF Init, NsStates, NsIdle, PodIdle
  <2>4. cm \in {"idle", "failed", "lockEP", "global", "lockEPAgain", "endpoints"}
    BY DEF Init
  <2> QED BY <1>1, <2>1, <2>2, <2>3, <2>4 DEF Shape
<1>4. OneBusy /\ GlobalInv
  BY <1>1 DEF Init, OneBusy, GlobalInv, NsIdle, PodIdle
<1>5. DeliveredInv /\ EntryInv
  BY <1>2, NoneFacts DEF Init, DeliveredInv, EntryInv
<1>6. NsInv /\ PodInv /\ EndPointsInv /\ EnforcedInv
  BY DEF Init, NsInv, PodInv, EndPointsInv, EnforcedInv, NsIdle, PodIdle
<1> QED BY <1>3, <1>4, <1>5, <1>6 DEF IInv

LEMMA AnnotateStep ==
  ASSUME Conditions, IInv, NEW n \in Namespaces, Annotate(n)
  PROVE  IInv'
<1> USE DEF IInv
<1>1. PICK a \in Annotations[n] : annotation' = [annotation EXCEPT ![n] = a]
  BY DEF Annotate
<1>2. a \in Given
  BY PostureAssumption DEF Given
<1>3. /\ pending' = pending \cup {n}
      /\ UNCHANGED <<delivered, setting, Global, DefaultPostures, EndPoints, Enforced, ns, cm, pod>>
  BY DEF Annotate, daemon
<1>4. Shape'
  BY <1>1, <1>2, <1>3 DEF Shape, NsStates, Hosts
<1>5. OneBusy' /\ GlobalInv' /\ NsInv' /\ PodInv' /\ EnforcedInv'
  BY <1>3 DEF OneBusy, GlobalInv, NsInv, PodInv, EnforcedInv
<1>6. EntryInv' /\ EndPointsInv'
  BY <1>3 DEF EntryInv, EndPointsInv
<1>7. DeliveredInv'
  <2> SUFFICES ASSUME NEW m \in Namespaces
               PROVE  DeliveredInv!(m)'
    BY DEF DeliveredInv
  <2>1. CASE m # n
    BY <2>1, <1>1, <1>3 DEF DeliveredInv, Shape, NsStates, Hosts, Unannotated
  <2>2. CASE m = n
    BY <2>2, <1>1, <1>3 DEF DeliveredInv, Shape, NsStates, Hosts, Unannotated, Conditions, AnnotationsStay
  <2> QED BY <2>1, <2>2
<1> QED BY <1>4, <1>5, <1>6, <1>7

LEMMA NsModifiedStep ==
  ASSUME Conditions, IInv, NEW n \in Namespaces, NsModified(n)
  PROVE  IInv'
<1> USE DEF IInv
<1> DEFINE a == annotation[n]
           r == Repaired(a, Global)
<1>1. ns.pc = "idle" /\ cm \in {"idle", "failed"} /\ pod.pc = "idle"
  BY StartsAlone DEF NsModified, Handlers
<1>2. a \in Given /\ Global \in Postures /\ r \in Given /\ PostureOf(a, Global) \in Postures
  BY PostureOfType, RepairFacts DEF Shape, NsStates, Hosts
<1>3. /\ n \in pending
      /\ delivered' = [delivered EXCEPT ![n] = a] /\ annotation' = [annotation EXCEPT ![n] = r]
      /\ pending' = IF r = a THEN pending \ {n} ELSE pending
      /\ UNCHANGED <<setting, Global, DefaultPostures, EndPoints, Enforced, cm, pod>>
  BY DEF NsModified, daemon, Shape, NsStates, Hosts
<1>4. ns' = [pc |-> "lock", action |-> "MODIFIED", name |-> n, posture |-> PostureOf(a, Global),
             annotated |-> Annotated(a), length |-> 0, idx |-> 0]
  BY DEF NsModified, NsIdle
<1>5. Annotated(a) \in BOOLEAN
  BY DEF Annotated
<1> HIDE DEF a, r
<1>6. Shape'
  BY <1>2, <1>3, <1>4, <1>5 DEF Shape, NsStates, Hosts
<1>7. OneBusy' /\ GlobalInv' /\ PodInv' /\ EnforcedInv'
  BY <1>1, <1>3, <1>4 DEF OneBusy, GlobalInv, PodInv, EnforcedInv
<1>8. NsInv'
  <2>1. a = AllNone => Unannotated(n)
    BY <1>2, <1>3, RepairFacts DEF DeliveredInv, a
  <2> QED BY <2>1, <1>2, <1>3, <1>4, NoneFacts DEF NsInv, Shape, NsStates, Hosts, Unannotated
<1>9. EntryInv'
  BY <1>1, <1>3, <1>4 DEF EntryInv, Shape, NsStates, Hosts
<1>10. EndPointsInv'
  BY <1>1, <1>3, <1>4 DEF EndPointsInv, Shape, NsStates, Hosts
<1>11. DeliveredInv'
  <2> SUFFICES ASSUME NEW m \in Namespaces
               PROVE  DeliveredInv!(m)'
    BY DEF DeliveredInv
  <2>1. CASE m # n
    BY <2>1, <1>3 DEF DeliveredInv, Shape, NsStates, Hosts, Unannotated
  <2>2. CASE m = n /\ Unannotated(n)
    BY <2>2, <1>3, NoneFacts DEF DeliveredInv, Shape, NsStates, Hosts, Unannotated, a, r
  <2>3. CASE m = n /\ ~Unannotated(n)
    <3>1. \A sc \in Scopes : a[sc] # "none"
      BY <2>3, <1>3 DEF DeliveredInv, a
    <3>2. (\A sc \in Scopes : r[sc] # "none") /\ (r = a => FullyAnnotated(a))
      BY <3>1, <1>2, RepairFacts DEF r
    <3> QED BY <2>3, <3>2, <1>2, <1>3, NoneFacts DEF Shape, NsStates, Hosts, Unannotated
  <2> QED BY <2>1, <2>2, <2>3
<1> QED BY <1>6, <1>7, <1>8, <1>9, <1>10, <1>11

LEMMA NsDeletedStep ==
  ASSUME Conditions, IInv, NEW n \in Namespaces, NsDeleted(n)
  PROVE  IInv'
<1> USE DEF IInv
<1>1. ns.pc = "idle" /\ cm \in {"idle", "failed"} /\ pod.pc = "idle"
  BY StartsAlone DEF NsDeleted, Handlers
<1>2. Unannotated(n) /\ delivered[n] = AllNone
  BY DEF NsDeleted, Conditions, AnnotationsStay, DeliveredInv
<1>3. /\ pending' = pending \cup {n}
      /\ delivered' = [delivered EXCEPT ![n] = Free] /\ annotation' = [annotation EXCEPT ![n] = AllNone]
      /\ \A i \in DOMAIN EndPoints : EndPoints[i].namespace # n
      /\ UNCHANGED <<setting, Global, DefaultPostures, EndPoints, Enforced, cm, pod>>
  BY DEF NsDeleted, daemon, AllNone
<1>4. ns' = [pc |-> "lock", action |-> "DELETED", name |-> n, posture |-> Empty,
             annotated |-> FALSE, length |-> 0, idx |-> 0]
  <2>1. Annotated(delivered[n]) = FALSE
    BY <1>2, NoneFacts DEF Annotated
  <2>2. ns' = [pc |-> "lock", action |-> "DELETED", name |-> n, posture |-> Empty,
               annotated |-> Annotated(delivered[n]), length |-> 0, idx |-> 0]
    BY DEF NsDeleted, NsIdle
  <2> QED BY <2>1, <2>2
<1>5. Shape'
  BY <1>3, <1>4, NoneFacts DEF Shape, NsStates, Hosts
<1>6. OneBusy' /\ GlobalInv' /\ PodInv' /\ EnforcedInv'
  BY <1>1, <1>3, <1>4 DEF OneBusy, GlobalInv, PodInv, EnforcedInv
<1>7. NsInv'
  BY <1>3, <1>4 DEF NsInv, Shape, NsStates, Hosts
<1>8. EntryInv' /\ EndPointsInv'
  BY <1>1, <1>3, <1>4 DEF EntryInv, EndPointsInv, Shape, NsStates, Hosts
<1>9. DeliveredInv'
  BY <1>2, <1>3 DEF DeliveredInv, Shape, NsStates, Hosts, Unannotated
<1> QED BY <1>5, <1>6, <1>7, <1>8, <1>9

LEMMA NsLockStep ==
  ASSUME Conditions, IInv, NsLock
  PROVE  IInv'
<1> USE DEF IInv
<1> DEFINE n == ns.name
<1>1. /\ ns.pc = "lock" /\ n \in Namespaces
      /\ UNCHANGED <<annotation, delivered, pending, setting, Global, EndPoints, Enforced, cm, pod>>
      /\ ns' = [ns EXCEPT !.pc = "length"]
  BY DEF NsLock, api, NsInv
<1>2. DefaultPostures' = [DefaultPostures EXCEPT ![n] = IF ns.annotated THEN ns.posture
                            ELSE IF ns.action = "DELETED" THEN Free ELSE DefaultPostures[n]]
  BY DEF NsLock, Shape, NsStates, Hosts
<1>3. ns.annotated => ns.posture \in Postures
  <2>1. ns.annotated => ns.action = "MODIFIED"
    BY <1>1 DEF NsInv, Shape, NsStates
  <2>2. ns.annotated => delivered[n] \in Given /\ ns.posture = PostureOf(delivered[n], Global)
    BY <2>1, <1>1 DEF NsInv, Shape
  <2> QED BY <2>2, PostureOfType DEF Shape
<1>4. Shape'
  BY <1>1, <1>2, <1>3 DEF Shape, NsStates, Hosts
<1>5. OneBusy' /\ GlobalInv' /\ PodInv' /\ EnforcedInv'
  BY <1>1 DEF OneBusy, GlobalInv, PodInv, EnforcedInv, Shape, NsStates, Hosts
<1>6. NsInv'
  BY <1>1 DEF NsInv, Shape, NsStates, Hosts
<1>7. EndPointsInv'
  BY <1>1 DEF EndPointsInv, Shape, NsStates, Hosts
<1>8. DeliveredInv'
  <2> SUFFICES ASSUME NEW m \in Namespaces
               PROVE  DeliveredInv!(m)'
    BY DEF DeliveredInv
  <2>1. Unannotated(m) /\ m = n => DefaultPostures'[m] = Free
    BY <1>1, <1>2, NoneFacts DEF DeliveredInv, NsInv, Shape, NsStates, Hosts
  <2> QED BY <2>1, <1>1, <1>2 DEF DeliveredInv, Shape, NsStates, Hosts, Unannotated
<1>9. EntryInv'
  <2> SUFFICES ASSUME NEW m \in Namespaces, m \notin pending
               PROVE  DefaultPostures'[m] = IF delivered[m] = AllNone THEN Free ELSE PostureOf(delivered[m], Global)
    BY <1>1 DEF EntryInv
  <2>1. CASE m # n
    BY <2>1, <1>1, <1>2 DEF EntryInv, Shape, NsStates, Hosts
  <2>2. CASE m = n
    <3>1. ns.action = "MODIFIED" /\ ns.posture = PostureOf(delivered[m], Global) /\ ns.annotated = Annotated(delivered[m])
      BY <2>2, <1>1 DEF NsInv, Shape, NsStates, Hosts
    <3>2. CASE delivered[m] = AllNone
      BY <2>2, <3>1, <3>2, <1>1, <1>2, NoneFacts DEF Shape, NsStates, Hosts, DeliveredInv, NsInv
    <3>3. CASE FullyAnnotated(delivered[m])
      BY <2>2, <3>1, <3>3, <1>1, <1>2, FullFacts DEF Shape, NsStates, Hosts, DeliveredInv
    <3> QED BY <3>2, <3>3 DEF DeliveredInv
  <2> QED BY <2>1, <2>2
<1> QED BY <1>4, <1>5, <1>6, <1>7, <1>8, <1>9

LEMMA NsLengthStep ==
  ASSUME Conditions, IInv, NsLength
  PROVE  IInv'
<1> USE DEF IInv
<1>1. /\ ns.pc = "length"
      /\ UNCHANGED <<annotation, delivered, pending, setting, Global, DefaultPostures, EndPoints, Enforced, cm, pod>>
      /\ ns' = [ns EXCEPT !.pc = "copy", !.length = Len(EndPoints), !.idx = 1]
  BY DEF NsLength, api, daemon
<1>2. Len(EndPoints) \in Nat
  BY DEF Shape, NsStates, Hosts
<1>3. Shape'
  BY <1>1, <1>2 DEF Shape, NsStates, Hosts
<1>4. OneBusy' /\ GlobalInv' /\ PodInv' /\ EnforcedInv' /\ DeliveredInv' /\ EntryInv'
  BY <1>1 DEF OneBusy, GlobalInv, PodInv, EnforcedInv, DeliveredInv, EntryInv, Shape, NsStates, Hosts, Unannotated
<1>5. NsInv'
  BY <1>1, <1>2 DEF NsInv, Shape, NsStates, Hosts, Unannotated
<1>6. EndPointsInv'
  BY <1>1, <1>2 DEF EndPointsInv, Shape, NsStates, Hosts
<1> QED BY <1>3, <1>4, <1>5, <1>6

LEMMA NsCopyStep ==
  ASSUME Conditions, IInv, NsCopy
  PROVE  IInv'
<1> USE DEF IInv
<1> DEFINE e == EndPoints[ns.idx]
<1>1. /\ ns.pc = "copy" /\ ns.idx <= ns.length
      /\ UNCHANGED <<annotation, delivered, pending, setting, Global, DefaultPostures, EndPoints, Enforced, cm, pod>>
      /\ ns' = IF e.namespace = ns.name /\ e.posture # ns.posture
               THEN [ns EXCEPT !.pc = "write"] ELSE [ns EXCEPT !.idx = ns.idx + 1]
  BY DEF NsCopy, api, daemon
<1>2. ns.idx \in DOMAIN EndPoints /\ ns.length = Len(EndPoints) /\ Len(EndPoints) \in Nat /\ ns.idx \in Nat
  BY <1>1 DEF NsInv, Shape, NsStates, Hosts
<1> HIDE DEF e
<1>3. Shape'
  <2>1. [ns EXCEPT !.pc = "write"] \in NsStates
    BY DEF Shape, NsStates
  <2>2. ns.idx + 1 \in Nat
    BY <1>2
  <2>3. \A k \in Nat : [ns EXCEPT !.idx = k] \in NsStates
    BY DEF Shape, NsStates
  <2>4. ns' \in NsStates
    BY <2>1, <2>2, <2>3, <1>1
  <2> QED BY <2>4, <1>1 DEF Shape
<1>4. OneBusy' /\ GlobalInv' /\ PodInv' /\ EnforcedInv' /\ DeliveredInv' /\ EntryInv'
  BY <1>1 DEF OneBusy, GlobalInv, PodInv, EnforcedInv, DeliveredInv, EntryInv, Shape, NsStates, Hosts, Unannotated
<1>5. NsInv'
  BY <1>1, <1>2 DEF NsInv, Shape, NsStates, Hosts, Unannotated, e
<1>6. EndPointsInv'
  <2> SUFFICES ASSUME NEW i \in DOMAIN EndPoints
               PROVE  EndPointsInv!(i)'
    BY <1>1 DEF EndPointsInv
  <2>0. i \in Nat
    BY DEF Shape, NsStates, Hosts
  <2>1. CASE e.namespace = ns.name /\ e.posture # ns.posture
    BY <2>0, <2>1, <1>1, <1>2 DEF EndPointsInv, Shape, NsStates, Hosts
  <2>2. CASE ~(e.namespace = ns.name /\ e.posture # ns.posture) /\ i # ns.idx
    BY <2>0, <2>2, <1>1, <1>2 DEF EndPointsInv, Shape, NsStates, Hosts
  <2>3. CASE ~(e.namespace = ns.name /\ e.posture # ns.posture) /\ i = ns.idx
    BY <2>0, <2>3, <1>1, <1>2 DEF EndPointsInv, NsInv, Shape, NsStates, Hosts, e
  <2> QED BY <2>1, <2>2, <2>3
<1> QED BY <1>3, <1>4, <1>5, <1>6

LEMMA NsWriteStep ==
  ASSUME Conditions, IInv, NsWrite
  PROVE  IInv'
<1> USE DEF IInv
<1> DEFINE e == [namespace |-> ns.name, posture |-> ns.posture]
<1>1. /\ ns.pc = "write" /\ ns' = [ns EXCEPT !.pc = "enforce"]
      /\ UNCHANGED <<annotation, delivered, pending, setting, Global, DefaultPostures, Enforced, cm, pod>>
  BY DEF NsWrite, api
<1>2. /\ ns.idx \in DOMAIN EndPoints /\ ns.length = Len(EndPoints) /\ Len(EndPoints) \in Nat /\ ns.idx \in Nat
      /\ EndPoints[ns.idx].namespace = ns.name /\ ns.name \in Namespaces
      /\ ns.action = "MODIFIED"
  BY <1>1 DEF NsInv, Shape, NsStates, Hosts
<1>3. ns.posture \in Postures /\ e \in Hosts
  BY <1>1, <1>2, PostureOfType DEF NsInv, Shape, NsStates, Hosts
<1>4. EndPoints' = [EndPoints EXCEPT ![ns.idx] = e]
  <2>1. [EndPoints[ns.idx] EXCEPT !.posture = ns.posture] = e
    <3>1. EndPoints[ns.idx] \in Hosts
      BY <1>2 DEF Shape
    <3> QED BY <3>1, <1>2 DEF Hosts
  <2> QED BY <2>1, <1>2 DEF NsWrite
<1>5. /\ Len(EndPoints') = Len(EndPoints) /\ DOMAIN EndPoints' = DOMAIN EndPoints
      /\ EndPoints' \in Seq(Hosts)
  BY <1>2, <1>3, <1>4 DEF Shape, NsStates, Hosts
<1>6. \A i \in DOMAIN EndPoints : EndPoints'[i] = IF i = ns.idx THEN e ELSE EndPoints[i]
  BY <1>4, <1>2 DEF Shape, NsStates, Hosts
<1> HIDE DEF e
<1>7. Shape'
  BY <1>1, <1>5 DEF Shape, NsStates, Hosts
<1>8. OneBusy' /\ GlobalInv' /\ DeliveredInv' /\ EntryInv'
  BY <1>1 DEF OneBusy, GlobalInv, DeliveredInv, EntryInv, Shape, NsStates, Hosts, Unannotated
<1>9. PodInv' /\ EnforcedInv'
  BY <1>1, <1>5, <1>6 DEF PodInv, EnforcedInv, Shape, NsStates, Hosts, OneBusy
<1>10. NsInv'
  BY <1>1, <1>2, <1>5, <1>6 DEF NsInv, Shape, NsStates, Hosts, Unannotated, e
<1>11. EndPointsInv'
  <2> SUFFICES ASSUME NEW i \in DOMAIN EndPoints
               PROVE  EndPointsInv!(i)'
    BY <1>5 DEF EndPointsInv
  <2>1. CASE i # ns.idx
    BY <2>1, <1>1, <1>6 DEF EndPointsInv, Shape, NsStates, Hosts
  <2>2. CASE i = ns.idx
    BY <2>2, <1>1, <1>2, <1>6 DEF NsInv, Shape, NsStates, Hosts, e
  <2> QED BY <2>1, <2>2
<1> QED BY <1>7, <1>8, <1>9, <1>10, <1>11

LEMMA NsEnforceStep ==
  ASSUME Conditions, IInv, NsEnforce
  PROVE  IInv'
<1> USE DEF IInv
<1>1. /\ ns.pc = "enforce" /\ ns' = [ns EXCEPT !.pc = "copy", !.idx = ns.idx + 1]
      /\ Enforced' = [Enforced EXCEPT ![ns.idx] = ns.posture]
      /\ UNCHANGED <<annotation, delivered, pending, setting, Global, DefaultPostures, EndPoints, cm, pod>>
  BY DEF NsEnforce, api
<1>2. /\ ns.idx \in DOMAIN EndPoints /\ ns.length = Len(EndPoints) /\ Len(EndPoints) \in Nat /\ ns.idx \in Nat
      /\ EndPoints[ns.idx].namespace = ns.name /\ EndPoints[ns.idx].posture = ns.posture
      /\ ns.idx \in DOMAIN Enforced /\ ns.action = "MODIFIED"
  BY <1>1 DEF NsInv, Shape, NsStates, Hosts
<1>3. Shape'
  <2>0. ns.idx + 1 \in Nat
    BY <1>2
  <2>a. \A k \in Nat : [ns EXCEPT !.pc = "copy", !.idx = k] \in NsStates
    BY DEF Shape, NsStates
  <2>b. ns.posture \in Postures \cup {Empty}
    BY DEF Shape, NsStates
  <2>1. ns' \in NsStates /\ ns.posture \in Postures \cup {Empty}
    BY <2>0, <2>a, <2>b, <1>1
  <2>2. Enforced' \in Seq(Postures \cup {Empty}) /\ Len(Enforced') = Len(Enforced)
    BY <2>1, <1>1, <1>2 DEF Shape
  <2> QED BY <2>1, <2>2, <1>1 DEF Shape
<1>4. OneBusy' /\ GlobalInv' /\ DeliveredInv' /\ EntryInv' /\ PodInv'
  BY <1>1 DEF OneBusy, GlobalInv, DeliveredInv, EntryInv, PodInv, Shape, NsStates, Hosts, Unannotated
<1>5. EnforcedInv'
  BY <1>1, <1>2 DEF EnforcedInv, Shape, NsStates, Hosts
<1>6. NsInv'
  BY <1>1, <1>2 DEF NsInv, Shape, NsStates, Hosts, Unannotated
<1>7. EndPointsInv'
  <2> SUFFICES ASSUME NEW i \in DOMAIN EndPoints
               PROVE  EndPointsInv!(i)'
    BY <1>1 DEF EndPointsInv
  <2>1. CASE i # ns.idx
    <3>1. i \in Nat
      BY DEF Shape, NsStates, Hosts
    <3> QED BY <2>1, <3>1, <1>1, <1>2 DEF EndPointsInv, Shape, NsStates, Hosts
  <2>2. CASE i = ns.idx
    BY <2>2, <1>1, <1>2 DEF NsInv, Shape, NsStates, Hosts
  <2> QED BY <2>1, <2>2
<1> QED BY <1>3, <1>4, <1>5, <1>6, <1>7

LEMMA NsDoneStep ==
  ASSUME Conditions, IInv, NsDone
  PROVE  IInv'
<1> USE DEF IInv
<1>1. /\ ns.pc = "copy" /\ ns.idx > ns.length /\ ns' = NsIdle
      /\ UNCHANGED <<annotation, delivered, pending, setting, Global, DefaultPostures, EndPoints, Enforced, cm, pod>>
  BY DEF NsDone, api, daemon
<1>2. Shape'
  BY <1>1 DEF Shape, NsStates, Hosts, NsIdle
<1>3. OneBusy' /\ GlobalInv' /\ DeliveredInv' /\ EntryInv' /\ PodInv' /\ EnforcedInv' /\ NsInv'
  BY <1>1 DEF OneBusy, GlobalInv, DeliveredInv, EntryInv, PodInv, EnforcedInv, NsInv, NsIdle, Shape, NsStates, Hosts, Unannotated
<1>4. EndPointsInv'
  <2>1. /\ ns.length = Len(EndPoints) /\ ns.idx \in Nat /\ Len(EndPoints) \in Nat
        /\ DOMAIN EndPoints = 1 .. Len(EndPoints)
    BY <1>1 DEF NsInv, Shape, NsStates
  <2>2. \A i \in DOMAIN EndPoints : ~(i >= ns.idx)
    BY <1>1, <2>1
  <2>3. ns.pc \notin {"lock", "length"}
    BY <1>1
  <2> QED BY <1>1, <2>2, <2>3 DEF EndPointsInv
<1> QED BY <1>2, <1>3, <1>4

LEMMA CmModifiedStep ==
  ASSUME Conditions, IInv, NEW s \in Settings, CmModified(s)
  PROVE  IInv'
<1> USE DEF IInv
<1>1. ns.pc = "idle" /\ cm \in {"idle", "failed"} /\ pod.pc = "idle"
  BY StartsAlone DEF CmModified, Handlers
<1>2. /\ setting' = s /\ cm' = "lockEP"
      /\ UNCHANGED <<annotation, delivered, pending, Global, DefaultPostures, EndPoints, Enforced, ns, pod>>
  BY DEF CmModified, daemon
<1>3. Shape'
  BY <1>2 DEF Shape, Conditions, PlainSettings
<1>4. OneBusy' /\ GlobalInv'
  BY <1>1, <1>2 DEF OneBusy, GlobalInv
<1>5. DeliveredInv' /\ EntryInv' /\ NsInv' /\ PodInv' /\ EnforcedInv'
  BY <1>1, <1>2 DEF DeliveredInv, EntryInv, NsInv, PodInv, EnforcedInv, Unannotated
<1>6. EndPointsInv'
  BY <1>1, <1>2 DEF EndPointsInv
<1> QED BY <1>3, <1>4, <1>5, <1>6

\* Taking EndPointsLock and a listing that fails change the program counter only.
LEMMA CmControlStep ==
  ASSUME Conditions, IInv, CmLockEP \/ NamespaceListFails
  PROVE  IInv'
<1> USE DEF IInv
<1>1. /\ cm # "idle" /\ cm' # "idle" /\ cm \notin {"idle", "failed"}
      /\ cm' \in {"lockEP", "global", "lockEPAgain", "endpoints", "failed"}
      /\ cm \in {"lockEP", "global"} <=> cm' \in {"lockEP", "global"}
      /\ UNCHANGED <<annotation, delivered, pending, setting, Global, DefaultPostures, EndPoints, Enforced, ns, pod>>
  BY DEF CmLockEP, NamespaceListFails, api, daemon
<1>2. Shape'
  BY <1>1 DEF Shape
<1>3. OneBusy' /\ GlobalInv'
  BY <1>1 DEF OneBusy, GlobalInv
<1>4. DeliveredInv' /\ EntryInv' /\ NsInv' /\ PodInv' /\ EnforcedInv'
  BY <1>1 DEF DeliveredInv, EntryInv, NsInv, PodInv, EnforcedInv, Unannotated
<1>5. EndPointsInv'
  BY <1>1 DEF EndPointsInv
<1> QED BY <1>2, <1>3, <1>4, <1>5

LEMMA UpdateGlobalPostureStep ==
  ASSUME Conditions, IInv, UpdateGlobalPosture
  PROVE  IInv'
<1> USE DEF IInv
<1>1. /\ cm = "global" /\ cm' = "lockEPAgain" /\ Global' = setting
      /\ UNCHANGED <<annotation, delivered, pending, setting, DefaultPostures, EndPoints, Enforced, ns, pod>>
  BY ValidatedSetting DEF UpdateGlobalPosture, api, Shape
<1>2. ns.pc = "idle" /\ pod.pc = "idle"
  BY <1>1 DEF OneBusy
<1>3. \A n \in Namespaces : FullyAnnotated(delivered[n]) /\ delivered[n] # Free
                             => PostureOf(delivered[n], Global') = PostureOf(delivered[n], Global)
  BY FullIgnoresDefault DEF Shape
<1>4. Shape'
  BY <1>1 DEF Shape
<1>5. OneBusy' /\ GlobalInv'
  BY <1>1, <1>2 DEF OneBusy, GlobalInv
<1>6. DeliveredInv' /\ NsInv' /\ PodInv' /\ EnforcedInv'
  BY <1>1, <1>2 DEF DeliveredInv, NsInv, PodInv, EnforcedInv, Unannotated
<1>7. \A n \in Namespaces : n \notin pending => delivered[n] # Free
                             /\ (delivered[n] = AllNone \/ FullyAnnotated(delivered[n]))
  BY NoneFacts DEF DeliveredInv, Shape
<1>8. EntryInv'
  BY <1>1, <1>2, <1>3, <1>7 DEF EntryInv
<1>9. EndPointsInv'
  <2> SUFFICES ASSUME NEW i \in DOMAIN EndPoints, EndPoints[i].namespace \notin pending,
                      FullyAnnotated(delivered[EndPoints[i].namespace])
               PROVE  EndPoints[i].posture = PostureOf(delivered[EndPoints[i].namespace], Global')
    BY <1>1 DEF EndPointsInv
  <2>1. EndPoints[i].namespace \in Namespaces
    <3>1. EndPoints[i] \in Hosts
      BY DEF Shape
    <3> QED BY <3>1 DEF Hosts
  <2>2. EndPoints[i].posture = PostureOf(delivered[EndPoints[i].namespace], Global)
    BY <1>2 DEF EndPointsInv
  <2> QED BY <2>1, <2>2, <1>3, <1>7
<1> QED BY <1>4, <1>5, <1>6, <1>8, <1>9

LEMMA updatEndpointsWithCMStep ==
  ASSUME Conditions, IInv, updatEndpointsWithCM
  PROVE  IInv'
<1> USE DEF IInv
<1> DEFINE N(i) == EndPoints[i].namespace
           P(n) == PostureOf(annotation[n], setting)
           R(n) == Repaired(annotation[n], setting)
           touched == {N(i) : i \in Changed}
<1>1. /\ cm = "endpoints" /\ cm' = "idle"
      /\ UNCHANGED <<delivered, setting, Global, ns, pod>>
      /\ EndPoints' = [i \in DOMAIN EndPoints |->
                         IF i \in Changed THEN [EndPoints[i] EXCEPT !.posture = P(N(i))] ELSE EndPoints[i]]
      /\ Enforced' = [i \in DOMAIN Enforced |-> IF i \in Changed THEN P(N(i)) ELSE Enforced[i]]
      /\ DefaultPostures' = [n \in Namespaces |-> IF n \in touched /\ Annotated(annotation[n])
                                                 THEN P(n) ELSE DefaultPostures[n]]
      /\ annotation' = [n \in Namespaces |-> R(n)]
      /\ pending' = pending \cup {n \in Namespaces : annotation'[n] # annotation[n]}
  BY DEF updatEndpointsWithCM
<1>2. ns.pc = "idle" /\ pod.pc = "idle" /\ Global = setting /\ setting \in Postures
  BY <1>1 DEF OneBusy, GlobalInv, Shape
<1>3. \A n \in Namespaces : annotation[n] \in Given /\ P(n) \in Postures /\ R(n) \in Given
  BY <1>2, PostureOfType, RepairFacts DEF Shape
<1>4. \A i \in DOMAIN EndPoints :
        /\ EndPoints[i] \in Hosts /\ N(i) \in Namespaces
        /\ i \in Changed <=> ~FullyAnnotated(annotation[N(i)]) /\ EndPoints[i].posture # P(N(i))
  <2>0. \A i \in DOMAIN EndPoints : EndPoints[i] \in Hosts
    BY DEF Shape
  <2>1. \A i \in DOMAIN EndPoints : EndPoints[i] \in Hosts /\ N(i) \in Namespaces
    BY <2>0 DEF Hosts
  <2>2. \A i \in DOMAIN EndPoints :
          i \in Changed <=> ~FullyAnnotated(annotation[N(i)]) /\ EndPoints[i].posture # P(N(i))
    BY DEF Changed
  <2> QED BY <2>1, <2>2
<1>5. DOMAIN EndPoints = 1 .. Len(EndPoints) /\ DOMAIN Enforced = DOMAIN EndPoints /\ Len(EndPoints) \in Nat
  BY DEF Shape
<1>6. \A n \in Namespaces : n \notin pending' => n \notin pending /\ annotation'[n] = annotation[n]
  BY <1>1
<1> HIDE DEF P, R
<1>7. \A i \in DOMAIN EndPoints :
        /\ EndPoints'[i] \in Hosts /\ EndPoints'[i].namespace = N(i)
        /\ EndPoints'[i].posture = IF i \in Changed THEN P(N(i)) ELSE EndPoints[i].posture
        /\ Enforced'[i] = IF i \in Changed THEN P(N(i)) ELSE Enforced[i]
  <2> SUFFICES ASSUME NEW i \in DOMAIN EndPoints
               PROVE  <1>7!(i)
    OBVIOUS
  <2>1. /\ EndPoints'[i] = IF i \in Changed THEN [EndPoints[i] EXCEPT !.posture = P(N(i))] ELSE EndPoints[i]
        /\ Enforced'[i] = IF i \in Changed THEN P(N(i)) ELSE Enforced[i]
    BY <1>1, <1>5
  <2>2. EndPoints[i] \in Hosts /\ P(N(i)) \in Postures
    BY <1>3, <1>4
  <2> QED BY <2>1, <2>2 DEF Hosts
<1>8. DOMAIN EndPoints' = DOMAIN EndPoints /\ DOMAIN Enforced' = DOMAIN EndPoints
  BY <1>1, <1>5
<1>9. EndPoints' \in Seq(Hosts) /\ Len(EndPoints') = Len(EndPoints)
  <2>1. EndPoints' \in [1 .. Len(EndPoints) -> Hosts]
    BY <1>1, <1>5, <1>7, <1>8
  <2> QED BY <2>1, <1>5
<1>10. Enforced' \in Seq(Postures \cup {Empty}) /\ Len(Enforced') = Len(EndPoints)
  <2>1. \A i \in DOMAIN EndPoints : Enforced[i] \in Postures \cup {Empty}
    BY <1>5 DEF Shape
  <2>2. Enforced' \in [1 .. Len(EndPoints) -> Postures \cup {Empty}]
    BY <2>1, <1>1, <1>3, <1>4, <1>5
  <2> QED BY <2>2, <1>5
<1>11. Shape'
  <2>1. annotation' \in [Namespaces -> Given] /\ pending' \subseteq Namespaces
    BY <1>1, <1>3 DEF Shape
  <2>2. DefaultPostures' \in [Namespaces -> Postures \cup {Free}]
    BY <1>1, <1>3 DEF Shape
  <2> QED BY <2>1, <2>2, <1>1, <1>9, <1>10 DEF Shape
<1>12. OneBusy' /\ GlobalInv' /\ NsInv' /\ PodInv'
  BY <1>1, <1>2 DEF OneBusy, GlobalInv, NsInv, PodInv
<1>13. EnforcedInv'
  BY <1>2, <1>7, <1>8 DEF EnforcedInv
\* A namespace without a change to come has annotations for all scopes or none, so that its
\* entry in dm.DefaultPostures stays.
<1>14. ASSUME NEW n \in Namespaces, n \notin pending
       PROVE  /\ delivered[n] = annotation[n] /\ R(n) = annotation[n]
              /\ annotation[n] = AllNone \/ FullyAnnotated(annotation[n])
              /\ DefaultPostures'[n] = DefaultPostures[n]
  <2>1. delivered[n] = annotation[n] /\ (annotation[n] = AllNone \/ FullyAnnotated(annotation[n]))
    BY <1>14 DEF DeliveredInv
  <2>2. R(n) = annotation[n]
    BY <2>1, <1>3, NoneFacts, FullFacts DEF R
  <2>3. n \in touched => ~FullyAnnotated(annotation[n])
    BY <1>4 DEF Changed
  <2>4. ~(n \in touched /\ Annotated(annotation[n]))
    BY <2>1, <2>3, NoneFacts
  <2> QED BY <2>1, <2>2, <2>4, <1>1 DEF Shape
<1>15. DeliveredInv'
  <2> SUFFICES ASSUME NEW n \in Namespaces
               PROVE  DeliveredInv!(n)'
    BY DEF DeliveredInv
  <2>1. n \notin pending' => delivered'[n] = annotation'[n] /\ (annotation'[n] = AllNone \/ FullyAnnotated(annotation'[n]))
    BY <1>1, <1>6, <1>14
  <2>2. Unannotated(n) => annotation'[n] = AllNone /\ delivered'[n] \in {AllNone, Free} /\ DefaultPostures'[n] = Free
    BY <1>1, NoneFacts DEF DeliveredInv, R
  <2>3. ~Unannotated(n) => delivered'[n] # Free
    BY <1>1 DEF DeliveredInv
  <2>4. ASSUME ~Unannotated(n), n \in pending' PROVE \A sc \in Scopes : annotation'[n][sc] # "none"
    <3>1. n \in pending
      BY <2>4, <1>1, <1>14
    <3>2. \A sc \in Scopes : annotation[n][sc] # "none"
      BY <2>4, <3>1 DEF DeliveredInv
    <3> QED BY <3>2, <1>1, <1>2, <1>3, RepairFacts DEF R
  <2> QED BY <2>1, <2>2, <2>3, <2>4 DEF Unannotated
<1>16. EntryInv'
  BY <1>1, <1>2, <1>6, <1>14 DEF EntryInv
<1>17. EndPointsInv'
  <2> SUFFICES ASSUME NEW i \in DOMAIN EndPoints, N(i) \notin pending'
               PROVE  EndPoints'[i].posture = PostureOf(delivered[N(i)], setting)
    BY <1>1, <1>2, <1>7, <1>8 DEF EndPointsInv
  <2>1. N(i) \in Namespaces /\ N(i) \notin pending /\ delivered[N(i)] = annotation[N(i)]
    BY <1>4, <1>6, <1>14
  <2>2. PostureOf(delivered[N(i)], setting) = P(N(i))
    BY <2>1 DEF P
  <2>3. CASE FullyAnnotated(annotation[N(i)])
    BY <2>1, <2>2, <2>3, <1>2, <1>4, <1>7 DEF EndPointsInv
  <2>4. CASE ~FullyAnnotated(annotation[N(i)])
    BY <2>2, <2>4, <1>4, <1>7
  <2> QED BY <2>3, <2>4
<1> QED BY <1>11, <1>12, <1>13, <1>15, <1>16, <1>17

LEMMA PodAddedStep ==
  ASSUME Conditions, IInv, NEW n \in Namespaces, PodAdded(n)
  PROVE  IInv'
<1> USE DEF IInv
<1>1. ns.pc = "idle" /\ cm \in {"idle", "failed"} /\ pod.pc = "idle"
  BY StartsAlone DEF PodAdded, Handlers
<1>2. /\ pod' = [pc |-> "posture", name |-> n, posture |-> Empty]
      /\ UNCHANGED <<annotation, delivered, pending, setting, Global, DefaultPostures, EndPoints, Enforced, ns, cm>>
  BY DEF PodAdded, PodIdle, api, daemon
<1>3. Shape'
  BY <1>2 DEF Shape
<1>4. OneBusy' /\ GlobalInv' /\ DeliveredInv' /\ EntryInv' /\ NsInv' /\ PodInv'
  BY <1>1, <1>2 DEF OneBusy, GlobalInv, DeliveredInv, EntryInv, NsInv, PodInv, Unannotated
<1>5. EnforcedInv' /\ EndPointsInv'
  BY <1>1, <1>2 DEF EnforcedInv, EndPointsInv
<1> QED BY <1>3, <1>4, <1>5

LEMMA PodPostureStep ==
  ASSUME Conditions, IInv, PodPosture
  PROVE  IInv'
<1> USE DEF IInv
<1> DEFINE q == IF DefaultPostures[pod.name] = Free THEN Global ELSE DefaultPostures[pod.name]
<1>1. /\ pod.pc = "posture" /\ pod' = [pod EXCEPT !.pc = "publish", !.posture = q]
      /\ UNCHANGED <<annotation, delivered, pending, setting, Global, DefaultPostures, EndPoints, Enforced, ns, cm>>
  BY DEF PodPosture, api, daemon
<1>2. pod.name \in Namespaces /\ ns.pc = "idle"
  BY <1>1 DEF PodInv, OneBusy
<1>3. q \in Postures
  BY <1>2 DEF Shape
<1>4. ASSUME pod.name \notin pending PROVE q = PostureOf(delivered[pod.name], Global)
  <2>1. delivered[pod.name] \in Given /\ Global \in Postures
    BY <1>2, <1>4 DEF DeliveredInv, Shape
  <2>2. CASE delivered[pod.name] = AllNone
    BY <2>2, <1>2, <1>4, NoneGivesDefault DEF EntryInv, Shape
  <2>3. CASE delivered[pod.name] # AllNone
    <3>1. DefaultPostures[pod.name] = PostureOf(delivered[pod.name], Global)
      BY <2>3, <1>2, <1>4 DEF EntryInv
    <3>2. DefaultPostures[pod.name] # Free
      BY <3>1, <2>1, PostureOfType, NoneFacts
    <3> QED BY <3>1, <3>2
  <2> QED BY <2>2, <2>3
<1> HIDE DEF q
<1>5. Shape'
  BY <1>1, <1>3 DEF Shape
<1>6. OneBusy' /\ GlobalInv' /\ DeliveredInv' /\ EntryInv' /\ NsInv'
  BY <1>1 DEF OneBusy, GlobalInv, DeliveredInv, EntryInv, NsInv, Unannotated, Shape
<1>7. PodInv'
  BY <1>1, <1>2, <1>3, <1>4 DEF PodInv, Shape
<1>8. EnforcedInv' /\ EndPointsInv'
  BY <1>1, <1>2 DEF EnforcedInv, EndPointsInv
<1> QED BY <1>5, <1>6, <1>7, <1>8

LEMMA PodPublishStep ==
  ASSUME Conditions, IInv, PodPublish
  PROVE  IInv'
<1> USE DEF IInv
<1> DEFINE e == [namespace |-> pod.name, posture |-> pod.posture]
           k == Len(EndPoints)
<1>1. /\ pod.pc = "publish" /\ pod' = [pod EXCEPT !.pc = "push"]
      /\ EndPoints' = Append(EndPoints, e) /\ Enforced' = Append(Enforced, Empty)
      /\ UNCHANGED <<annotation, delivered, pending, setting, Global, DefaultPostures, ns, cm>>
  BY DEF PodPublish, api
<1>2. ns.pc = "idle" /\ e \in Hosts /\ (pod.name \in pending \/ pod.posture = PostureOf(delivered[pod.name], Global))
  BY <1>1 DEF PodInv, OneBusy, Hosts
<1>3. /\ EndPoints' \in Seq(Hosts) /\ Len(EndPoints') = k + 1 /\ k \in Nat
      /\ \A i \in 1 .. k : EndPoints'[i] = EndPoints[i]
      /\ EndPoints'[k + 1] = e
  BY <1>1, <1>2 DEF Shape
<1>4. /\ Enforced' \in Seq(Postures \cup {Empty}) /\ Len(Enforced') = k + 1
      /\ \A i \in 1 .. k : Enforced'[i] = Enforced[i]
  BY <1>1 DEF Shape
<1>5. DOMAIN EndPoints = 1 .. k /\ DOMAIN EndPoints' = 1 .. (k + 1)
  BY <1>3 DEF Shape
<1>6. pod' = [pc |-> "push", name |-> pod.name, posture |-> pod.posture]
  BY <1>1 DEF Shape
<1>7. Shape'
  BY <1>1, <1>3, <1>4 DEF Shape
<1>8. OneBusy' /\ GlobalInv' /\ DeliveredInv' /\ EntryInv' /\ NsInv'
  BY <1>1, <1>2, <1>6 DEF OneBusy, GlobalInv, DeliveredInv, EntryInv, NsInv, Unannotated
<1>9. PodInv'
  BY <1>1, <1>3, <1>6 DEF PodInv
<1>10. EnforcedInv'
  <2> SUFFICES ASSUME NEW i \in 1 .. (k + 1), i # k + 1
               PROVE  Enforced'[i] = EndPoints'[i].posture
    BY <1>3, <1>5, <1>6 DEF EnforcedInv
  <2>1. i \in 1 .. k
    BY <1>3
  <2> QED BY <2>1, <1>1, <1>2, <1>3, <1>4, <1>5 DEF EnforcedInv
<1>11. EndPointsInv'
  <2> SUFFICES ASSUME NEW i \in 1 .. (k + 1)
               PROVE  EndPointsInv!(i)'
    BY <1>5 DEF EndPointsInv
  <2>1. CASE i = k + 1
    BY <2>1, <1>1, <1>2, <1>3
  <2>2. CASE i # k + 1
    <3>1. i \in 1 .. k
      BY <2>2, <1>3
    <3> QED BY <3>1, <1>1, <1>2, <1>3, <1>5 DEF EndPointsInv
  <2> QED BY <2>1, <2>2
<1> QED BY <1>7, <1>8, <1>9, <1>10, <1>11

LEMMA PodPushStep ==
  ASSUME Conditions, IInv, PodPush
  PROVE  IInv'
<1> USE DEF IInv
<1>1. /\ pod.pc = "push" /\ pod' = PodIdle
      /\ Enforced' = [Enforced EXCEPT ![Len(Enforced)] = pod.posture]
      /\ UNCHANGED <<annotation, delivered, pending, setting, Global, DefaultPostures, EndPoints, ns, cm>>
  BY DEF PodPush, api
<1>2. /\ pod.posture \in Postures /\ ns.pc = "idle" /\ Len(EndPoints) > 0
      /\ EndPoints[Len(EndPoints)].posture = pod.posture /\ Len(Enforced) = Len(EndPoints)
  BY <1>1 DEF PodInv, OneBusy, Shape
<1>3. Enforced' \in Seq(Postures \cup {Empty}) /\ Len(Enforced') = Len(Enforced)
  BY <1>1, <1>2 DEF Shape
<1>4. Shape'
  BY <1>1, <1>3 DEF Shape, PodIdle
<1>5. OneBusy' /\ GlobalInv' /\ DeliveredInv' /\ EntryInv' /\ NsInv' /\ PodInv'
  BY <1>1, <1>2 DEF OneBusy, GlobalInv, DeliveredInv, EntryInv, NsInv, PodInv, PodIdle, Unannotated
<1>6. EnforcedInv'
  <2>1. DOMAIN EndPoints = DOMAIN Enforced /\ Len(EndPoints) \in DOMAIN Enforced
    BY <1>2 DEF Shape
  <2>2. \A i \in DOMAIN EndPoints : Enforced'[i] = IF i = Len(EndPoints) THEN pod.posture ELSE Enforced[i]
    BY <1>1, <1>2, <2>1
  <2> QED BY <1>1, <1>2, <2>2 DEF EnforcedInv
<1>7. EndPointsInv'
  BY <1>1, <1>2 DEF EndPointsInv
<1> QED BY <1>4, <1>5, <1>6, <1>7

LEMMA UnchangedStep ==
  ASSUME IInv, UNCHANGED vars
  PROVE  IInv'
<1> USE DEF IInv, vars, api, daemon
<1>1. Shape'
  BY DEF Shape
<1>2. OneBusy' /\ GlobalInv' /\ DeliveredInv' /\ EntryInv' /\ NsInv' /\ PodInv'
  BY DEF OneBusy, GlobalInv, DeliveredInv, EntryInv, NsInv, PodInv, Unannotated
<1>3. EnforcedInv' /\ EndPointsInv'
  BY DEF EnforcedInv, EndPointsInv
<1> QED BY <1>1, <1>2, <1>3

\* Every step of the handlers keeps the invariant.
LEMMA NextInv ==
  ASSUME Conditions, IInv, [Next]_vars
  PROVE  IInv'
<1>1. ASSUME NEW n \in Namespaces, Annotate(n) \/ NsModified(n) \/ NsDeleted(n) \/ PodAdded(n)
      PROVE  IInv'
  BY <1>1, AnnotateStep, NsModifiedStep, NsDeletedStep, PodAddedStep
<1>2. ASSUME NEW s \in Settings, CmModified(s)
      PROVE  IInv'
  BY <1>2, CmModifiedStep
<1>3. CASE NsNext
  BY <1>3, NsLockStep, NsLengthStep, NsCopyStep, NsWriteStep, NsEnforceStep, NsDoneStep DEF NsNext
<1>4. CASE CmNext
  BY <1>4, CmControlStep, UpdateGlobalPostureStep, updatEndpointsWithCMStep DEF CmNext
<1>5. CASE PodNext
  BY <1>5, PodPostureStep, PodPublishStep, PodPushStep DEF PodNext
<1>6. CASE UNCHANGED vars
  BY <1>6, UnchangedStep
<1> QED BY <1>1, <1>2, <1>3, <1>4, <1>5, <1>6 DEF Next

LEMMA InvSync == IInv => PostureInSync
<1> SUFFICES ASSUME IInv, Quiet, NEW i \in DOMAIN EndPoints
             PROVE  /\ EndPoints[i].posture = PostureOf(delivered[EndPoints[i].namespace], Global)
                    /\ Enforced[i] = EndPoints[i].posture
  BY DEF PostureInSync
<1>1. ns.pc = "idle" /\ pod.pc = "idle" /\ cm = "idle" /\ pending = {}
  BY DEF Quiet, Busy, Handlers
<1> QED BY <1>1 DEF IInv, EndPointsInv, EnforcedInv

\* Whatever the namespaces, scopes, settings and the number of pods: once every event is
\* handled, an endpoint has the posture of its annotations and of the ConfigMap, in
\* dm.EndPoints and at the enforcer (UpdateDefaultPosture, UpdateGlobalPosture,
\* updatEndpointsWithCM, UpdateEndPointWithPod).
THEOREM PosturesInSync == ASSUME Conditions PROVE Spec => []PostureInSync
<1>1. Init => IInv
  BY InitInv
<1>2. IInv /\ [Next]_vars => IInv'
  BY NextInv
<1>3. IInv => PostureInSync
  BY InvSync
<1> QED BY <1>1, <1>2, <1>3, PTL DEF Spec
=============================================================================
