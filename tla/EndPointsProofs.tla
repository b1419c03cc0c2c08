-------------------------- MODULE EndPointsProofs ---------------------------
(***************************************************************************)
(* The theorems about the policies of endpoints.  The ones that hold       *)
(* however the handlers overlap follow from the lemmas of EndPointsLemmas. *)
(*                                                                         *)
(* When the handlers run in turn, the endpoints and the rules in force     *)
(* agree with what the API server delivered, for any pods, containers and  *)
(* policies that meet the conditions at the end of EndPoints.  Those       *)
(* invariants come in layers, each proved with the help of the ones before *)
(* it: which endpoints there are (Roster, in EndPointsLemmas), which       *)
(* policies they carry (Lists), and which rules are in force (InForce).    *)
(***************************************************************************)
EXTENDS EndPointsLemmas
-----------------------------------------------------------------------------
(* Which policies they carry. *)

\* The policies of C for endpoint e.
Wanted(e, C) == {q \in C : Selects(q, e) /\ SelectsContainer(q, e.ContainerName)}
Right(e, C) == Stores(e.SecurityPolicies, Wanted(e, C))

\* The endpoint is right but for the policy the handler brings.
Almost(e, h, C) ==
  LET l == e.SecurityPolicies IN
  /\ Stores(l, ToSet(l)) /\ ToSet(l) \ SameAs(h.object) = Wanted(e, C) \ SameAs(h.object)
  /\ \A q \in ToSet(l) : SelectsContainer(q, e.ContainerName)
  /\ h.action = "ADDED" => ToSet(l) \cap SameAs(h.object) = {}

\* The handler has yet to change the endpoint at i.
Waiting(h, i) ==
  h.pc = "length" \/ (h.pc \in {"copy", "write"} /\ h.idx <= i) \/ (h.pc \in {"log", "enforce"} /\ h.idx < i)

\* What the handler's event did to the policies delivered.
Told(h, C) == C \cap SameAs(h.object) = IF h.action = "DELETED" THEN {} ELSE {h.object}

SlotRight(e, i, hs, C) ==
  /\ (\A t \in Types : ~Waiting(hs[t], i)) => Right(e, C)
  /\ \A t \in Types : Waiting(hs[t], i) => Almost(e, hs[t], C)

HandlerRight(h, C) ==
  /\ h.pc # "idle" => Told(h, C)
  /\ h.pc = "write" => Right(h.endPoint, C)

\* The pod handler's own endpoints are those it will hand to the enforcer.
Own(e, p, C) == Right(e, C) /\ Fits(e) /\ e.EndPointName = p

PodRight(d, C) ==
  d.pc # "idle" =>
    /\ d.pc = "publish" =>
         Stores(d.policies, {q \in C : Selected(q.selector, NamespaceOf[d.name], IdentitiesOf(d.name, d.version))})
    /\ \A i \in 1 .. Len(d.endpoints) : Own(d.endpoints[i], d.name, C)

Lists ==
  /\ \A i \in 1 .. Len(EndPoints) : SlotRight(EndPoints[i], i, policy, policyCache)
  /\ \A t \in Types : HandlerRight(policy[t], policyCache)
  /\ PodRight(pod, policyCache)

LEMMA AlikeWanted ==
  ASSUME NEW e, NEW f, Alike(e, f), NEW C
  PROVE  Wanted(e, C) = Wanted(f, C)
BY DEF Alike, Wanted, Selects

\* What the policy brought adds to the policies wanted.
LEMMA WantedParts ==
  ASSUME WellFormed, NamesApart, NEW C, NEW h, h.object \in Policies, Told(h, C), NEW e
  PROVE  LET p == h.object IN
         /\ h.action = "DELETED" => Wanted(e, C) \cap SameAs(p) = {}
         /\ h.action # "DELETED" => Wanted(e, C) \cap SameAs(p) =
              IF Selects(p, e) /\ SelectsContainer(p, e.ContainerName) THEN {p} ELSE {}
         /\ p \in SameAs(p)
<1>1. h.object \in SameAs(h.object)
  BY SameFacts
<1> QED BY <1>1 DEF Told, Wanted

\* The list of an endpoint after the handler changed it.
LEMMA UpdatedRight ==
  ASSUME Counting, WellFormed, NamesApart, PoliciesSteady, NEW C, NEW h, h.object \in Policies, h.action \in Acts,
         Told(h, C), NEW e \in EndPoint, Almost(e, h, C), Concerns(h.object, e)
  PROVE  Stores(UpdatedPolicies(h.action, h.object, e), Wanted(e, C))
<1> DEFINE p == h.object
           l == e.SecurityPolicies
           S == ToSet(l)
           W == Wanted(e, C)
           Q == SameAs(p)
<1>1. /\ l \in Seq(Policies) /\ S \in SUBSET Policies /\ Stores(l, S) /\ S \ Q = W \ Q
      /\ h.action = "ADDED" => S \cap Q = {}
  BY PoliciesOf DEF Almost
<1>2. /\ S \cap Q = {} => Stores(Append(l, p), S \cup {p})
      /\ S \cap Q # {} => Stores(WithFirst(l, Q, p), (S \ Q) \cup {p})
      /\ Stores(WithoutFirst(l, Q), S \ Q)
  BY <1>1, StoresNext, Zenon
<1>3. Selects(p, e) => SelectsContainer(p, e.ContainerName)
  BY DEF Concerns, PoliciesSteady, WellFormed, SelectsContainer, Types
<1>4. /\ h.action = "DELETED" => W \cap Q = {}
      /\ h.action # "DELETED" => W \cap Q = IF Selects(p, e) THEN {p} ELSE {}
      /\ p \in Q
  BY <1>3, WantedParts
<1>5. HoldsPolicy(p, l) <=> S \cap Q # {}
  BY DEF HoldsPolicy
<1> DEFINE u == UpdatedPolicies(h.action, p, e)
<1>6. /\ h.action = "ADDED" => u = IF Selects(p, e) /\ ~HoldsPolicy(p, l) THEN Append(l, p) ELSE l
      /\ h.action = "DELETED" => u = WithoutFirst(l, Q)
  BY Zenon DEF UpdatedPolicies, AddedPolicy, DeletedPolicy
<1>7. h.action = "MODIFIED" =>
        /\ HoldsPolicy(p, l) /\ Selects(p, e) => u = WithFirst(l, Q, p)
        /\ HoldsPolicy(p, l) /\ ~Selects(p, e) => u = WithoutFirst(l, Q)
        /\ ~HoldsPolicy(p, l) /\ Selects(p, e) => u = Append(l, p)
        /\ ~HoldsPolicy(p, l) /\ ~Selects(p, e) => u = l
  <2>1. h.action = "MODIFIED" => u = ModifiedPolicy(p, e)
    BY Zenon DEF UpdatedPolicies
  <2> HIDE DEF u
  <2> QED BY <2>1, Zenon DEF ModifiedPolicy
<1> SUFFICES Stores(u, W)
  OBVIOUS
<1> HIDE DEF u, W, Q, S, l, p
<1>8. W = (S \ Q) \cup (W \cap Q) /\ S = (S \ Q) \cup (S \cap Q)
  BY <1>1
<1>9. CASE h.action = "ADDED"
  <2>1. S \cap Q = {} /\ ~HoldsPolicy(p, l)
    BY <1>1, <1>5, <1>9
  <2>2. CASE Selects(p, e)
    <3>1. W = S \cup {p}
      BY <1>4, <1>8, <1>9, <2>1, <2>2
    <3> QED BY <1>2, <1>6, <1>9, <2>1, <2>2, <3>1, Zenon
  <2>3. CASE ~Selects(p, e)
    <3>1. W = S
      BY <1>1, <1>4, <1>8, <1>9, <2>1, <2>3, Zenon
    <3> QED BY <1>1, <1>6, <1>9, <2>1, <2>3, <3>1
  <2> QED BY <2>2, <2>3
<1>10. CASE h.action = "MODIFIED"
  <2>1. CASE S \cap Q = {} /\ Selects(p, e)
    <3>1. W = S \cup {p}
      BY <1>1, <1>4, <1>8, <1>10, <2>1
    <3> QED BY <1>2, <1>5, <1>7, <1>10, <2>1, <3>1, Zenon
  <2>2. CASE S \cap Q = {} /\ ~Selects(p, e)
    <3>1. W = S
      BY <1>1, <1>4, <1>8, <1>10, <2>2, Zenon
    <3> QED BY <1>1, <1>5, <1>7, <1>10, <2>2, <3>1
  <2>3. CASE S \cap Q # {} /\ Selects(p, e)
    <3>1. W = (S \ Q) \cup {p}
      BY <1>4, <1>8, <1>10, <2>3
    <3> QED BY <1>2, <1>5, <1>7, <1>10, <2>3, <3>1
  <2>4. CASE S \cap Q # {} /\ ~Selects(p, e)
    <3>1. W = S \ Q
      BY <1>4, <1>8, <1>10, <2>4
    <3> QED BY <1>2, <1>5, <1>7, <1>10, <2>4, <3>1
  <2> QED BY <2>1, <2>2, <2>3, <2>4
<1>11. CASE h.action = "DELETED"
  <2>1. W = S \ Q
    BY <1>4, <1>8, <1>11
  <2> QED BY <1>2, <1>6, <1>11, <2>1
<1> QED BY <1>9, <1>10, <1>11 DEF Acts

LEMMA SkippedRight ==
  ASSUME WellFormed, NamesApart, PoliciesSteady, NEW C, NEW h, h.object \in Policies, h.action \in Acts,
         Told(h, C), NEW e \in EndPoint, Almost(e, h, C), ~Concerns(h.object, e)
  PROVE  Right(e, C)
<1> DEFINE p == h.object
           S == ToSet(e.SecurityPolicies)
           W == Wanted(e, C)
           Q == SameAs(p)
<1>1. Stores(e.SecurityPolicies, S) /\ S \ Q = W \ Q /\ \A q \in S : SelectsContainer(q, e.ContainerName)
  BY DEF Almost
<1>2. W \cap Q \subseteq {p} /\ (p \in W => Selects(p, e) /\ SelectsContainer(p, e.ContainerName))
  BY WantedParts DEF Wanted
<1>3. CASE p.type = "KSP"
  <2>1. ~SelectsContainer(p, e.ContainerName)
    BY <1>3 DEF Concerns
  <2>2. \A q \in Q : q.containers = p.containers
    BY DEF PoliciesSteady, SameAs
  <2>3. \A q \in Q : ~SelectsContainer(q, e.ContainerName)
    BY <2>1, <2>2 DEF SelectsContainer
  <2> QED BY <1>1, <1>2, <2>1, <2>3 DEF Right
<1>4. CASE p.type = "CSP"
  <2>1. NamespaceOf[e.EndPointName] \notin p.selector.NamespaceList /\ S \cap Q = {}
    BY <1>4 DEF Concerns, HoldsPolicy
  <2>2. p.selector.Identities = {}
    BY <1>4 DEF PoliciesSteady
  <2>3. ~Selects(p, e)
    BY <2>1, <2>2 DEF Selects, Selected, MatchIdentities
  <2> QED BY <1>1, <1>2, <2>1, <2>3 DEF Right
<1> QED BY <1>3, <1>4 DEF WellFormed, Types

\* A slot while handler t runs alone, or none.
LEMMA SlotAlone ==
  ASSUME NEW hs, NEW t \in Types, \A u \in Types : u # t => hs[u].pc = "idle", NEW e, NEW i, NEW C
  PROVE  SlotRight(e, i, hs, C) <=>
           (Waiting(hs[t], i) => Almost(e, hs[t], C)) /\ (~Waiting(hs[t], i) => Right(e, C))
BY DEF SlotRight, Waiting

LEMMA SlotIdle ==
  ASSUME NEW hs, \A u \in Types : hs[u].pc = "idle", NEW e, NEW i, NEW C
  PROVE  SlotRight(e, i, hs, C) <=> Right(e, C)
BY DEF SlotRight, Waiting

\* The policy informers.
LEMMA ListsStep ==
  ASSUME Shape, Roster, Lists, InTurn, NEW t \in Types,
         PolicyLength(t) \/ PolicyCopy(t) \/ PolicyWrite(t) \/ PolicyLog(t) \/ PolicyEnforce(t) \/ PolicyPanic(t),
         Len(EndPoints') = Len(EndPoints),
         \A i \in 1 .. Len(EndPoints) : /\ Waiting(policy'[t], i) => Almost(EndPoints'[i], policy'[t], policyCache)
                                        /\ ~Waiting(policy'[t], i) => Right(EndPoints'[i], policyCache),
         policy'[t].pc # "idle" => policy'[t].object = policy[t].object /\ policy'[t].action = policy[t].action,
         policy'[t].pc = "write" => Right(policy'[t].endPoint, policyCache)
  PROVE  Lists'
<1>1. /\ pod.pc = "idle" /\ pod' = pod /\ policyCache' = policyCache /\ policy[t].pc # "idle"
      /\ \A u \in Types : u # t => policy'[u].pc = "idle"
  BY PolicyStepFacts, Zenon
<1>2. \A i \in 1 .. Len(EndPoints') : SlotRight(EndPoints'[i], i, policy', policyCache')
  BY <1>1, SlotAlone
<1>3. Told(policy[t], policyCache)
  BY <1>1 DEF Lists, HandlerRight
<1>4. \A u \in Types : HandlerRight(policy'[u], policyCache')
  BY <1>1, <1>3 DEF HandlerRight, Told
<1>5. PodRight(pod', policyCache')
  BY <1>1 DEF PodRight
<1> QED BY <1>2, <1>4, <1>5, Zenon DEF Lists

LEMMA ListsPolicyStep ==
  ASSUME Counting, WellFormed, NamesApart, PoliciesSteady, Shape, Roster, Lists, InTurn, NEW t \in Types,
         PolicyLength(t) \/ PolicyCopy(t) \/ PolicyWrite(t) \/ PolicyLog(t) \/ PolicyEnforce(t) \/ PolicyPanic(t)
  PROVE  Lists'
<1> DEFINE h == policy[t]
           n == policy'[t]
<1>1. /\ ~PolicyPanic(t) /\ h.object \in Policies /\ h.action \in Acts /\ h.pc # "idle" /\ h.idx \in Nat
      /\ \A u \in Types : u # t => policy[u].pc = "idle"
      /\ h.pc \in {"copy", "write", "log", "enforce"} => h.idx \in 1 .. Len(EndPoints) /\ EndPoints[h.idx] \in EndPoint
      /\ Len(EndPoints) \in Nat
  BY PolicyStepFacts, Zenon
<1>2. /\ \A i \in 1 .. Len(EndPoints) : /\ Waiting(h, i) => Almost(EndPoints[i], h, policyCache)
                                        /\ ~Waiting(h, i) => Right(EndPoints[i], policyCache)
      /\ Told(h, policyCache) /\ (h.pc = "write" => Right(h.endPoint, policyCache))
  BY <1>1, SlotAlone, Zenon DEF Lists, HandlerRight
<1>3. ASSUME n.object = h.object, n.action = h.action PROVE \A e : Almost(e, h, policyCache) => Almost(e, n, policyCache)
  BY <1>3, Zenon DEF Almost
<1>4. ASSUME EndPoints' = EndPoints, NEW k \in 0 .. Len(EndPoints), Passed(n, h, k),
             \A i \in 1 .. Len(EndPoints) : /\ i > k => Almost(EndPoints[i], h, policyCache)
                                            /\ i <= k => Right(EndPoints[i], policyCache)
      PROVE  Lists'
  <2>1. \A i \in 1 .. Len(EndPoints) : Waiting(n, i) <=> i > k
    BY <1>1, <1>4 DEF Passed, Waiting
  <2>2. n.pc \in {"idle", "copy"} /\ (n.pc # "idle" => n.object = h.object /\ n.action = h.action)
    BY <1>4 DEF Passed
  <2>3. n.pc = "idle" => \A i \in 1 .. Len(EndPoints) : ~Waiting(n, i)
    BY <2>2, Zenon DEF Waiting
  <2>4. \A i \in 1 .. Len(EndPoints) : /\ Waiting(n, i) => Almost(EndPoints[i], n, policyCache)
                                       /\ ~Waiting(n, i) => Right(EndPoints[i], policyCache)
    BY <1>1, <1>3, <1>4, <2>1, <2>2, <2>3
  <2> QED BY <1>4, <2>2, <2>4, ListsStep
<1>5. CASE PolicyLength(t)
  <2>1. h.pc = "length" /\ EndPoints' = EndPoints /\ Passed(n, h, 0)
    BY <1>5, LengthCase
  <2>2. \A i \in 1 .. Len(EndPoints) : Waiting(h, i)
    BY <2>1 DEF Waiting
  <2> QED BY <1>1, <1>2, <1>4, <2>1, <2>2
<1>6. CASE PolicyCopy(t)
  <2> DEFINE e == EndPoints[h.idx]
  <2>1. /\ h.pc = "copy" /\ EndPoints' = EndPoints
        /\ ~Concerns(h.object, e) => Passed(n, h, h.idx)
        /\ Concerns(h.object, e) =>
             /\ n.pc = "write" /\ SameTask(n, h)
             /\ n.endPoint = [e EXCEPT !.SecurityPolicies = UpdatedPolicies(h.action, h.object, e)]
    BY <1>6, CopyCase
  <2>2. \A i \in 1 .. Len(EndPoints) : Waiting(h, i) <=> h.idx <= i
    BY <2>1 DEF Waiting
  <2>3. h.idx \in 1 .. Len(EndPoints) /\ e \in EndPoint
    BY <1>1, <2>1
  <2>4. Almost(e, h, policyCache)
    BY <1>2, <2>2, <2>3
  <2>5. CASE ~Concerns(h.object, e)
    <3>1. Right(e, policyCache)
      BY <1>1, <1>2, <2>3, <2>4, <2>5, SkippedRight, Zenon
    <3>2. \A i \in 1 .. Len(EndPoints) : /\ i > h.idx => Almost(EndPoints[i], h, policyCache)
                                         /\ i <= h.idx => Right(EndPoints[i], policyCache)
      BY <1>2, <2>2, <2>3, <3>1
    <3>3. h.idx \in 0 .. Len(EndPoints)
      BY <2>3
    <3> HIDE DEF h, n, e
    <3> QED BY <1>4, <2>1, <2>5, <3>2, <3>3, Zenon
  <2>6. CASE Concerns(h.object, e)
    <3>1. Stores(UpdatedPolicies(h.action, h.object, e), Wanted(e, policyCache))
      BY <1>1, <1>2, <2>3, <2>4, <2>6, UpdatedRight
    <3>2. Alike(n.endPoint, e) /\ n.endPoint.SecurityPolicies = UpdatedPolicies(h.action, h.object, e)
      BY <2>1, <2>3, <2>6 DEF Alike, EndPoint
    <3>3. Right(n.endPoint, policyCache)
      BY <3>1, <3>2, AlikeWanted DEF Right
    <3>4. n.pc = "write" /\ n.idx = h.idx /\ n.object = h.object /\ n.action = h.action
      BY <2>1, <2>6 DEF SameTask
    <3>5. \A i \in 1 .. Len(EndPoints) : Waiting(n, i) <=> Waiting(h, i)
      BY <2>1, <3>4, Zenon DEF Waiting
    <3>6. \A i \in 1 .. Len(EndPoints) : /\ Waiting(n, i) => Almost(EndPoints[i], n, policyCache)
                                         /\ ~Waiting(n, i) => Right(EndPoints[i], policyCache)
      BY <1>2, <1>3, <3>4, <3>5, Zenon
    <3> QED BY <2>1, <3>3, <3>4, <3>6, ListsStep, Zenon
  <2> QED BY <2>5, <2>6
<1>7. CASE PolicyWrite(t)
  <2>1. /\ h.pc = "write" /\ n.pc = "log" /\ SameTask(n, h) /\ Len(EndPoints') = Len(EndPoints)
        /\ \A i \in 1 .. Len(EndPoints) : EndPoints'[i] = IF i = h.idx THEN h.endPoint ELSE EndPoints[i]
    BY <1>7, WriteCase, Zenon
  <2>2. h.idx \in 1 .. Len(EndPoints) /\ n.idx = h.idx /\ n.object = h.object /\ n.action = h.action
    BY <1>1, <2>1 DEF SameTask
  <2>3. \A i \in 1 .. Len(EndPoints) : (Waiting(h, i) <=> h.idx <= i) /\ (Waiting(n, i) <=> h.idx < i)
    BY <2>1, <2>2 DEF Waiting
  <2>4. Right(h.endPoint, policyCache)
    BY <1>2, <2>1
  <2>5. ASSUME NEW i \in 1 .. Len(EndPoints)
        PROVE  /\ Waiting(n, i) => Almost(EndPoints'[i], n, policyCache)
               /\ ~Waiting(n, i) => Right(EndPoints'[i], policyCache)
    <3>1. CASE i = h.idx
      BY <2>1, <2>3, <2>4, <3>1
    <3>2. CASE i # h.idx
      <4>1. EndPoints'[i] = EndPoints[i] /\ (Waiting(n, i) <=> Waiting(h, i))
        BY <1>1, <2>1, <2>3, <3>2
      <4> QED BY <1>2, <1>3, <2>2, <4>1, Zenon
    <3> QED BY <3>1, <3>2
  <2> QED BY <2>1, <2>2, <2>5, ListsStep, Zenon
<1>8. CASE PolicyLog(t) \/ PolicyEnforce(t)
  <2>1. /\ h.pc \in {"log", "enforce"} /\ EndPoints' = EndPoints
        /\ Passed(n, h, h.idx) \/ (n.pc = "enforce" /\ SameTask(n, h))
    BY <1>8, LogCase, EnforceCase, Zenon
  <2>2. \A i \in 1 .. Len(EndPoints) : Waiting(h, i) <=> h.idx < i
    BY <2>1, Zenon DEF Waiting
  <2>3. CASE Passed(n, h, h.idx)
    <3>1. h.idx \in 0 .. Len(EndPoints)
      BY <1>1, <2>1
    <3>2. \A i \in 1 .. Len(EndPoints) : /\ i > h.idx => Almost(EndPoints[i], h, policyCache)
                                         /\ i <= h.idx => Right(EndPoints[i], policyCache)
      BY <1>2, <2>2, <3>1
    <3> HIDE DEF h, n
    <3> QED BY <1>4, <2>1, <2>3, <3>1, <3>2
  <2>4. CASE n.pc = "enforce" /\ SameTask(n, h)
    <3>1. n.pc = "enforce" /\ n.idx = h.idx /\ n.object = h.object /\ n.action = h.action
      BY <2>4, Zenon DEF SameTask
    <3>2. \A i \in 1 .. Len(EndPoints) : Waiting(n, i) <=> Waiting(h, i)
      BY <2>1, <3>1, Zenon DEF Waiting
    <3>3. \A i \in 1 .. Len(EndPoints) : /\ Waiting(n, i) => Almost(EndPoints[i], n, policyCache)
                                         /\ ~Waiting(n, i) => Right(EndPoints[i], policyCache)
      BY <1>2, <1>3, <3>1, <3>2
    <3> QED BY <2>1, <3>1, <3>3, ListsStep, Zenon
  <2> QED BY <2>1, <2>3, <2>4
<1> QED BY <1>1, <1>5, <1>6, <1>7, <1>8

\* What an event does to the policies delivered.
LEMMA EventTold ==
  ASSUME Counting, WellFormed, NamesApart, Shape, Stores(SecurityPolicies, policyCache), NEW p \in Policies,
         PolicyAdded(p) \/ PolicyModified(p) \/ PolicyDeleted(p)
  PROVE  \E action \in Acts :
           /\ MayStart(p.type) /\ PolicyEvent(action, p, policyCache')
           /\ policyCache' \ SameAs(p) = policyCache \ SameAs(p)
           /\ policyCache' \cap SameAs(p) = IF action = "DELETED" THEN {} ELSE {p}
           /\ action = "ADDED" => policyCache \cap SameAs(p) = {}
<1>1. /\ SecurityPolicies \in Seq(Policies) /\ policyCache \in SUBSET Policies /\ p \in SameAs(p)
      /\ Delivered(p) = policyCache \cap SameAs(p)
  BY SameFacts, Zenon DEF Shape, TypeOK
<1>2. CASE PolicyAdded(p)
  <2>1. MayStart(p.type) /\ Delivered(p) = {} /\ policyCache' = policyCache \cup {p} /\ PolicyEvent("ADDED", p, policyCache')
    BY <1>2 DEF PolicyAdded, PolicyEvent
  <2>2. /\ policyCache \cap SameAs(p) = {} /\ policyCache' \ SameAs(p) = policyCache \ SameAs(p)
        /\ policyCache' \cap SameAs(p) = {p}
    BY <1>1, <2>1
  <2> QED BY <2>1, <2>2 DEF Acts
<1>3. CASE PolicyModified(p)
  <2>1. /\ MayStart(p.type) /\ policyCache' = (policyCache \ Delivered(p)) \cup {p}
        /\ PolicyEvent("MODIFIED", p, policyCache')
    BY <1>3 DEF PolicyModified, PolicyEvent
  <2>2. policyCache' \ SameAs(p) = policyCache \ SameAs(p) /\ policyCache' \cap SameAs(p) = {p}
    BY <1>1, <2>1
  <2> QED BY <2>1, <2>2 DEF Acts
<1>4. CASE PolicyDeleted(p)
  <2>1. MayStart(p.type) /\ p \in policyCache /\ policyCache' = policyCache \ {p} /\ PolicyEvent("DELETED", p, policyCache')
    BY <1>4 DEF PolicyDeleted, PolicyEvent
  <2>2. policyCache \cap SameAs(p) = {p}
    BY <1>1, <2>1, StoresNext, Zenon
  <2>3. policyCache' \ SameAs(p) = policyCache \ SameAs(p) /\ policyCache' \cap SameAs(p) = {}
    BY <2>1, <2>2
  <2> QED BY <2>1, <2>3 DEF Acts
<1> QED BY <1>2, <1>3, <1>4

LEMMA ListsPolicyStart ==
  ASSUME Counting, WellFormed, NamesApart, Shape, Roster, Lists, InTurn, Stores(SecurityPolicies, policyCache), NEW p \in Policies,
         PolicyAdded(p) \/ PolicyModified(p) \/ PolicyDeleted(p)
  PROVE  Lists'
<1>1. PICK action \in Acts :
        /\ MayStart(p.type) /\ PolicyEvent(action, p, policyCache')
        /\ policyCache' \ SameAs(p) = policyCache \ SameAs(p)
        /\ policyCache' \cap SameAs(p) = IF action = "DELETED" THEN {} ELSE {p}
        /\ action = "ADDED" => policyCache \cap SameAs(p) = {}
  BY EventTold, Zenon
<1>2. p.type \in Types /\ p.type \in Handlers
  BY DEF WellFormed, Handlers
<1>3. pod.pc = "idle" /\ \A t \in Types : policy[t].pc = "idle"
  BY <1>1, <1>2, AllIdle
<1>4. /\ pod' = pod /\ EndPoints' = EndPoints
      /\ policy' = [policy EXCEPT ![p.type] = [PolicyIdle EXCEPT !.pc = "length", !.action = action, !.object = p]]
  BY <1>1 DEF PolicyEvent
<1>5. policy \in [Types -> PolicyHandler]
  BY DEF Shape, TypeOK
<1> DEFINE n == policy'[p.type]
<1>6. /\ n.pc = "length" /\ n.action = action /\ n.object = p
      /\ \A t \in Types : t # p.type => policy'[t].pc = "idle"
  BY <1>2, <1>3, <1>4, <1>5, Zenon DEF PolicyIdle
<1> HIDE DEF n
<1>7. ASSUME NEW e, Right(e, policyCache) PROVE Almost(e, n, policyCache')
  <2> DEFINE S == ToSet(e.SecurityPolicies)
  <2>1. S = Wanted(e, policyCache) /\ Stores(e.SecurityPolicies, S)
    BY <1>7, Zenon DEF Right, Stores
  <2>2. S \ SameAs(p) = Wanted(e, policyCache') \ SameAs(p)
    BY <1>1, <2>1, Zenon DEF Wanted
  <2>3. /\ \A q \in S : SelectsContainer(q, e.ContainerName)
        /\ action = "ADDED" => S \cap SameAs(p) = {}
    BY <1>1, <2>1, Zenon DEF Wanted
  <2> HIDE DEF S
  <2> QED BY <1>6, <2>1, <2>2, <2>3 DEF Almost, S
<1>8. \A i \in 1 .. Len(EndPoints) : Right(EndPoints[i], policyCache)
  BY <1>3, SlotIdle DEF Lists
<1>9. \A i \in 1 .. Len(EndPoints) : Waiting(n, i)
  BY <1>6 DEF Waiting
<1>10. \A i \in 1 .. Len(EndPoints') : SlotRight(EndPoints'[i], i, policy', policyCache')
  BY <1>2, <1>4, <1>6, <1>7, <1>8, <1>9, SlotAlone, Zenon DEF n
<1>11. \A t \in Types : HandlerRight(policy'[t], policyCache')
  <2>1. Told(n, policyCache')
    BY <1>1, <1>6 DEF Told
  <2> QED BY <1>6, <2>1 DEF HandlerRight, n
<1>12. PodRight(pod', policyCache')
  BY <1>3, <1>4 DEF PodRight
<1> QED BY <1>10, <1>11, <1>12 DEF Lists

\* The pod informer.
LEMMA KeptStores ==
  ASSUME Counting, NEW s \in Seq(Policies), NEW S, NEW T, Stores(s, S)
  PROVE  Stores(Kept(s, T), S \cap T)
<1> DEFINE r == Kept(s, T)
<1>1. PICK f \in [1 .. Len(r) -> 1 .. Len(s)] :
        /\ \A k \in 1 .. Len(r) : r[k] = s[f[k]] /\ r[k] \in T
        /\ \A k, l \in 1 .. Len(r) : f[k] = f[l] => k = l
  <2>1. Places(r, s, T)
    BY KeptPlaces
  <2> HIDE DEF r
  <2> QED BY <2>1, Zenon DEF Places
<1>2. ToSet(r) = ToSet(s) \cap T
  BY KeptFacts
<1> HIDE DEF r
<1>3. ASSUME NEW k \in 1 .. Len(r), NEW l \in 1 .. Len(r), SamePolicy(r[k], r[l]) PROVE k = l
  <2>1. f[k] \in 1 .. Len(s) /\ f[l] \in 1 .. Len(s) /\ SamePolicy(s[f[k]], s[f[l]])
    BY <1>1, <1>3
  <2>2. f[k] = f[l]
    BY <2>1 DEF Stores
  <2> QED BY <1>1, <2>2
<1>4. Stores(r, S \cap T)
  BY <1>2, <1>3, Zenon DEF Stores
<1> QED BY <1>4 DEF r

LEMMA PublishedRight ==
  ASSUME Counting, NEW p, NEW v, NEW id, NEW C \in SUBSET Policies, NEW ps \in Seq(Policies),
         Stores(ps, {q \in C : Selected(q.selector, NamespaceOf[p], IdentitiesOf(p, v))})
  PROVE  Right(PodEndPoint(p, v, id, ps), C)
<1> DEFINE e == PodEndPoint(p, v, id, ps)
           T == {q \in Policies : SelectsContainer(q, v.containers[id])}
           S == {q \in C : Selected(q.selector, NamespaceOf[p], IdentitiesOf(p, v))}
<1>1. /\ e.EndPointName = p /\ e.ContainerName = v.containers[id] /\ e.Identities = IdentitiesOf(p, v)
      /\ e.SecurityPolicies = Kept(ps, T)
  BY DEF PodEndPoint
<1>2. Stores(Kept(ps, T), S \cap T)
  <2> HIDE DEF S, T
  <2>1. Stores(ps, S)
    BY DEF S
  <2> QED BY <2>1, KeptStores
<1> HIDE DEF e
<1>3. S \cap T = Wanted(e, C)
  BY <1>1 DEF Wanted, Selects
<1> QED BY <1>1, <1>2, <1>3, Zenon DEF Right, e

LEMMA ListsIdle ==
  ASSUME Lists, \A t \in Types : policy[t].pc = "idle" /\ policy'[t] = policy[t], policyCache' = policyCache,
         (\A i \in 1 .. Len(EndPoints) : Right(EndPoints[i], policyCache)) =>
           \A i \in 1 .. Len(EndPoints') : Right(EndPoints'[i], policyCache),
         PodRight(pod', policyCache)
  PROVE  Lists'
<1>1. \A i \in 1 .. Len(EndPoints) : Right(EndPoints[i], policyCache)
  BY SlotIdle, Zenon DEF Lists
<1>2. \A i \in 1 .. Len(EndPoints') : SlotRight(EndPoints'[i], i, policy', policyCache')
  BY <1>1, SlotIdle, Zenon
<1>3. \A t \in Types : HandlerRight(policy'[t], policyCache')
  BY Zenon DEF HandlerRight
<1> QED BY <1>2, <1>3 DEF Lists

LEMMA ListsPodStart ==
  ASSUME Lists, InTurn, NEW p \in PodNames, PodAdded(p) \/ PodModified(p) \/ PodDeleted(p) \/ PodTombstone(p)
  PROVE  Lists'
<1>1. UNCHANGED <<EndPoints, policy, policyCache>> /\ MayStart("pod") /\ "pod" \in Handlers /\ ~PodTombstone(p)
  BY Zenon DEF PodAdded, PodModified, PodDeleted, PodTombstone, Handlers, InTurn
<1>2. \A t \in Types : policy[t].pc = "idle"
  BY <1>1, AllIdle
<1>3. pod'.pc # "publish" /\ pod'.endpoints = <<>>
  BY <1>1, Zenon DEF PodAdded, PodModified, PodDeleted, PodIdle
<1>4. PodRight(pod', policyCache)
  BY <1>3 DEF PodRight
<1> QED BY <1>1, <1>2, <1>4, ListsIdle

LEMMA ListsPodStep ==
  ASSUME Counting, WellFormed, PodsSteady, Shape, Roster, Lists, InTurn, Stores(SecurityPolicies, policyCache),
         PodLookup \/ PodContainers \/ PodPolicies \/ PodPublish \/ PodReplace \/ PodPush \/ PodRemove
  PROVE  Lists'
<1> DEFINE p == pod.name
           v == pod.version
           C == policyCache
<1>0. /\ pod \in PodHandler /\ pod.pc # "idle" /\ EndPoints \in Seq(EndPoint) /\ SecurityPolicies \in Seq(Policies)
      /\ C \in SUBSET Policies /\ pod.policies \in Seq(Policies) /\ pod.endpoints \in Seq(EndPoint)
  <2>1. pod \in PodHandler /\ pod.pc # "idle" /\ EndPoints \in Seq(EndPoint) /\ SecurityPolicies \in Seq(Policies)
    BY Zenon DEF PodLookup, PodContainers, PodPolicies, PodPublish, PodReplace, PodPush, PodRemove, PodStep, Shape, TypeOK
  <2> QED BY <2>1 DEF PodHandler, Shape, TypeOK
<1>1. policyCache' = policyCache /\ \A t \in Types : policy[t].pc = "idle" /\ policy'[t] = policy[t]
  BY <1>0, PodStepFacts, Zenon
<1>2. ASSUME EndPoints' = EndPoints, PodRight(pod', C) PROVE Lists'
  BY <1>1, <1>2, ListsIdle
<1>3. \A i \in 1 .. Len(EndPoints) : Right(EndPoints[i], C) /\ Fits(EndPoints[i]) /\ EndPoints[i] \in EndPoint
  <2>1. \A i \in 1 .. Len(EndPoints) : Fits(EndPoints[i]) /\ EndPoints[i] \in EndPoint
    BY <1>0 DEF Roster, Sound
  <2>2. \A i \in 1 .. Len(EndPoints) : Right(EndPoints[i], C)
    BY <1>1, SlotIdle, Zenon DEF Lists
  <2> QED BY <2>1, <2>2
<1>4. \A i \in 1 .. Len(pod.endpoints) : Own(pod.endpoints[i], p, C)
  BY <1>0 DEF Lists, PodRight
<1>5. ASSUME NEW l, NEW e, l = <<e>>, Own(e, p, C) PROVE \A i \in 1 .. Len(l) : Own(l[i], p, C)
  BY <1>5
<1>6. ASSUME pod.pc = "publish", NEW id \in DOMAIN v.containers PROVE Own(PodEndPoint(p, v, id, pod.policies), p, C)
  <2>1. HasVersion(p, v)
    BY <1>6, Zenon DEF Shape, PodRun, HasVersion
  <2>2. Stores(pod.policies, {q \in C : Selected(q.selector, NamespaceOf[p], IdentitiesOf(p, v))})
    BY <1>6, Zenon DEF Lists, PodRight
  <2>3. Fits(PodEndPoint(p, v, id, pod.policies))
    BY <1>6, <2>1, PublishedFits, Zenon
  <2>4. Right(PodEndPoint(p, v, id, pod.policies), C)
    BY <1>0, <2>2, PublishedRight, Zenon
  <2> QED BY <2>3, <2>4 DEF Own, PodEndPoint
<1>7. CASE PodLookup
  <2> DEFINE i == FirstIn(EndPoints, OfPod)
  <2>1. i # 0 => i \in 1 .. Len(EndPoints) /\ EndPoints[i] \in OfPod
    BY <1>0, FirstFacts
  <2>2. /\ EndPoints' = EndPoints
        /\ pod' = [pod EXCEPT !.pc = "containers", !.added = (i = 0),
                              !.endpoints = IF i = 0 THEN <<>> ELSE <<EndPoints[i]>>]
    BY <1>7 DEF PodLookup, PodStep
  <2> HIDE DEF i
  <2>3. /\ pod'.pc = "containers" /\ pod'.name = p
        /\ pod'.endpoints = IF i = 0 THEN <<>> ELSE <<EndPoints[i]>>
    BY <1>0, <2>2, Zenon DEF PodHandler
  <2>4. i # 0 => Own(EndPoints[i], p, C)
    BY <1>3, <2>1 DEF Own, OfPod
  <2>5. \A k \in 1 .. Len(pod'.endpoints) : Own(pod'.endpoints[k], p, C)
    BY <1>5, <2>3, <2>4
  <2> QED BY <1>2, <2>2, <2>3, <2>5 DEF PodRight
<1>8. CASE PodContainers
  <2>1. EndPoints' = EndPoints /\ pod'.pc = "policies" /\ pod'.name = p /\ pod'.endpoints = pod.endpoints
    BY <1>0, <1>8 DEF PodContainers, PodStep, PodHandler
  <2> QED BY <1>2, <1>4, <2>1 DEF PodRight
<1>9. CASE PodPolicies
  <2> DEFINE T == {q \in Policies : Selected(q.selector, NamespaceOf[p], IdentitiesOf(p, v))}
  <2>1. /\ EndPoints' = EndPoints
        /\ pod' = [pod EXCEPT !.pc = "publish", !.policies = GetSecurityPolicies(p, IdentitiesOf(p, v))]
    BY <1>9 DEF PodPolicies, PodStep
  <2>2. GetSecurityPolicies(p, IdentitiesOf(p, v)) = Kept(SecurityPolicies, T)
    BY Zenon DEF GetSecurityPolicies
  <2>3. /\ pod'.pc = "publish" /\ pod'.name = p /\ pod'.version = v /\ pod'.endpoints = pod.endpoints
        /\ pod'.policies = GetSecurityPolicies(p, IdentitiesOf(p, v))
    BY <1>0, <2>1 DEF PodHandler
  <2>4. Stores(Kept(SecurityPolicies, T), C \cap T)
    <3> HIDE DEF T
    <3> QED BY <1>0, KeptStores
  <2>5. C \cap T = {q \in C : Selected(q.selector, NamespaceOf[p], IdentitiesOf(p, v))}
    BY <1>0, Zenon
  <2> QED BY <1>2, <1>4, <2>1, <2>2, <2>3, <2>4, <2>5, Zenon DEF PodRight
<1>10. CASE PodPublish
  <2>1. PICK ids \in Orders(DOMAIN pod.version.containers) :
          LET new == [i \in DOMAIN ids |-> PodEndPoint(pod.name, pod.version, ids[i], pod.policies)]
          IN  /\ EndPoints' = EndPoints \o new
              /\ pod' = IF ids = <<>> THEN PodIdle ELSE [pod EXCEPT !.pc = "push", !.endpoints = new]
    BY <1>10, Zenon DEF PodPublish
  <2> DEFINE new == [i \in DOMAIN ids |-> PodEndPoint(pod.name, pod.version, ids[i], pod.policies)]
  <2>2. pod.pc = "publish"
    BY <1>10, Zenon DEF PodPublish, PodStep
  <2>3. /\ new \in Seq(EndPoint) /\ Len(new) = Len(ids)
        /\ \A i \in 1 .. Len(ids) :
             new[i] = PodEndPoint(pod.name, pod.version, ids[i], pod.policies) /\ ids[i] \in DOMAIN pod.version.containers
    BY <2>2, NewEndPoints, Zenon
  <2>4. EndPoints' = EndPoints \o new /\ pod' = IF ids = <<>> THEN PodIdle ELSE [pod EXCEPT !.pc = "push", !.endpoints = new]
    BY <2>1
  <2> HIDE DEF new
  <2>5. \A i \in 1 .. Len(new) : Own(new[i], p, C)
    BY <1>6, <2>2, <2>3
  <2>6. \A i \in 1 .. Len(EndPoints') : Right(EndPoints'[i], C)
    <3>1. /\ \A i \in 1 .. Len(EndPoints) : (EndPoints \o new)[i] = EndPoints[i]
          /\ \A i \in 1 .. Len(new) : (EndPoints \o new)[Len(EndPoints) + i] = new[i]
          /\ \A i \in 1 .. Len(EndPoints \o new) : i \in 1 .. Len(EndPoints) \/ \E j \in 1 .. Len(new) : i = Len(EndPoints) + j
      BY <1>0, <2>3, ConcatFacts
    <3> QED BY <1>3, <2>4, <2>5, <3>1, Zenon DEF Own
  <2>7. pod'.pc = "idle" \/ (pod'.pc = "push" /\ pod'.name = p /\ pod'.endpoints = new)
    BY <1>0, <2>4, IdleFacts DEF PodHandler
  <2>8. PodRight(pod', C)
    BY <2>5, <2>7 DEF PodRight
  <2> QED BY <1>1, <2>6, <2>8, ListsIdle
<1>11. CASE PodReplace
  <2>1. pod.pc = "publish" /\ EndPoints' = EndPoints
    BY <1>11, Zenon DEF PodReplace, PodStep
  <2>2. CASE pod' = [pod EXCEPT !.pc = "push"]
    <3>1. pod'.pc = "push" /\ pod'.name = p /\ pod'.endpoints = pod.endpoints
      BY <1>0, <2>2, Zenon DEF PodHandler
    <3> QED BY <1>2, <1>4, <2>1, <3>1 DEF PodRight
  <2>3. ASSUME NEW id \in DOMAIN v.containers,
               pod' = [pod EXCEPT !.pc = "push", !.endpoints = <<PodEndPoint(p, v, id, pod.policies)>>]
        PROVE  Lists'
    <3> DEFINE e == PodEndPoint(p, v, id, pod.policies)
    <3>1. Own(e, p, C)
      BY <1>6, <2>1
    <3>2. pod' = [pod EXCEPT !.pc = "push", !.endpoints = <<e>>]
      BY <2>3
    <3> HIDE DEF e
    <3>3. pod'.pc = "push" /\ pod'.name = p /\ pod'.endpoints = <<e>>
      BY <1>0, <3>2, Zenon DEF PodHandler
    <3>4. \A i \in 1 .. Len(pod'.endpoints) : Own(pod'.endpoints[i], p, C)
      BY <1>5, <3>1, <3>3
    <3> QED BY <1>2, <2>1, <3>3, <3>4 DEF PodRight
  <2> QED BY <1>11, <2>2, <2>3, Zenon DEF PodReplace
<1>12. CASE PodPush
  <2>1. /\ EndPoints' = EndPoints /\ pod.endpoints # <<>>
        /\ pod' = IF Len(pod.endpoints) = 1 THEN PodIdle ELSE [pod EXCEPT !.endpoints = Tail(@)]
    BY <1>12 DEF PodPush, PodStep, Shape, PodRun
  <2>2. CASE pod'.pc = "idle"
    BY <1>2, <2>1, <2>2 DEF PodRight
  <2>3. CASE pod'.pc # "idle"
    <3>1. pod'.pc = "push" /\ pod'.name = p /\ pod'.endpoints = Tail(pod.endpoints)
      BY <1>0, <1>12, <2>1, <2>3, IdleFacts DEF PodHandler, PodPush, PodStep
    <3>2. \A i \in 1 .. Len(Tail(pod.endpoints)) : i + 1 \in 1 .. Len(pod.endpoints) /\ Tail(pod.endpoints)[i] = pod.endpoints[i + 1]
      BY <1>0, <2>1, HeadFacts
    <3>3. \A i \in 1 .. Len(Tail(pod.endpoints)) : Own(Tail(pod.endpoints)[i], p, C)
      BY <1>4, <3>2
    <3> QED BY <1>2, <2>1, <3>1, <3>3, Zenon DEF PodRight
  <2> QED BY <2>2, <2>3
<1>13. CASE PodRemove
  <2> DEFINE S == ToSet(EndPoints) \ OfPod
             r == Kept(EndPoints, S)
  <2>1. EndPoints' = r /\ pod'.pc = "idle"
    BY <1>13, IdleFacts DEF PodRemove
  <2>2. r \in Seq(EndPoint) /\ ToSet(r) = ToSet(EndPoints) \cap S
    <3> HIDE DEF S
    <3> QED BY <1>0, KeptFacts
  <2> HIDE DEF r, S
  <2>3. \A i \in 1 .. Len(r) : \E j \in 1 .. Len(EndPoints) : EndPoints[j] = r[i]
    <3>1. \A i \in 1 .. Len(r) : r[i] \in ToSet(EndPoints)
      BY <2>2, ToSetFacts
    <3> QED BY <1>0, <3>1, ToSetFacts
  <2>4. \A i \in 1 .. Len(EndPoints') : Right(EndPoints'[i], C)
    BY <1>3, <2>1, <2>3
  <2>5. PodRight(pod', C)
    BY <2>1, Zenon DEF PodRight
  <2> QED BY <1>1, <2>4, <2>5, ListsIdle
<1> QED BY <1>7, <1>8, <1>9, <1>10, <1>11, <1>12, <1>13, Zenon

LEMMA ListsNext ==
  ASSUME Counting, WellFormed, NamesApart, InTurn, PodsSteady, PoliciesSteady, Shape, Roster, Stores(SecurityPolicies, policyCache),
         Lists, [Next]_vars
  PROVE  Lists'
<1>1. CASE \E p \in PodNames : PodAdded(p) \/ PodModified(p) \/ PodDeleted(p) \/ PodTombstone(p)
  BY <1>1, ListsPodStart
<1>2. CASE PodLookup \/ PodContainers \/ PodPolicies \/ PodPublish \/ PodReplace \/ PodPush \/ PodRemove
  BY <1>2, ListsPodStep
<1>3. CASE \E p \in Policies : PolicyAdded(p) \/ PolicyModified(p) \/ PolicyDeleted(p)
  BY <1>3, ListsPolicyStart
<1>4. CASE \E t \in Types : \/ PolicyLength(t) \/ PolicyCopy(t) \/ PolicyWrite(t) \/ PolicyLog(t)
                            \/ PolicyEnforce(t) \/ PolicyPanic(t)
  BY <1>4, ListsPolicyStep
<1>5. ~Restart /\ ~\E p \in Policies : NamespaceListFails(p)
  BY DEF Restart, Roster, Seen, NamespaceListFails, NamesApart
<1>6. CASE \/ \E c \in ContainerIDs : ContainerStart(c) \/ ContainerDestroy(c)
           \/ ContainerLookup \/ ContainerRegister \/ ContainerPush \/ ContainerUnregister
           \/ UNCHANGED vars
  <2>1. UNCHANGED <<policyCache, EndPoints, pod, policy>>
    BY <1>6, Zenon DEF ContainerStart, ContainerDestroy, ContainerLookup, ContainerRegister, ContainerPush,
       ContainerUnregister, RuntimeStep, cluster, handlers, vars
  <2> QED BY <2>1 DEF Lists
<1> QED BY <1>1, <1>2, <1>3, <1>4, <1>5, <1>6 DEF Next
-----------------------------------------------------------------------------
(* Which rules are in force. *)

\* The rules of container id are about to be handed to the enforcer.
Coming(id, s, hs, d, c) ==
  \/ \E t \in Types : hs[t].pc \in {"log", "enforce"} /\ s[hs[t].idx].ContainerID = id
  \/ d.pc = "push" /\ \E i \in 1 .. Len(d.endpoints) : d.endpoints[i].ContainerID = id
  \/ c.pc = "push" /\ c.id = id

ComingNow(id) == Coming(id, EndPoints, policy, pod, crt)
ComingNext(id) == Coming(id, EndPoints', policy', pod', crt')

Agrees(e, M, R) == Enforceable(e) /\ e.ContainerID \in M => R[e.ContainerID] = ToSet(e.SecurityPolicies)

Agreed == \A i \in 1 .. Len(EndPoints) : ComingNow(EndPoints[i].ContainerID) \/ Agrees(EndPoints[i], ContainerMap, Rules)

\* The runtime handler looks for the endpoint of every container that has one.
Described ==
  /\ \A i \in 1 .. Len(EndPoints) :
       Containers[EndPoints[i].ContainerID] # {} \/ runtime[EndPoints[i].ContainerID] = "gone"
  /\ pod.pc \in {"policies", "publish"} => \A id \in DOMAIN pod.version.containers : Containers[id] # {}

\* The runtime handler has the endpoint of its container, if there is one.
Found ==
  /\ crt.pc \in {"register", "push"} /\ crt.endPoint # NoEndPoint =>
       \E i \in 1 .. Len(EndPoints) : EndPoints[i] = crt.endPoint /\ EndPoints[i].ContainerID = crt.id
  /\ crt.pc = "register" /\ crt.endPoint = NoEndPoint =>
       \A i \in 1 .. Len(EndPoints) : EndPoints[i].ContainerID # crt.id
  /\ crt.pc = "push" => crt.endPoint # NoEndPoint /\ crt.id \in ContainerMap /\ Rules[crt.id] = {}

Untorn == \A t \in Types : policy[t].pc = "enforce" => policy[t].torn = EndPoints[policy[t].idx]

InForce == Agreed /\ Described /\ Found /\ Untorn

LEMMA AgreedNext ==
  ASSUME \A i \in 1 .. Len(EndPoints') : ComingNext(EndPoints'[i].ContainerID) \/ Agrees(EndPoints'[i], ContainerMap', Rules')
  PROVE  Agreed'
BY DEF Agreed, ComingNow, ComingNext

LEMMA AgreedSame ==
  ASSUME Agreed, EndPoints' = EndPoints, UNCHANGED <<ContainerMap, Rules>>, \A id : ComingNow(id) => ComingNext(id)
  PROVE  Agreed'
BY AgreedNext DEF Agreed

\* What the enforcer is told.
LEMMA EnforcedFacts ==
  ASSUME Shape, NEW e \in EndPoint
  PROVE  /\ e.ContainerID \in ContainerMap => Enforced(e)[e.ContainerID] = ToSet(e.SecurityPolicies)
         /\ \A id \in ContainerIDs : id # e.ContainerID => Enforced(e)[id] = Rules[id]
<1>1. Rules \in [ContainerIDs -> SUBSET Policies] /\ e.ContainerID \in ContainerIDs
  BY PoliciesOf, Zenon DEF Shape, TypeOK
<1> QED BY <1>1 DEF Enforced

\* While no handler but the pod handler runs.
LEMMA ForceStill ==
  ASSUME crt.pc = "idle", crt' = crt, \A t \in Types : policy[t].pc = "idle" /\ policy'[t] = policy[t]
  PROVE  /\ Found' /\ Untorn'
         /\ \A id : ComingNext(id) <=> pod'.pc = "push" /\ \E i \in 1 .. Len(pod'.endpoints) : pod'.endpoints[i].ContainerID = id
         /\ \A id : ComingNow(id) <=> pod.pc = "push" /\ \E i \in 1 .. Len(pod.endpoints) : pod.endpoints[i].ContainerID = id
BY DEF Found, Untorn, Coming, ComingNow, ComingNext

LEMMA InForcePodStart ==
  ASSUME Shape, InForce, InTurn, NEW p \in PodNames, PodAdded(p) \/ PodModified(p) \/ PodDeleted(p) \/ PodTombstone(p)
  PROVE  InForce'
<1>1. /\ UNCHANGED <<EndPoints, policy, crt, ContainerMap, Rules, Containers, runtime>>
      /\ MayStart("pod") /\ "pod" \in Handlers /\ ~PodTombstone(p)
  BY Zenon DEF PodAdded, PodModified, PodDeleted, PodTombstone, Handlers, InTurn, enforcer
<1>2. pod.pc = "idle" /\ crt.pc = "idle" /\ \A t \in Types : policy[t].pc = "idle"
  BY <1>1, AllIdle
<1>3. pod'.pc \in {"lookup", "containers", "remove"}
  BY <1>1, Zenon DEF PodAdded, PodModified, PodDeleted, PodIdle
<1>4. Found' /\ Untorn' /\ \A id : ~ComingNow(id)
  BY <1>1, <1>2, ForceStill
<1>5. Agreed'
  BY <1>1, <1>4, AgreedSame, Zenon DEF InForce
<1>6. Described'
  BY <1>1, <1>3 DEF InForce, Described
<1> QED BY <1>4, <1>5, <1>6 DEF InForce

LEMMA InForcePodStep ==
  ASSUME Counting, WellFormed, PodsSteady, Shape, Roster, Lists, InForce, InTurn,
         PodLookup \/ PodContainers \/ PodPolicies \/ PodPublish \/ PodReplace \/ PodPush \/ PodRemove
  PROVE  InForce'
<1>0. /\ pod \in PodHandler /\ pod.pc # "idle" /\ EndPoints \in Seq(EndPoint) /\ pod.endpoints \in Seq(EndPoint)
      /\ Containers \in [ContainerIDs -> SUBSET {"pod", "runtime"}]
  <2>1. pod \in PodHandler /\ pod.pc # "idle" /\ EndPoints \in Seq(EndPoint)
    BY Zenon DEF PodLookup, PodContainers, PodPolicies, PodPublish, PodReplace, PodPush, PodRemove, PodStep, Shape, TypeOK
  <2> QED BY <2>1 DEF PodHandler, Shape, TypeOK
<1>1. /\ UNCHANGED <<ContainerMap, runtime, crt>> /\ crt.pc = "idle"
      /\ \A t \in Types : policy[t].pc = "idle" /\ policy'[t] = policy[t]
  BY <1>0, PodStepFacts, Zenon
<1>2. /\ Found' /\ Untorn'
      /\ \A id : ComingNext(id) <=> pod'.pc = "push" /\ \E i \in 1 .. Len(pod'.endpoints) : pod'.endpoints[i].ContainerID = id
      /\ \A id : ComingNow(id) <=> pod.pc = "push" /\ \E i \in 1 .. Len(pod.endpoints) : pod.endpoints[i].ContainerID = id
  BY <1>1, ForceStill
<1>3. \A i \in 1 .. Len(EndPoints) : Fits(EndPoints[i]) /\ EndPoints[i] \in EndPoint
  BY <1>0 DEF Roster, Sound
<1>4. ASSUME EndPoints' = EndPoints, Rules' = Rules, pod.pc # "push", Described' PROVE InForce'
  <2>1. \A id : ~ComingNow(id)
    BY <1>2, <1>4
  <2>2. Agreed'
    BY <1>1, <1>4, <2>1, AgreedSame DEF InForce
  <2> QED BY <1>2, <1>4, <2>2, Zenon DEF InForce
<1>5. CASE PodLookup
  <2>1. pod.pc = "lookup" /\ UNCHANGED <<EndPoints, Rules, Containers>> /\ pod'.pc = "containers"
    BY <1>0, <1>5, Zenon DEF PodLookup, PodStep, PodHandler
  <2>2. Described'
    BY <1>1, <2>1 DEF InForce, Described
  <2> QED BY <1>4, <2>1, <2>2
<1>6. CASE PodContainers
  <2>1. /\ pod.pc = "containers" /\ UNCHANGED <<EndPoints, Rules>> /\ pod'.pc = "policies" /\ pod'.version = pod.version
        /\ Containers' = [c \in ContainerIDs |-> IF c \in DOMAIN pod.version.containers
                                                 THEN Containers[c] \cup {"pod"} ELSE Containers[c]]
    BY <1>0, <1>6 DEF PodContainers, PodStep, PodHandler
  <2>2. DOMAIN pod.version.containers \subseteq ContainerIDs
    <3>1. pod.version \in Versions
      BY <2>1, VersionOf DEF Shape, PodRun
    <3> QED BY <3>1, Zenon DEF WellFormed
  <2>3. \A c \in ContainerIDs : Containers[c] # {} \/ c \in DOMAIN pod.version.containers => Containers'[c] # {}
    BY <2>1
  <2>4. \A i \in 1 .. Len(EndPoints) : EndPoints[i].ContainerID \in ContainerIDs
    BY <1>3, PoliciesOf, Zenon
  <2>5. Described'
    BY <1>1, <2>1, <2>2, <2>3, <2>4 DEF InForce, Described
  <2> QED BY <1>4, <2>1, <2>5
<1>7. CASE PodPolicies
  <2>1. pod.pc = "policies" /\ UNCHANGED <<EndPoints, Rules, Containers>> /\ pod'.pc = "publish" /\ pod'.version = pod.version
    BY <1>0, <1>7, Zenon DEF PodPolicies, PodStep, PodHandler
  <2>2. Described'
    BY <1>1, <2>1 DEF InForce, Described
  <2> QED BY <1>4, <2>1, <2>2
<1>8. CASE PodReplace
  <2>1. pod.pc = "publish" /\ UNCHANGED <<EndPoints, Rules, Containers>> /\ pod'.pc = "push"
    BY <1>0, <1>8, Zenon DEF PodReplace, PodStep, PodHandler
  <2>2. Described'
    BY <1>1, <2>1, Zenon DEF InForce, Described
  <2> QED BY <1>4, <2>1, <2>2
<1>9. CASE PodPublish
  <2>1. PICK ids \in Orders(DOMAIN pod.version.containers) :
          LET new == [i \in DOMAIN ids |-> PodEndPoint(pod.name, pod.version, ids[i], pod.policies)]
          IN  /\ EndPoints' = EndPoints \o new
              /\ pod' = IF ids = <<>> THEN PodIdle ELSE [pod EXCEPT !.pc = "push", !.endpoints = new]
    BY <1>9, Zenon DEF PodPublish
  <2> DEFINE new == [i \in DOMAIN ids |-> PodEndPoint(pod.name, pod.version, ids[i], pod.policies)]
  <2>2. pod.pc = "publish" /\ UNCHANGED <<Rules, Containers>>
    BY <1>9, Zenon DEF PodPublish, PodStep
  <2>3. /\ new \in Seq(EndPoint) /\ Len(new) = Len(ids) /\ DOMAIN ids = 1 .. Len(ids)
        /\ \A i \in 1 .. Len(ids) : new[i].ContainerID = ids[i] /\ ids[i] \in DOMAIN pod.version.containers
    BY <2>2, NewEndPoints, Zenon
  <2>4. EndPoints' = EndPoints \o new /\ pod' = IF ids = <<>> THEN PodIdle ELSE [pod EXCEPT !.pc = "push", !.endpoints = new]
    BY <2>1
  <2> HIDE DEF new
  <2>5. /\ \A i \in 1 .. Len(EndPoints) : (EndPoints \o new)[i] = EndPoints[i]
        /\ \A i \in 1 .. Len(new) : (EndPoints \o new)[Len(EndPoints) + i] = new[i]
        /\ \A i \in 1 .. Len(EndPoints \o new) : i \in 1 .. Len(EndPoints) \/ \E j \in 1 .. Len(new) : i = Len(EndPoints) + j
    BY <1>0, <2>3, ConcatFacts
  <2>6. \A i \in 1 .. Len(new) : ComingNext(new[i].ContainerID)
    <3>1. ids = <<>> => Len(new) = 0
      BY <2>3
    <3>2. ids # <<>> => pod'.pc = "push" /\ pod'.endpoints = new
      BY <1>0, <2>4, Zenon DEF PodHandler
    <3>3. ids # <<>> => \A i \in 1 .. Len(new) : ComingNext(new[i].ContainerID)
      BY <1>2, <3>2, Zenon
    <3> QED BY <3>1, <3>3
  <2>7. \A i \in 1 .. Len(EndPoints) : Agrees(EndPoints[i], ContainerMap, Rules)
    BY <1>2, <2>2 DEF InForce, Agreed
  <2>8. Agreed'
    <3>1. \A i \in 1 .. Len(EndPoints') : ComingNext(EndPoints'[i].ContainerID) \/ Agrees(EndPoints'[i], ContainerMap', Rules')
      BY <1>1, <2>2, <2>4, <2>5, <2>6, <2>7, Zenon
    <3> QED BY <3>1, AgreedNext
  <2>9. Described'
    <3>1. pod'.pc \in {"idle", "push"}
      BY <1>0, <2>4, IdleFacts, Zenon DEF PodHandler
    <3>2. \A i \in 1 .. Len(new) : Containers[new[i].ContainerID] # {}
      BY <2>2, <2>3, Zenon DEF InForce, Described
    <3>3. \A i \in 1 .. Len(EndPoints) : Containers[EndPoints[i].ContainerID] # {} \/ runtime[EndPoints[i].ContainerID] = "gone"
      BY DEF InForce, Described
    <3>4. \A i \in 1 .. Len(EndPoints') :
            Containers[EndPoints'[i].ContainerID] # {} \/ runtime[EndPoints'[i].ContainerID] = "gone"
      <4> SUFFICES ASSUME NEW i \in 1 .. Len(EndPoints')
                   PROVE  Containers[EndPoints'[i].ContainerID] # {} \/ runtime[EndPoints'[i].ContainerID] = "gone"
        OBVIOUS
      <4>1. CASE i \in 1 .. Len(EndPoints)
        BY <2>4, <2>5, <3>3, <4>1
      <4>2. ASSUME NEW j \in 1 .. Len(new), i = Len(EndPoints) + j
            PROVE  Containers[EndPoints'[i].ContainerID] # {} \/ runtime[EndPoints'[i].ContainerID] = "gone"
        <5>1. EndPoints'[i] = new[j]
          BY <2>4, <2>5, <4>2, Zenon
        <5> QED BY <3>2, <5>1
      <4> QED BY <2>4, <2>5, <4>1, <4>2, Zenon
    <3> QED BY <1>1, <2>2, <3>1, <3>4 DEF Described
  <2> QED BY <1>2, <2>8, <2>9 DEF InForce
<1>10. CASE PodRemove
  <2> DEFINE S == ToSet(EndPoints) \ OfPod
             r == Kept(EndPoints, S)
  <2>1. EndPoints' = r /\ pod'.pc = "idle" /\ pod.pc = "remove" /\ UNCHANGED <<Rules, Containers>>
    BY <1>10, IdleFacts DEF PodRemove, PodStep
  <2>2. r \in Seq(EndPoint) /\ ToSet(r) = ToSet(EndPoints) \cap S
    <3> HIDE DEF S
    <3> QED BY <1>0, KeptFacts, Zenon
  <2> HIDE DEF r, S
  <2>3. \A i \in 1 .. Len(r) : \E j \in 1 .. Len(EndPoints) : EndPoints[j] = r[i]
    <3>1. \A i \in 1 .. Len(r) : r[i] \in ToSet(EndPoints)
      BY <2>2, ToSetFacts, Zenon
    <3> QED BY <1>0, <3>1, ToSetFacts
  <2>4. \A i \in 1 .. Len(EndPoints) : Agrees(EndPoints[i], ContainerMap, Rules)
    BY <1>2, <2>1 DEF InForce, Agreed
  <2>5. Agreed'
    <3>1. \A i \in 1 .. Len(EndPoints') : Agrees(EndPoints'[i], ContainerMap', Rules')
      BY <1>1, <2>1, <2>3, <2>4, Zenon
    <3> QED BY <3>1, AgreedNext
  <2>6. Described'
    BY <1>1, <2>1, <2>3 DEF InForce, Described
  <2> QED BY <1>2, <2>5, <2>6 DEF InForce
<1>11. CASE PodPush
  <2> DEFINE s == pod.endpoints
             e == s[1]
  <2>1. /\ pod.pc = "push" /\ UNCHANGED <<EndPoints, Containers>> /\ s # <<>>
        /\ Rules' = IF Enforceable(Head(s)) THEN Enforced(Head(s)) ELSE Rules
        /\ pod' = IF Len(s) = 1 THEN PodIdle ELSE [pod EXCEPT !.endpoints = Tail(@)]
    BY <1>11 DEF PodPush, PodStep, Shape, PodRun
  <2>2. /\ Head(s) = e /\ e \in EndPoint /\ 1 \in 1 .. Len(s)
        /\ \A i \in 1 .. Len(s) : i = 1 \/ (i - 1 \in 1 .. Len(Tail(s)) /\ s[i] = Tail(s)[i - 1])
        /\ Len(s) = 1 => 1 .. Len(s) = {1}
    <3>1. s \in Seq(EndPoint) /\ s # <<>>
      BY <1>0, <2>1
    <3> HIDE DEF s
    <3>2. /\ 1 \in DOMAIN s /\ Head(s) = s[1] /\ Head(s) \in EndPoint /\ Tail(s) \in Seq(EndPoint)
          /\ \A i \in DOMAIN s : i = 1 \/ (i - 1 \in DOMAIN Tail(s) /\ s[i] = Tail(s)[i - 1])
          /\ Len(s) = 1 => DOMAIN s = {1}
      BY <3>1, HeadFacts
    <3>3. DOMAIN s = 1 .. Len(s) /\ DOMAIN Tail(s) = 1 .. Len(Tail(s))
      BY <3>1, <3>2
    <3> QED BY <3>2, <3>3
  <2>3. Own(e, pod.name, policyCache)
    BY <1>0, <2>2 DEF Lists, PodRight
  <2>4. pod'.pc \in {"idle", "push"} /\ (Len(s) # 1 => pod'.pc = "push" /\ pod'.endpoints = Tail(s))
    BY <1>0, <2>1, IdleFacts, Zenon DEF PodHandler
  <2> HIDE DEF s, e
  <2>5. \A id : ComingNow(id) => id = e.ContainerID \/ ComingNext(id)
    <3> SUFFICES ASSUME NEW id, ComingNow(id), id # e.ContainerID PROVE ComingNext(id)
      OBVIOUS
    <3>1. PICK i \in 1 .. Len(s) : s[i].ContainerID = id
      BY <1>2 DEF s
    <3>2. i # 1
      BY <3>1 DEF e
    <3>3. Len(s) # 1 /\ i - 1 \in 1 .. Len(Tail(s)) /\ Tail(s)[i - 1].ContainerID = id
      BY <2>2, <3>1, <3>2, Zenon
    <3> QED BY <1>2, <2>4, <3>3, Zenon
  <2>6. ASSUME NEW i \in 1 .. Len(EndPoints) PROVE ComingNext(EndPoints[i].ContainerID) \/ Agrees(EndPoints[i], ContainerMap, Rules')
    <3> DEFINE f == EndPoints[i]
    <3>1. f \in EndPoint /\ Fits(f) /\ f.ContainerID \in ContainerIDs
      BY <1>3, PoliciesOf, Zenon
    <3>2. Right(f, policyCache)
      BY <1>1, SlotIdle DEF Lists
    <3>3. ComingNow(f.ContainerID) \/ Agrees(f, ContainerMap, Rules)
      BY Zenon DEF InForce, Agreed
    <3> HIDE DEF f
    <3>4. CASE f.ContainerID # e.ContainerID
      <4>1. Rules'[f.ContainerID] = Rules[f.ContainerID]
        BY <2>1, <2>2, <3>1, <3>4, EnforcedFacts
      <4> QED BY <2>5, <3>3, <3>4, <4>1 DEF Agrees, f
    <3>5. CASE f.ContainerID = e.ContainerID
      <4>1. Alike(e, f)
        BY <2>2, <2>3, <3>1, <3>5, FitsAlike, Zenon DEF Own
      <4>2. ToSet(e.SecurityPolicies) = ToSet(f.SecurityPolicies)
        BY <2>3, <3>2, <4>1, AlikeWanted DEF Own, Right, Stores
      <4>3. Enforceable(f) <=> Enforceable(e)
        BY <4>1, AlikeFacts
      <4>4. Agrees(f, ContainerMap, Rules')
        BY <2>1, <2>2, <3>5, <4>2, <4>3, EnforcedFacts DEF Agrees
      <4> QED BY <4>4, Zenon DEF f
    <3> QED BY <3>4, <3>5
  <2>7. Agreed'
    BY <1>1, <2>1, <2>6, AgreedNext
  <2>8. Described'
    BY <1>1, <2>1, <2>4 DEF InForce, Described
  <2> QED BY <1>2, <2>7, <2>8 DEF InForce
<1> QED BY <1>5, <1>6, <1>7, <1>8, <1>9, <1>10, <1>11

\* The policy informers.
LEMMA InForcePolicyStart ==
  ASSUME WellFormed, Shape, InForce, InTurn, NEW p \in Policies,
         PolicyAdded(p) \/ PolicyModified(p) \/ PolicyDeleted(p)
  PROVE  InForce'
<1>1. PICK action \in Acts : MayStart(p.type) /\ PolicyEvent(action, p, policyCache')
  BY EventFacts, Zenon
<1>2. p.type \in Types /\ p.type \in Handlers
  BY Zenon DEF WellFormed, Handlers
<1>3. pod.pc = "idle" /\ crt.pc = "idle" /\ \A t \in Types : policy[t].pc = "idle"
  BY <1>1, <1>2, AllIdle
<1>4. /\ UNCHANGED <<runtime, Containers, pod, crt, EndPoints, ContainerMap, Rules>>
      /\ policy' = [policy EXCEPT ![p.type] = [PolicyIdle EXCEPT !.pc = "length", !.action = action, !.object = p]]
  BY <1>1 DEF PolicyEvent, enforcer
<1>5. policy \in [Types -> PolicyHandler]
  BY DEF Shape, TypeOK
<1>6. \A t \in Types : policy'[t].pc \in {"idle", "length"}
  <2> SUFFICES ASSUME NEW t \in Types PROVE policy'[t].pc \in {"idle", "length"}
    OBVIOUS
  <2>1. CASE t = p.type
    BY <1>4, <1>5, <2>1 DEF PolicyIdle
  <2>2. CASE t # p.type
    BY <1>3, <1>4, <1>5, <2>2
  <2> QED BY <2>1, <2>2
<1>7. Untorn' /\ Found'
  BY <1>3, <1>4, <1>6, Zenon DEF Untorn, Found
<1>8. \A id : ~ComingNow(id)
  BY <1>3 DEF ComingNow, Coming
<1>9. Agreed'
  BY <1>4, <1>8, AgreedSame DEF InForce
<1>10. Described'
  BY <1>4, Zenon DEF InForce, Described
<1> QED BY <1>7, <1>9, <1>10 DEF InForce

LEMMA InForcePolicyStep ==
  ASSUME Shape, Roster, InForce, InTurn, NEW t \in Types,
         PolicyLength(t) \/ PolicyCopy(t) \/ PolicyWrite(t) \/ PolicyLog(t) \/ PolicyEnforce(t) \/ PolicyPanic(t)
  PROVE  InForce'
<1> DEFINE h == policy[t]
           n == policy'[t]
           e == EndPoints[h.idx]
<1>1. /\ ~PolicyPanic(t) /\ pod.pc = "idle" /\ crt.pc = "idle"
      /\ \A u \in Types : u # t => policy[u].pc = "idle" /\ policy'[u] = policy[u]
      /\ UNCHANGED <<runtime, Containers, ContainerMap, pod, crt>>
      /\ h.pc \in {"copy", "write", "log", "enforce"} => h.idx \in 1 .. Len(EndPoints) /\ e \in EndPoint
  BY PolicyStepFacts, Zenon
<1>2. /\ \A id : ComingNow(id) <=> h.pc \in {"log", "enforce"} /\ e.ContainerID = id
      /\ \A id : ComingNext(id) <=> n.pc \in {"log", "enforce"} /\ EndPoints'[n.idx].ContainerID = id
  BY <1>1, Zenon DEF ComingNow, ComingNext, Coming
<1>3. Found'
  BY <1>1, Zenon DEF Found
<1>4. \A i, j \in 1 .. Len(EndPoints) : EndPoints[i].ContainerID = EndPoints[j].ContainerID => i = j
  BY DEF Roster, Sound
<1>5. \A i \in 1 .. Len(EndPoints) : EndPoints[i] \in EndPoint /\ EndPoints[i].ContainerID \in ContainerIDs
  <2>1. \A i \in 1 .. Len(EndPoints) : EndPoints[i] \in EndPoint
    BY DEF Shape, TypeOK
  <2> QED BY <2>1, PoliciesOf, Zenon
<1>6. \A i \in 1 .. Len(EndPoints) : ComingNow(EndPoints[i].ContainerID) \/ Agrees(EndPoints[i], ContainerMap, Rules)
  BY Zenon DEF InForce, Agreed
<1>7. ASSUME EndPoints' = EndPoints, n.pc = "enforce" => n.torn = EndPoints[n.idx], Agreed' PROVE InForce'
  <2>1. Untorn'
    BY <1>1, <1>7, Zenon DEF Untorn
  <2>2. Described'
    BY <1>1, <1>7, Zenon DEF InForce, Described
  <2> QED BY <1>3, <1>7, <2>1, <2>2 DEF InForce
<1>8. \A i : Passed(n, h, i) => n.pc \in {"idle", "copy"}
  BY Zenon DEF Passed
<1>9. CASE PolicyLength(t) \/ PolicyCopy(t)
  <2>1. h.pc \in {"length", "copy"} /\ EndPoints' = EndPoints /\ Rules' = Rules /\ n.pc \in {"idle", "copy", "write"}
    BY <1>8, <1>9, LengthCase, CopyCase, Zenon
  <2>2. \A id : ~ComingNow(id)
    BY <1>2, <2>1
  <2>3. Agreed'
    BY <1>1, <2>1, <2>2, AgreedSame DEF InForce
  <2> QED BY <1>7, <2>1, <2>3
<1>10. CASE PolicyWrite(t)
  <2>1. /\ h.pc = "write" /\ Rules' = Rules /\ n.pc = "log" /\ SameTask(n, h) /\ Len(EndPoints') = Len(EndPoints)
        /\ \A i \in 1 .. Len(EndPoints) : EndPoints'[i] = IF i = h.idx THEN h.endPoint ELSE EndPoints[i]
    BY <1>10, WriteCase, Zenon
  <2>2. n.idx = h.idx /\ h.endPoint.ContainerID = e.ContainerID
    BY <2>1, Zenon DEF SameTask, Roster, Going, Alike
  <2>3. \A i \in 1 .. Len(EndPoints) : EndPoints'[i].ContainerID = EndPoints[i].ContainerID
    BY <2>1, <2>2, Zenon
  <2>4. ASSUME NEW i \in 1 .. Len(EndPoints')
        PROVE  ComingNext(EndPoints'[i].ContainerID) \/ Agrees(EndPoints'[i], ContainerMap', Rules')
    <3>1. CASE i = h.idx
      BY <1>2, <2>1, <2>2, <3>1, Zenon
    <3>2. CASE i # h.idx
      BY <1>1, <1>2, <1>6, <2>1, <2>4, <3>2, Zenon
    <3> QED BY <3>1, <3>2
  <2>5. Agreed'
    BY <2>4, AgreedNext, Zenon
  <2>6. Described'
    <3>1. UNCHANGED <<runtime, Containers, pod>>
      BY <1>1
    <3> QED BY <2>1, <2>3, <3>1, Zenon DEF InForce, Described
  <2>7. Untorn'
    BY <1>1, <2>1, Zenon DEF Untorn
  <2> QED BY <1>3, <2>5, <2>6, <2>7 DEF InForce
<1>11. CASE PolicyLog(t)
  <2>1. /\ h.pc = "log" /\ EndPoints' = EndPoints /\ Rules' = Rules
        /\ ~Enforceable(e) => Passed(n, h, h.idx)
        /\ Enforceable(e) => n.pc = "enforce" /\ SameTask(n, h) /\ n.torn = e
    BY <1>11, LogCase, Zenon
  <2>2. h.idx \in 1 .. Len(EndPoints)
    BY <1>1, <2>1, Zenon
  <2>3. CASE Enforceable(e)
    <3>1. n.pc = "enforce" /\ n.torn = EndPoints[n.idx] /\ n.idx = h.idx
      BY <2>1, <2>3, Zenon DEF SameTask
    <3>2. \A id : ComingNow(id) => ComingNext(id)
      BY <1>2, <2>1, <3>1, Zenon
    <3>3. Agreed'
      BY <1>1, <2>1, <3>2, AgreedSame, Zenon DEF InForce
    <3> QED BY <1>7, <2>1, <3>1, <3>3, Zenon
  <2>4. CASE ~Enforceable(e)
    <3>1. n.pc \in {"idle", "copy"}
      BY <1>8, <2>1, <2>4, Zenon
    <3>2. \A i \in 1 .. Len(EndPoints) : Agrees(EndPoints[i], ContainerMap, Rules)
      <4> SUFFICES ASSUME NEW i \in 1 .. Len(EndPoints) PROVE Agrees(EndPoints[i], ContainerMap, Rules)
        BY Zenon
      <4>1. CASE i = h.idx
        BY <2>4, <4>1, Zenon DEF Agrees
      <4>2. CASE i # h.idx
        BY <1>2, <1>4, <1>6, <2>2, <4>2, Zenon
      <4> QED BY <4>1, <4>2
    <3>3. Agreed'
      BY <1>1, <2>1, <3>2, AgreedNext, Zenon
    <3> QED BY <1>7, <2>1, <3>1, <3>3
  <2> QED BY <2>3, <2>4, Zenon
<1>12. CASE PolicyEnforce(t)
  <2>1. /\ h.pc = "enforce" /\ EndPoints' = EndPoints /\ Passed(n, h, h.idx)
        /\ Rules' = Enforced([h.torn EXCEPT !.SecurityPolicies = e.SecurityPolicies])
    BY <1>12, EnforceCase
  <2>2. h.idx \in 1 .. Len(EndPoints) /\ e \in EndPoint /\ h.torn = e
    BY <1>1, <2>1 DEF InForce, Untorn
  <2>3. [h.torn EXCEPT !.SecurityPolicies = e.SecurityPolicies] = e
    BY <2>2, Zenon DEF EndPoint
  <2>4. /\ e.ContainerID \in ContainerMap => Rules'[e.ContainerID] = ToSet(e.SecurityPolicies)
        /\ \A id \in ContainerIDs : id # e.ContainerID => Rules'[id] = Rules[id]
    BY <2>1, <2>2, <2>3, EnforcedFacts
  <2>5. ASSUME NEW i \in 1 .. Len(EndPoints) PROVE Agrees(EndPoints[i], ContainerMap, Rules')
    <3>1. CASE i = h.idx
      BY <2>4, <3>1, Zenon DEF Agrees
    <3>2. CASE i # h.idx
      <4>1. EndPoints[i].ContainerID # e.ContainerID
        BY <1>4, <2>2, <3>2, Zenon
      <4>2. Agrees(EndPoints[i], ContainerMap, Rules)
        BY <1>2, <1>6, <4>1
      <4> QED BY <1>5, <2>4, <4>1, <4>2, Zenon DEF Agrees
    <3> QED BY <3>1, <3>2, Zenon
  <2>6. Agreed'
    BY <1>1, <2>1, <2>5, AgreedNext
  <2> QED BY <1>7, <1>8, <2>1, <2>6
<1> QED BY <1>1, <1>9, <1>10, <1>11, <1>12

\* The container runtime.
LEMMA InForceRuntimeStart ==
  ASSUME Shape, InForce, InTurn, NEW c \in ContainerIDs, ContainerStart(c) \/ ContainerDestroy(c)
  PROVE  InForce'
<1>1. /\ UNCHANGED <<EndPoints, pod, policy, ContainerMap, Rules>> /\ MayStart("runtime") /\ "runtime" \in Handlers
  BY Zenon DEF ContainerStart, ContainerDestroy, Handlers, enforcer
<1>2. pod.pc = "idle" /\ crt.pc = "idle" /\ \A t \in Types : policy[t].pc = "idle"
  BY <1>1, AllIdle
<1>3. /\ crt'.pc \in {"idle", "register", "lookup", "unregister"}
      /\ crt'.pc = "register" => crt'.id = c /\ crt'.endPoint = NoEndPoint /\ Containers[c] = {} /\ runtime[c] = "new"
  BY <1>2, Zenon DEF ContainerStart, ContainerDestroy, RuntimeIdle
<1>4. /\ Containers \in [ContainerIDs -> SUBSET {"pod", "runtime"}]
      /\ runtime \in [ContainerIDs -> {"new", "running", "gone"}]
  BY Zenon DEF Shape, TypeOK
<1>5. \A i \in 1 .. Len(EndPoints) : EndPoints[i].ContainerID \in ContainerIDs
  <2>1. \A i \in 1 .. Len(EndPoints) : EndPoints[i] \in EndPoint
    BY DEF Shape, TypeOK
  <2> QED BY <2>1, PoliciesOf
<1>6. \A d \in ContainerIDs : (Containers[d] # {} \/ runtime[d] = "gone") => (Containers'[d] # {} \/ runtime'[d] = "gone")
  BY <1>4 DEF ContainerStart, ContainerDestroy
<1>7. Described'
  BY <1>1, <1>2, <1>5, <1>6 DEF InForce, Described
<1>8. Found'
  BY <1>1, <1>3, Zenon DEF InForce, Described, Found
<1>9. Untorn'
  BY <1>1, <1>2, Zenon DEF Untorn
<1>10. \A id : ~ComingNow(id)
  BY <1>2, Zenon DEF ComingNow, Coming
<1>11. Agreed'
  BY <1>1, <1>10, AgreedSame DEF InForce
<1> QED BY <1>7, <1>8, <1>9, <1>11 DEF InForce

LEMMA InForceRuntimeStep ==
  ASSUME Counting, WellFormed, ~Shadowed, Shape, Roster, InForce, InTurn,
         ContainerLookup \/ ContainerRegister \/ ContainerPush \/ ContainerUnregister
  PROVE  InForce'
<1>1. /\ UNCHANGED <<EndPoints, pod, policy, Containers, runtime>> /\ crt.pc # "idle"
  BY Zenon DEF ContainerLookup, ContainerRegister, ContainerPush, ContainerUnregister, RuntimeStep, cluster
<1>2. pod.pc = "idle" /\ \A t \in Types : policy[t].pc = "idle"
  BY <1>1, AloneFacts, Zenon
<1>3. Described' /\ Untorn'
  BY <1>1, <1>2, Zenon DEF InForce, Described, Untorn
<1>4. /\ \A id : ComingNow(id) <=> crt.pc = "push" /\ crt.id = id
      /\ \A id : ComingNext(id) <=> crt'.pc = "push" /\ crt'.id = id
  BY <1>1, <1>2, Zenon DEF ComingNow, ComingNext, Coming
<1>5. /\ crt \in RuntimeHandler /\ crt.id \in ContainerIDs /\ EndPoints \in Seq(EndPoint)
      /\ Rules \in [ContainerIDs -> SUBSET Policies]
  BY <1>1 DEF Shape, TypeOK, RuntimeRun
<1>6. \A i \in 1 .. Len(EndPoints) : EndPoints[i] \in EndPoint /\ EndPoints[i].ContainerID \in ContainerIDs
  <2>1. \A i \in 1 .. Len(EndPoints) : EndPoints[i] \in EndPoint
    BY <1>5
  <2> QED BY <2>1, PoliciesOf
<1>7. \A i \in 1 .. Len(EndPoints) : ComingNow(EndPoints[i].ContainerID) \/ Agrees(EndPoints[i], ContainerMap, Rules)
  BY DEF InForce, Agreed
<1>8. ASSUME Found', \A i \in 1 .. Len(EndPoints) : ComingNext(EndPoints[i].ContainerID) \/ Agrees(EndPoints[i], ContainerMap', Rules')
      PROVE  InForce'
  <2>1. Agreed'
    BY <1>1, <1>8, AgreedNext
  <2> QED BY <1>3, <1>8, <2>1 DEF InForce
<1>9. CASE ContainerLookup
  <2> DEFINE i == FirstIn(EndPoints, {e \in ToSet(EndPoints) : e.ContainerID = crt.id})
  <2>1. /\ i = 0 => \A j \in 1 .. Len(EndPoints) : EndPoints[j].ContainerID # crt.id
        /\ i # 0 => i \in 1 .. Len(EndPoints) /\ EndPoints[i].ContainerID = crt.id
    <3> DEFINE S == {e \in ToSet(EndPoints) : e.ContainerID = crt.id}
    <3>1. /\ i = 0 <=> ToSet(EndPoints) \cap S = {}
          /\ i # 0 => i \in 1 .. Len(EndPoints) /\ EndPoints[i] \in S
      BY <1>5, FirstFacts, Zenon
    <3>2. \A j \in 1 .. Len(EndPoints) : EndPoints[j] \in ToSet(EndPoints)
      BY <1>5, ToSetFacts
    <3> HIDE DEF i
    <3> QED BY <3>1, <3>2, Zenon
  <2>2. /\ crt.pc = "lookup" /\ UNCHANGED <<ContainerMap, Rules>>
        /\ crt' = [crt EXCEPT !.pc = "register", !.endPoint = IF i = 0 \/ Shadowed THEN NoEndPoint ELSE EndPoints[i]]
    BY <1>9 DEF ContainerLookup, RuntimeStep, enforcer
  <2> HIDE DEF i
  <2>3. crt'.pc = "register" /\ crt'.id = crt.id /\ crt'.endPoint = IF i = 0 THEN NoEndPoint ELSE EndPoints[i]
    BY <1>5, <2>2, Zenon DEF RuntimeHandler
  <2>4. i # 0 => EndPoints[i] # NoEndPoint
    BY <1>6, <2>1, Zenon DEF WellFormed
  <2>5. Found'
    BY <1>1, <2>1, <2>3, <2>4 DEF Found
  <2> QED BY <1>4, <1>7, <1>8, <2>2, <2>5, Zenon
<1>10. CASE ContainerRegister
  <2>1. /\ crt.pc = "register" /\ ContainerMap' = ContainerMap \cup {crt.id} /\ Rules' = [Rules EXCEPT ![crt.id] = {}]
        /\ crt' = IF crt.endPoint = NoEndPoint THEN RuntimeIdle ELSE [crt EXCEPT !.pc = "push"]
    BY <1>10 DEF ContainerRegister, RuntimeStep
  <2>2. Rules'[crt.id] = {} /\ \A id \in ContainerIDs : id # crt.id => Rules'[id] = Rules[id]
    BY <1>5, <2>1
  <2>3. \A i \in 1 .. Len(EndPoints) : EndPoints[i].ContainerID # crt.id => Agrees(EndPoints[i], ContainerMap', Rules')
    BY <1>4, <1>6, <1>7, <2>1, <2>2, Zenon DEF Agrees
  <2>4. CASE crt.endPoint = NoEndPoint
    <3>1. crt'.pc = "idle"
      BY <2>1, <2>4, IdleFacts
    <3>2. \A i \in 1 .. Len(EndPoints) : EndPoints[i].ContainerID # crt.id
      BY <2>1, <2>4 DEF InForce, Found
    <3>3. Found'
      BY <3>1, Zenon DEF Found
    <3> QED BY <1>8, <2>3, <3>2, <3>3
  <2>5. CASE crt.endPoint # NoEndPoint
    <3>1. crt'.pc = "push" /\ crt'.id = crt.id /\ crt'.endPoint = crt.endPoint
      BY <1>5, <2>1, <2>5 DEF RuntimeHandler
    <3>2. Found'
      BY <1>1, <2>1, <2>2, <2>5, <3>1 DEF InForce, Found
    <3> QED BY <1>4, <1>8, <2>3, <3>1, <3>2
  <2> QED BY <2>4, <2>5
<1>11. CASE ContainerPush
  <2> DEFINE e == crt.endPoint
  <2>1. /\ crt.pc = "push" /\ ContainerMap' = ContainerMap /\ crt'.pc = "idle"
        /\ e.SecurityPolicies = <<>> => Rules' = Rules
        /\ e.SecurityPolicies # <<>> => Rules' = IF e.PolicyEnabled = "enabled" THEN Enforced(e) ELSE Rules
    BY <1>11, IdleFacts, Zenon DEF ContainerPush, RuntimeStep
  <2>2. PICK k \in 1 .. Len(EndPoints) : EndPoints[k] = e /\ e.ContainerID = crt.id
    BY <2>1, Zenon DEF InForce, Found
  <2>3. e \in EndPoint /\ crt.id \in ContainerMap /\ Rules[crt.id] = {}
    BY <1>6, <2>1, <2>2, Zenon DEF InForce, Found
  <2> HIDE DEF e
  <2>4. Enforced(e)[crt.id] = ToSet(e.SecurityPolicies) /\ \A id \in ContainerIDs : id # crt.id => Enforced(e)[id] = Rules[id]
    BY <2>2, <2>3, EnforcedFacts
  <2>5. ASSUME NEW i \in 1 .. Len(EndPoints) PROVE Agrees(EndPoints[i], ContainerMap', Rules')
    <3>1. CASE i = k
      <4>1. e.SecurityPolicies = <<>> => ToSet(e.SecurityPolicies) = {}
        BY DEF ToSet
      <4>2. CASE e.SecurityPolicies = <<>>
        BY <2>1, <2>2, <2>3, <3>1, <4>1, <4>2, Zenon DEF Agrees
      <4>3. CASE e.SecurityPolicies # <<>> /\ Enforceable(e)
        BY <2>1, <2>2, <2>4, <3>1, <4>3 DEF Agrees, Enforceable
      <4>4. CASE ~Enforceable(e)
        BY <2>2, <3>1, <4>4, Zenon DEF Agrees
      <4> QED BY <4>2, <4>3, <4>4, Zenon
    <3>2. CASE i # k
      <4>1. EndPoints[i].ContainerID # crt.id
        BY <2>2, <3>2, Zenon DEF Roster, Sound
      <4>2. Rules'[EndPoints[i].ContainerID] = Rules[EndPoints[i].ContainerID]
        BY <1>6, <2>1, <2>4, <4>1, Zenon
      <4>3. Agrees(EndPoints[i], ContainerMap, Rules)
        BY <1>4, <1>7, <4>1, Zenon
      <4> QED BY <2>1, <4>2, <4>3, Zenon DEF Agrees
    <3> QED BY <3>1, <3>2, Zenon
  <2>6. Found'
    BY <2>1 DEF Found
  <2> QED BY <1>8, <2>5, <2>6, Zenon
<1>12. CASE ContainerUnregister
  <2>1. /\ crt.pc = "unregister" /\ ContainerMap' = ContainerMap \ {crt.id} /\ Rules' = [Rules EXCEPT ![crt.id] = {}]
        /\ crt'.pc = "idle"
    BY <1>12, IdleFacts DEF ContainerUnregister, RuntimeStep
  <2>2. \A id \in ContainerIDs : id # crt.id => Rules'[id] = Rules[id]
    BY <1>5, <2>1, Zenon
  <2>3. \A i \in 1 .. Len(EndPoints) : Agrees(EndPoints[i], ContainerMap', Rules')
    BY <1>4, <1>6, <1>7, <2>1, <2>2, Zenon DEF Agrees
  <2>4. Found'
    BY <2>1, Zenon DEF Found
  <2> QED BY <1>8, <2>3, <2>4, Zenon
<1> QED BY <1>9, <1>10, <1>11, <1>12

LEMMA InForceNext ==
  ASSUME Counting, WellFormed, NamesApart, InTurn, PodsSteady, ~Shadowed, Shape, Roster, Lists, InForce, [Next]_vars
  PROVE  InForce'
<1>1. CASE \E p \in PodNames : PodAdded(p) \/ PodModified(p) \/ PodDeleted(p) \/ PodTombstone(p)
  BY <1>1, InForcePodStart
<1>2. CASE PodLookup \/ PodContainers \/ PodPolicies \/ PodPublish \/ PodReplace \/ PodPush \/ PodRemove
  BY <1>2, InForcePodStep
<1>3. CASE \E p \in Policies : PolicyAdded(p) \/ PolicyModified(p) \/ PolicyDeleted(p)
  BY <1>3, InForcePolicyStart
<1>4. CASE \E t \in Types : \/ PolicyLength(t) \/ PolicyCopy(t) \/ PolicyWrite(t) \/ PolicyLog(t)
                            \/ PolicyEnforce(t) \/ PolicyPanic(t)
  BY <1>4, InForcePolicyStep, Zenon
<1>5. ~Restart /\ ~\E p \in Policies : NamespaceListFails(p)
  BY DEF Restart, Roster, Seen, NamespaceListFails, NamesApart
<1>6. CASE \E c \in ContainerIDs : ContainerStart(c) \/ ContainerDestroy(c)
  BY <1>6, InForceRuntimeStart
<1>7. CASE ContainerLookup \/ ContainerRegister \/ ContainerPush \/ ContainerUnregister
  BY <1>7, InForceRuntimeStep
<1>8. CASE UNCHANGED vars
  <2>1. UNCHANGED <<EndPoints, policy, pod, crt, ContainerMap, Rules, Containers, runtime>>
    BY <1>8, Zenon DEF vars, cluster, enforcer, handlers
  <2>2. Described' /\ Found' /\ Untorn'
    BY <2>1, Zenon DEF InForce, Described, Found, Untorn
  <2>3. \A id : ComingNow(id) => ComingNext(id)
    BY <2>1 DEF ComingNow, ComingNext
  <2>4. Agreed'
    BY <2>1, <2>3, AgreedSame DEF InForce
  <2> QED BY <2>2, <2>4 DEF InForce
<1> QED BY <1>1, <1>2, <1>3, <1>4, <1>5, <1>6, <1>7, <1>8 DEF Next
-----------------------------------------------------------------------------
(* When the handlers are done. *)

LEMMA ListsInit == Init => Lists
<1> SUFFICES ASSUME Init PROVE Lists
  OBVIOUS
<1>1. pod.pc = "idle" /\ \A t \in Types : policy[t].pc = "idle"
  BY IdleFacts DEF Init
<1>2. \A i \in 1 .. Len(EndPoints) : FALSE
  BY DEF Init
<1> QED BY <1>1, <1>2, Zenon DEF Lists, HandlerRight, PodRight

LEMMA InForceInit == Init => InForce
<1> SUFFICES ASSUME Init PROVE InForce
  OBVIOUS
<1>1. pod.pc = "idle" /\ crt.pc = "idle" /\ \A t \in Types : policy[t].pc = "idle"
  BY IdleFacts, Zenon DEF Init
<1>2. \A i \in 1 .. Len(EndPoints) : FALSE
  BY DEF Init
<1> QED BY <1>1, <1>2, Zenon DEF InForce, Agreed, Described, Found, Untorn

\* What an endpoint of a pod that is live is made of, and how many there are of a container.
LEMMA LiveEndPoint ==
  ASSUME WellFormed, PodsSteady, Shape, Roster, Quiet, NEW p \in LivePods, NEW id \in Reported(p)
  PROVE  \E i \in 1 .. Len(EndPoints) :
           /\ EndPoints[i].ContainerID = id /\ EndPoints[i].EndPointName = p /\ Made(EndPoints[i], Version(p))
           /\ \A j \in 1 .. Len(EndPoints) : EndPoints[j].ContainerID = id => j = i
<1>1. \A h \in Handlers : ~Running(h)
  BY DEF Running, Quiet, Busy, Handlers, Types
<1>2. pod.pc = "idle"
  BY <1>1, Zenon DEF Running, Handlers
<1>3. p \in PodNames /\ podCache[p] \in DOMAIN PodHistory[p] /\ Have(EndPoints, p)
  BY <1>2, Zenon DEF LivePods, Roster, Seen, Covered, Publishing
<1>4. id \in Owned(p) /\ id \in DOMAIN Version(p).containers
  BY <1>3, Zenon DEF Owned, Reported, Version
<1>5. PICK i \in 1 .. Len(EndPoints) : EndPoints[i].ContainerID = id /\ EndPoints[i].EndPointName = p
  BY <1>3, <1>4, Zenon DEF Roster, Sound
<1> DEFINE e == EndPoints[i]
           v == Version(p)
<1>6. PICK k \in DOMAIN PodHistory[p] : Made(e, PodHistory[p][k])
  BY <1>5 DEF Roster, Sound, Fits
<1> DEFINE w == PodHistory[p][k]
<1>7. /\ IdentitiesOf(p, v) = IdentitiesOf(p, w) /\ PolicyEnabled(p, v) = PolicyEnabled(p, w)
      /\ id \in DOMAIN w.containers => v.containers[id] = w.containers[id]
  BY <1>3, <1>4, VersionFacts, Zenon DEF Version
<1> HIDE DEF e, v, w
<1>8. Made(e, w) /\ e.ContainerID = id /\ e.EndPointName = p /\ id \in DOMAIN v.containers
  BY <1>4, <1>5, <1>6, Zenon DEF e, v, w
<1>9. Made(e, v)
  BY <1>7, <1>8, Zenon DEF Made
<1>10. \A j \in 1 .. Len(EndPoints) : EndPoints[j].ContainerID = id => j = i
  BY <1>5, Zenon DEF Roster, Sound
<1> QED BY <1>5, <1>9, <1>10, Zenon DEF e, v

LEMMA MadeWanted ==
  ASSUME NEW p, NEW id, NEW e, Made(e, Version(p)), e.EndPointName = p, e.ContainerID = id
  PROVE  Wanted(e, policyCache) = Expected(p, id)
BY DEF Made, Wanted, Expected, Selects

LEMMA TurnAlways ==
  ASSUME Counting, WellFormed, NamesApart, InTurn, PodsSteady, PoliciesSteady
  PROVE  Spec => [](Shape /\ Roster /\ Lists)
<1>1. Spec => [](Shape /\ Stores(SecurityPolicies, policyCache))
  BY StoresAlways
<1>2. Init => Roster /\ Lists
  BY RosterInit, ListsInit
<1>3. Shape /\ Stores(SecurityPolicies, policyCache) /\ Roster /\ Lists /\ [Next]_vars => Roster' /\ Lists'
  BY RosterNext, ListsNext
<1> QED BY <1>1, <1>2, <1>3, PTL DEF Spec
-----------------------------------------------------------------------------
(* What the lemmas use of numbers and of finite sets. *)

INSTANCE FiniteSetTheorems

LEMMA LeastNumber ==
  ASSUME NEW T \in SUBSET Nat, T # {}
  PROVE  \E n \in T : \A m \in T : n <= m
<1> DEFINE R == {ss \in Nat \X Nat : ss[1] < ss[2]}
<1>1. OpToRel(<, Nat) = R
  BY Zenon DEF OpToRel
<1>2. IsWellFoundedOn(R, Nat)
  BY <1>1, NatLessThanWellFounded, Zenon
<1>3. PICK n \in T : \A m \in T : ~(<<m, n>> \in R)
  <2> HIDE DEF R
  <2> QED BY <1>2, WFMin, Zenon
<1>4. \A m \in T : ~(m < n)
  <2> SUFFICES ASSUME NEW m \in T, m < n PROVE FALSE
    OBVIOUS
  <2>1. <<m, n>> \in Nat \X Nat /\ <<m, n>>[1] = m /\ <<m, n>>[2] = n
    OBVIOUS
  <2>2. <<m, n>> \in R
    BY <2>1, Zenon
  <2> QED BY <1>3, <2>2
<1> QED BY <1>4

LEMMA OrderedSet ==
  ASSUME NEW S, IsFiniteSet(S), NEW ids \in Orders(S)
  PROVE  Cardinality(S) \in Nat /\ \A i, j \in 1 .. Cardinality(S) : ids[i] = ids[j] => i = j
<1> DEFINE n == Cardinality(S)
<1>1. n \in Nat
  BY FS_CardinalityType
<1>2. ids \in [1 .. n -> S] /\ \A x \in S : \E i \in DOMAIN ids : ids[i] = x
  BY DEF Orders
<1> HIDE DEF n
<1>3. IsFiniteSet(1 .. n) /\ Cardinality(1 .. n) = n
  BY <1>1, FS_Interval
<1>4. ids \in Surjection(1 .. n, S)
  BY <1>2, Zenon DEF Surjection
<1>5. ids \in Injection(1 .. n, S)
  BY <1>3, <1>4, FS_SurjSameCardinalityImpliesInj DEF n
<1> QED BY <1>1, <1>5 DEF Injection, IsInjective, n

LEMMA CountingHolds == Counting
<1>1. ASSUME NEW T \in SUBSET Nat, T # {} PROVE \E n \in T : \A m \in T : n <= m
  BY <1>1, LeastNumber
<1>2. ASSUME NEW S, IsFiniteSet(S)
      PROVE  /\ Cardinality(S) \in Nat
             /\ \A ids \in Orders(S) : \A i, j \in 1 .. Cardinality(S) : ids[i] = ids[j] => i = j
  BY <1>2, OrderedSet, FS_CardinalityType
<1> QED BY <1>1, <1>2, Zenon DEF Counting
-----------------------------------------------------------------------------
(* The theorems. *)

\* However the handlers overlap, and across panics and restarts, dm.SecurityPolicies never
\* holds two versions of a policy, although a cluster policy may take the place of a policy
\* of a namespace that has its name (WatchSecurityPolicies, WatchClusterSecurityPolicies).
THEOREM StoredOnce ==
  ASSUME WellFormed, KindsApart
  PROVE  Spec => []OneVersionEach
<1>1. ASSUME Shape, Ordered(SecurityPolicies) PROVE OneVersionEach
  <2>0. /\ DOMAIN SecurityPolicies = 1 .. Len(SecurityPolicies) /\ Len(SecurityPolicies) \in Nat
        /\ \A i \in DOMAIN SecurityPolicies : SecurityPolicies[i] \in Policies
    BY <1>1, ToSetFacts DEF Shape, TypeOK
  <2>1. ASSUME NEW i \in DOMAIN SecurityPolicies, NEW j \in DOMAIN SecurityPolicies, i < j
        PROVE  LET a == SecurityPolicies[i]
                   b == SecurityPolicies[j]
               IN  ~(a.type = b.type /\ (SamePolicy(a, b) \/ SamePolicy(b, a)))
    <3> DEFINE a == SecurityPolicies[i]
               b == SecurityPolicies[j]
    <3>1. a.type \in Types /\ b.type \in Types /\ ~Clash(a, b)
      BY <1>1, <2>0, <2>1, Zenon DEF WellFormed, Ordered
    <3> HIDE DEF a, b
    <3>2. ~(a.type = b.type /\ (SamePolicy(a, b) \/ SamePolicy(b, a)))
      BY <3>1, Zenon DEF Clash, SamePolicy, Types
    <3> QED BY <3>2, Zenon DEF a, b
  <2>2. \A i, j \in DOMAIN SecurityPolicies : i # j => i < j \/ j < i
    BY <2>0
  <2> QED BY <2>1, <2>2 DEF OneVersionEach
<1> QED BY <1>1, OrderedAlways, CountingHolds, PTL

\* However the handlers overlap, as long as no name is used both for a KubeArmorPolicy and
\* for a cluster policy and no call fails, dm.SecurityPolicies is what the API server
\* delivered and did not delete since.
THEOREM StoreAgrees ==
  ASSUME WellFormed, NamesApart
  PROVE  Spec => []StoreInSync
<1>1. ASSUME Shape, Stores(SecurityPolicies, policyCache) PROVE StoreInSync
  <2> DEFINE s == SecurityPolicies
  <2>1. s \in Seq(Policies) /\ Len(s) \in Nat /\ DOMAIN s = 1 .. Len(s)
    BY <1>1, ToSetFacts, Zenon DEF Shape, TypeOK
  <2>2. ToSet(s) = policyCache /\ \A i, j \in 1 .. Len(s) : s[i] = s[j] => i = j
    BY <1>1 DEF Stores, SamePolicy
  <2> HIDE DEF s
  <2>3. s \in [1 .. Len(s) -> ToSet(s)] /\ \A x \in ToSet(s) : \E i \in 1 .. Len(s) : s[i] = x
    BY <2>1, ToSetFacts
  <2>4. s \in Bijection(1 .. Len(s), ToSet(s))
    BY <2>2, <2>3 DEF Bijection, Injection, Surjection, IsInjective
  <2>5. IsFiniteSet(1 .. Len(s)) /\ Cardinality(1 .. Len(s)) = Len(s)
    BY <2>1, FS_Interval
  <2>6. ExistsBijection(1 .. Len(s), ToSet(s))
    BY <2>4 DEF ExistsBijection
  <2>7. Cardinality(ToSet(s)) = Len(s)
    BY <2>5, <2>6, FS_Bijection
  <2> QED BY <2>2, <2>7, Zenon DEF StoreInSync, s
<1> QED BY <1>1, StoresAlways, CountingHolds, PTL

\* However the handlers overlap, as long as no pod is deleted while a policy is applied, no
\* container runs under a KubeArmorPolicy of a namespace other than its pod's, although
\* UpdateSecurityPolicy reads dm.EndPoints[idx] again without a lock and may combine the
\* container of one version of the endpoint with the policies of a later one.
THEOREM NamespacesKeptApart ==
  ASSUME WellFormed, Namespaced, PodsStay
  PROVE  Spec => []RulesConfined
<1>1. Confinement => RulesConfined
  BY DEF Confinement, RulesIn, RulesConfined, InPlace
<1> QED BY <1>1, ConfinedAlways, CountingHolds, PTL

\* For any pods, containers and policies: when the handlers run in turn, every event is seen,
\* pods and policies keep what PodsSteady and PoliciesSteady say, and no policy name is used
\* twice, every container a delivered pod reports has one endpoint once the handlers are
\* done, with exactly the delivered policies that select it (UpdateEndPointWithPod,
\* UpdateSecurityPolicy).
THEOREM EndPointsAgree ==
  ASSUME WellFormed, NamesApart, InTurn, PodsSteady, PoliciesSteady
  PROVE  Spec => []EndPointsInSync
<1>1. ASSUME Shape, Roster, Lists PROVE EndPointsInSync
  <2> SUFFICES ASSUME Quiet
               PROVE  /\ \A i \in DOMAIN EndPoints : EndPoints[i].EndPointName \in LivePods
                      /\ \A p \in LivePods : \A id \in Reported(p) :
                           LET mine == {i \in DOMAIN EndPoints : EndPoints[i].ContainerID = id}
                           IN  /\ Cardinality(mine) = 1
                               /\ \A i \in mine : ToSet(EndPoints[i].SecurityPolicies) = Expected(p, id)
    BY DEF EndPointsInSync
  <2>1. \A h \in Handlers : ~Running(h)
    BY Zenon DEF Running, Quiet, Busy, Handlers, Types
  <2>2. pod.pc = "idle" /\ \A t \in Types : policy[t].pc = "idle"
    BY <2>1, Zenon DEF Running, Handlers
  <2>3. DOMAIN EndPoints = 1 .. Len(EndPoints)
    BY <1>1 DEF Shape, TypeOK
  <2>4. \A i \in DOMAIN EndPoints : EndPoints[i].EndPointName \in LivePods
    BY <1>1, <2>2, <2>3, Zenon DEF Roster, Current
  <2>5. ASSUME NEW p \in LivePods, NEW id \in Reported(p)
        PROVE  LET mine == {i \in DOMAIN EndPoints : EndPoints[i].ContainerID = id}
               IN  /\ Cardinality(mine) = 1
                   /\ \A i \in mine : ToSet(EndPoints[i].SecurityPolicies) = Expected(p, id)
    <3>1. PICK i \in 1 .. Len(EndPoints) :
            /\ EndPoints[i].ContainerID = id /\ EndPoints[i].EndPointName = p /\ Made(EndPoints[i], Version(p))
            /\ \A j \in 1 .. Len(EndPoints) : EndPoints[j].ContainerID = id => j = i
      BY <1>1, <2>5, LiveEndPoint
    <3>2. {j \in DOMAIN EndPoints : EndPoints[j].ContainerID = id} = {i}
      BY <2>3, <3>1
    <3>3. Cardinality({i}) = 1
      BY FS_Singleton, Zenon
    <3>4. Right(EndPoints[i], policyCache)
      BY <1>1, <2>2, SlotIdle, Zenon DEF Lists
    <3>5. ToSet(EndPoints[i].SecurityPolicies) = Expected(p, id)
      BY <3>1, <3>4, MadeWanted, Zenon DEF Right, Stores
    <3> QED BY <3>2, <3>3, <3>5, Zenon
  <2> QED BY <2>4, <2>5, Zenon
<1>2. Spec => [](Shape /\ Roster /\ Lists)
  BY TurnAlways, CountingHolds
<1> QED BY <1>1, <1>2, PTL

\* Under the same conditions, and a runtime handler that keeps the endpoint it finds (CRI-O,
\* NRI), the rules in force on a container once the handlers are done are those of the
\* policies that select it, whichever of pod, policy and container was seen first.
THEOREM RulesAgree ==
  ASSUME WellFormed, NamesApart, InTurn, PodsSteady, PoliciesSteady, ~Shadowed
  PROVE  Spec => []RulesInSync
<1>1. ASSUME Shape, Roster, Lists, InForce PROVE RulesInSync
  <2> SUFFICES ASSUME Quiet, NEW p \in LivePods, NEW id \in Reported(p) \cap ContainerMap,
                      PolicyEnabled(p, Version(p)) = "enabled", NamespaceOf[p] \notin UntrackedNamespaces
               PROVE  Rules[id] = Expected(p, id)
    BY Zenon DEF RulesInSync
  <2>1. \A h \in Handlers : ~Running(h)
    BY Zenon DEF Running, Quiet, Busy, Handlers, Types
  <2>2. pod.pc = "idle" /\ crt.pc = "idle" /\ \A t \in Types : policy[t].pc = "idle"
    BY <2>1, Zenon DEF Running, Handlers
  <2>3. PICK i \in 1 .. Len(EndPoints) :
          EndPoints[i].ContainerID = id /\ EndPoints[i].EndPointName = p /\ Made(EndPoints[i], Version(p))
    BY <1>1, LiveEndPoint, Zenon
  <2>4. Enforceable(EndPoints[i])
    BY <2>3, Zenon DEF Enforceable, Made
  <2>5. ~ComingNow(id)
    BY <2>2, Zenon DEF ComingNow, Coming
  <2>6. Rules[id] = ToSet(EndPoints[i].SecurityPolicies)
    BY <1>1, <2>3, <2>4, <2>5 DEF InForce, Agreed, Agrees
  <2>7. Right(EndPoints[i], policyCache)
    BY <1>1, <2>2, SlotIdle, Zenon DEF Lists
  <2>8. ToSet(EndPoints[i].SecurityPolicies) = Wanted(EndPoints[i], policyCache)
    BY <2>7, Zenon DEF Right, Stores
  <2>9. Wanted(EndPoints[i], policyCache) = Expected(p, id)
    BY <2>3, MadeWanted, Zenon
  <2> QED BY <2>6, <2>8, <2>9, Zenon
<1>2. Shape /\ Roster /\ Lists /\ InForce /\ [Next]_vars => InForce'
  BY InForceNext, CountingHolds
<1>3. Spec => [](Shape /\ Roster /\ Lists)
  BY TurnAlways, CountingHolds
<1> QED BY <1>1, <1>2, <1>3, InForceInit, PTL DEF Spec
=============================================================================
