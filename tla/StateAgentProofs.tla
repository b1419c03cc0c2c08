--------------------------- MODULE StateAgentProofs --------------------------
(***************************************************************************)
(* Proofs about the state agent, for any containers, namespaces, clients   *)
(* and sizes of channels: the counts of the namespaces are right, and a    *)
(* client that loses nothing knows the namespaces.                         *)
(*                                                                         *)
(* Both properties are about moments at which no push holds the lock.  The *)
(* invariants say what is true in between: which push may hold the lock    *)
(* and with which count (LockInv), how far the range of that push has got  *)
(* (Ranges), and what a client knows that it has told already, or will     *)
(* tell, or that came too late for its range (Informed).                   *)
(***************************************************************************)
EXTENDS StateAgent, TLAPS, FiniteSetTheorems

Events ==
    [kind : {"namespace"}, name : Names, type : Types]
        \cup [kind : {"container"}, name : Conts, type : Types]

Progress ==
    [pc : {"none", "begin", "namespace", "container"}, left : SUBSET Watchers, done : SUBSET Watchers,
     to : Watchers \cup {None, Closed}]

Shape ==
    /\ env.overtaking \in BOOLEAN
    /\ live \in [Conts -> {"unborn", "running", "waiting", "gone"}]
    /\ spaces \in [DOMAIN spaces -> Nat] /\ DOMAIN spaces \subseteq Names
    /\ lock \in Pushes \cup {None}
    /\ pushes \in [Pushes -> Progress]
    /\ chans \subseteq Watchers
    /\ buffer \in [Watchers -> Seq(Events)]
    /\ told \in [Watchers -> [Names -> Types \cup {"nothing"}]]
    /\ snap \in [Watchers -> (SUBSET Names) \cup {None}]
    /\ missed \in [Watchers -> BOOLEAN]
    /\ \A w \in Watchers : Len(buffer[w]) <= BufferSize

\* The range of a push is over clients that are entered; the client it is about to send
\* to is among those it has visited.
Ranges ==
    \A p \in Pushes :
        /\ pushes[p].left \subseteq chans /\ pushes[p].done \subseteq chans
        /\ pushes[p].left \cap pushes[p].done = {}
        /\ pushes[p].to \in pushes[p].done \cup {None, Closed}
        /\ pushes[p].to # None => pushes[p].pc \in {"namespace", "container"}

\* The lock is held by the push that tells a namespace's event: of a new namespace, or of
\* one whose count has come to zero.  No other namespace is empty.
LockInv ==
    /\ \A p \in Pushes : pushes[p].pc = "namespace" <=> lock = p
    /\ lock # None => /\ NsOf[lock[1]] \in DOMAIN spaces /\ lock[2] \in {"added", "deleted"}
                      /\ spaces[NsOf[lock[1]]] = 0 <=> lock[2] = "deleted"
    /\ \A n \in DOMAIN spaces : spaces[n] = 0 => lock # None /\ NsOf[lock[1]] = n

\* Only the push for the last event of a container is in progress.
After == [added |-> "running", updated |-> "waiting", deleted |-> "gone"]
InTurn == \A k \in Conts, e \in Types : pushes[<<k, e>>].pc # "none" => live[k] = After[e]

Counts ==
    \A n \in Names : IF n \in DOMAIN spaces THEN spaces[n] = Cardinality(Present(n)) ELSE Present(n) = {}

\* What client w knows of namespace n agrees with its being there or not.
Agrees(w, n, there) ==
    \/ Latest(buffer[w], told[w], n, "added") /\ there
    \/ Latest(buffer[w], told[w], n, "deleted") /\ ~there
    \/ Latest(buffer[w], told[w], n, "nothing") /\ (snap[w] # None => (n \in snap[w] <=> there))

\* What client w knows of the namespace whose event push p is telling: the event once it is
\* told, what was right before until then, and nothing if it came too late.
KnowsOfPush(w, p) ==
    LET n == NsOf[p[1]]
    IN  IF w \in pushes[p].done /\ pushes[p].to # w THEN Latest(buffer[w], told[w], n, p[2])
        ELSE IF w \in pushes[p].left \cup pushes[p].done THEN Agrees(w, n, p[2] = "deleted")
        ELSE Latest(buffer[w], told[w], n, "nothing") /\ snap[w] = None

Informed ==
    \A w \in chans : ~missed[w] =>
        \A n \in Names : IF lock # None /\ n = NsOf[lock[1]] THEN KnowsOfPush(w, lock)
                         ELSE Agrees(w, n, n \in DOMAIN spaces)

IInv ==
    /\ Shape /\ Ranges /\ LockInv /\ Informed
    /\ ~env.overtaking => InTurn /\ Counts
------------------------------------------------------------------------------
\* What the operations on a channel do to the last word on a namespace.

\* There is one last word.
LEMMA LatestUnique ==
    ASSUME NEW b \in Seq(Events), NEW t, NEW n, NEW v1, NEW v2,
           Latest(b, t, n, v1), Latest(b, t, n, v2)
    PROVE  v1 = v2
<1>1. CASE About(b, n) = {}
  BY <1>1 DEF Latest
<1>2. CASE About(b, n) # {}
  <2>1. PICK i \in About(b, n) : b[i].type = v1 /\ \A j \in About(b, n) : j <= i
    BY <1>2 DEF Latest
  <2>2. PICK k \in About(b, n) : b[k].type = v2 /\ \A j \in About(b, n) : j <= k
    BY <1>2 DEF Latest
  <2>3. i \in Int /\ k \in Int
    BY DEF About
  <2> QED BY <2>1, <2>2, <2>3
<1> QED BY <1>1, <1>2

LEMMA LatestAppend ==
    ASSUME NEW b \in Seq(Events), NEW e \in Events, NEW t, NEW n, NEW v
    PROVE  /\ Append(b, e) \in Seq(Events) /\ Len(Append(b, e)) = Len(b) + 1
           /\ e.kind = "namespace" /\ e.name = n => (Latest(Append(b, e), t, n, v) <=> v = e.type)
           /\ ~(e.kind = "namespace" /\ e.name = n) =>
                (Latest(Append(b, e), t, n, v) <=> Latest(b, t, n, v))
<1> DEFINE c == Append(b, e)
<1>1. /\ c \in Seq(Events) /\ Len(c) = Len(b) + 1 /\ DOMAIN c = 1 .. Len(b) + 1
      /\ DOMAIN b = 1 .. Len(b) /\ Len(b) \in Nat
      /\ \A i \in 1 .. Len(b) : c[i] = b[i]
      /\ c[Len(b) + 1] = e
  OBVIOUS
<1>2. CASE e.kind = "namespace" /\ e.name = n
  <2>1. Len(b) + 1 \in About(c, n) /\ \A j \in About(c, n) : j \in 1 .. Len(b) + 1
    BY <1>1, <1>2 DEF About
  <2>2. \A i \in About(c, n) : (\A j \in About(c, n) : j <= i) <=> i = Len(b) + 1
    BY <1>1, <2>1
  <2>3. Latest(c, t, n, v) <=> v = e.type
    BY <1>1, <2>1, <2>2 DEF Latest
  <2> QED BY <1>1, <1>2, <2>3
<1>3. CASE ~(e.kind = "namespace" /\ e.name = n)
  <2>1. About(c, n) = About(b, n)
    BY <1>1, <1>3 DEF About
  <2>2. \A i \in About(b, n) : c[i] = b[i]
    BY <1>1 DEF About
  <2>3. Latest(c, t, n, v) <=> Latest(b, t, n, v)
    BY <2>1, <2>2 DEF Latest
  <2> QED BY <1>1, <1>3, <2>3
<1> QED BY <1>2, <1>3

\* The told event of a client that is sent e.
AfterTold(t, e) == IF e.kind = "namespace" THEN [t EXCEPT ![e.name] = e.type] ELSE t

LEMMA LatestTail ==
    ASSUME NEW b \in Seq(Events), b # <<>>, NEW t \in [Names -> Types \cup {"nothing"}],
           NEW n \in Names, NEW v
    PROVE  /\ Tail(b) \in Seq(Events) /\ Len(Tail(b)) = Len(b) - 1 /\ Head(b) \in Events
           /\ AfterTold(t, Head(b)) \in [Names -> Types \cup {"nothing"}]
           /\ Latest(Tail(b), AfterTold(t, Head(b)), n, v) <=> Latest(b, t, n, v)
<1> DEFINE c == Tail(b)
<1>1. /\ c \in Seq(Events) /\ Len(c) = Len(b) - 1 /\ Len(b) \in Nat \ {0}
      /\ DOMAIN c = 1 .. Len(b) - 1 /\ DOMAIN b = 1 .. Len(b)
      /\ Head(b) = b[1] /\ b[1] \in Events
      /\ \A i \in 1 .. Len(b) - 1 : c[i] = b[i + 1]
  OBVIOUS
<1>2. AfterTold(t, Head(b)) \in [Names -> Types \cup {"nothing"}]
  BY <1>1 DEF AfterTold, Events
<1>3. \A i \in 1 .. Len(b) - 1 : i \in About(c, n) <=> i + 1 \in About(b, n)
  BY <1>1 DEF About
<1>4. About(c, n) \subseteq 1 .. Len(b) - 1 /\ About(b, n) \subseteq 1 .. Len(b)
  BY <1>1 DEF About
<1>5. CASE 1 \notin About(b, n)
  <2>1. AfterTold(t, Head(b))[n] = t[n]
    BY <1>1, <1>5 DEF AfterTold, About, Events
  <2>2. About(c, n) = {} <=> About(b, n) = {}
    <3>1. ASSUME NEW i \in About(b, n) PROVE i - 1 \in About(c, n)
      BY <1>1, <1>3, <1>4, <1>5
    <3> QED BY <1>3, <1>4, <3>1
  <2>3. ASSUME NEW i \in About(c, n)
        PROVE  (\A j \in About(c, n) : j <= i) <=> (\A j \in About(b, n) : j <= i + 1)
    <3>1. ASSUME \A j \in About(c, n) : j <= i, NEW j \in About(b, n) PROVE j <= i + 1
      <4>1. j - 1 \in About(c, n)
        BY <1>1, <1>3, <1>4, <1>5
      <4> QED BY <1>1, <1>4, <2>3, <3>1, <4>1
    <3>2. ASSUME \A j \in About(b, n) : j <= i + 1, NEW j \in About(c, n) PROVE j <= i
      <4>1. j + 1 \in About(b, n)
        BY <1>3, <1>4
      <4> QED BY <1>1, <1>4, <2>3, <3>2, <4>1
    <3> QED BY <3>1, <3>2
  <2>4. ASSUME NEW i \in About(c, n) PROVE i + 1 \in About(b, n) /\ c[i] = b[i + 1]
    BY <1>1, <1>3, <1>4
  <2>5. ASSUME NEW i \in About(b, n) PROVE i - 1 \in About(c, n) /\ (i - 1) + 1 = i
    BY <1>1, <1>3, <1>4, <1>5
  <2>6. Latest(c, AfterTold(t, Head(b)), n, v) => Latest(b, t, n, v)
    BY <2>1, <2>2, <2>3, <2>4 DEF Latest
  <2>7. Latest(b, t, n, v) => Latest(c, AfterTold(t, Head(b)), n, v)
    <3>1. ASSUME NEW i \in About(b, n), b[i].type = v, \A j \in About(b, n) : j <= i
          PROVE  \E m \in About(c, n) : c[m].type = v /\ \A j \in About(c, n) : j <= m
      <4>1. i - 1 \in About(c, n) /\ (i - 1) + 1 = i
        BY <2>5
      <4>2. c[i - 1].type = v /\ \A j \in About(c, n) : j <= i - 1
        BY <2>3, <2>4, <3>1, <4>1
      <4> QED BY <4>1, <4>2
    <3> QED BY <2>1, <2>2, <3>1 DEF Latest
  <2> QED BY <1>1, <1>2, <2>6, <2>7
<1>6. CASE 1 \in About(b, n)
  <2>1. AfterTold(t, Head(b))[n] = b[1].type
    BY <1>1, <1>6 DEF AfterTold, About, Events
  <2>2. CASE About(c, n) = {}
    <3>1. About(b, n) = {1}
      <4>1. ASSUME NEW i \in About(b, n), i # 1 PROVE FALSE
        <5>1. i - 1 \in 1 .. Len(b) - 1 /\ (i - 1) + 1 = i
          BY <1>1, <1>4, <4>1
        <5> QED BY <1>3, <2>2, <5>1
      <4> QED BY <1>6, <4>1
    <3> QED BY <1>1, <1>2, <2>1, <2>2, <3>1 DEF Latest
  <2>3. CASE About(c, n) # {}
    <3>1. ASSUME NEW i \in About(c, n)
          PROVE  /\ i + 1 \in About(b, n) /\ c[i] = b[i + 1]
                 /\ (\A j \in About(c, n) : j <= i) <=> (\A j \in About(b, n) : j <= i + 1)
      <4>1. i + 1 \in About(b, n) /\ c[i] = b[i + 1] /\ i \in Nat
        BY <1>1, <1>3, <1>4
      <4>2. ASSUME \A j \in About(c, n) : j <= i, NEW j \in About(b, n) PROVE j <= i + 1
        <5>1. CASE j = 1
          BY <4>1, <5>1
        <5>2. CASE j # 1
          <6>1. j - 1 \in About(c, n)
            <7>1. j - 1 \in 1 .. Len(b) - 1 /\ (j - 1) + 1 = j
              BY <1>1, <1>4, <5>2
            <7> QED BY <1>3, <7>1
          <6> QED BY <1>1, <1>4, <4>1, <4>2, <6>1
        <5> QED BY <5>1, <5>2
      <4>3. ASSUME \A j \in About(b, n) : j <= i + 1, NEW j \in About(c, n) PROVE j <= i
        <5>1. j + 1 \in About(b, n) /\ j \in Nat
          BY <1>1, <1>3, <1>4
        <5> QED BY <4>1, <4>3, <5>1
      <4> QED BY <4>1, <4>2, <4>3
    <3>2. About(b, n) # {}
      BY <1>6
    <3>3. Latest(c, AfterTold(t, Head(b)), n, v) => Latest(b, t, n, v)
      BY <2>3, <3>1, <3>2 DEF Latest
    <3>4. ASSUME NEW i \in About(b, n), b[i].type = v, \A j \in About(b, n) : j <= i
          PROVE  \E m \in About(c, n) : c[m].type = v /\ \A j \in About(c, n) : j <= m
      <4>1. PICK m \in About(c, n) : TRUE
        BY <2>3
      <4>2. m + 1 \in About(b, n) /\ m \in Nat /\ m # 0
        BY <1>1, <1>4, <3>1, <4>1
      <4>3. i \in Nat /\ i # 1 /\ m + 1 <= i
        BY <1>1, <1>4, <3>4, <4>2
      <4>4. i - 1 \in 1 .. Len(b) - 1 /\ (i - 1) + 1 = i
        BY <1>1, <1>4, <4>3
      <4>5. i - 1 \in About(c, n)
        BY <1>3, <4>4
      <4> WITNESS i - 1 \in About(c, n)
      <4> QED BY <3>1, <3>4, <4>4, <4>5
    <3>5. Latest(b, t, n, v) => Latest(c, AfterTold(t, Head(b)), n, v)
      BY <2>3, <3>2, <3>4 DEF Latest
    <3> QED BY <1>1, <1>2, <3>3, <3>5
  <2> QED BY <2>2, <2>3
<1> QED BY <1>5, <1>6
------------------------------------------------------------------------------
\* What steps leave alone.

LEMMA AgreesFrame ==
    ASSUME NEW w \in Watchers, NEW n, NEW there,
           buffer'[w] = buffer[w], told'[w] = told[w], snap'[w] = snap[w]
    PROVE  /\ \A v : Latest(buffer[w], told[w], n, v)' <=> Latest(buffer[w], told[w], n, v)
           /\ Agrees(w, n, there)' <=> Agrees(w, n, there)
  BY DEF Agrees, Latest, About

\* A step that changes neither what clients know nor the namespaces.
LEMMA InformedFrame ==
    ASSUME Shape, Informed, lock' = lock, DOMAIN spaces' = DOMAIN spaces,
           UNCHANGED <<buffer, told, snap>>, chans' \subseteq chans,
           \A w \in chans' : missed[w] => missed'[w],
           lock # None => pushes'[lock] = pushes[lock]
    PROVE  Informed'
<1> SUFFICES ASSUME NEW w \in chans', ~missed'[w], NEW n \in Names
             PROVE  IF lock # None /\ n = NsOf[lock[1]] THEN KnowsOfPush(w, lock)'
                    ELSE Agrees(w, n, n \in DOMAIN spaces)'
  BY DEF Informed
<1>1. w \in chans /\ w \in Watchers /\ ~missed[w]
  BY DEF Shape
<1>2. CASE lock # None /\ n = NsOf[lock[1]]
  <2>1. KnowsOfPush(w, lock)
    BY <1>1, <1>2 DEF Informed
  <2>2. (\A v : Latest(buffer[w], told[w], n, v)' <=> Latest(buffer[w], told[w], n, v))
        /\ (Agrees(w, n, lock[2] = "deleted")' <=> Agrees(w, n, lock[2] = "deleted"))
    BY <1>1, AgreesFrame
  <2> QED BY <1>2, <2>1, <2>2 DEF KnowsOfPush
<1>3. CASE ~(lock # None /\ n = NsOf[lock[1]])
  <2>1. Agrees(w, n, n \in DOMAIN spaces)
    BY <1>1, <1>3 DEF Informed
  <2>2. Agrees(w, n, n \in DOMAIN spaces)' <=> Agrees(w, n, n \in DOMAIN spaces)
    BY <1>1, AgreesFrame DEF Agrees
  <2> QED BY <1>3, <2>1, <2>2
<1> QED BY <1>2, <1>3

\* A step of one push that leaves the counts and the lock alone.
LEMMA CountsFrame ==
    ASSUME Shape, InTurn, Counts, UNCHANGED <<live, spaces>>,
           \A q \in Pushes : /\ pushes'[q].pc = "begin" <=> pushes[q].pc = "begin"
                             /\ pushes'[q].pc # "none" => pushes[q].pc # "none"
    PROVE  InTurn' /\ Counts'
<1>1. \A k \in Conts, e \in Types : <<k, e>> \in Pushes
  BY DEF Pushes
<1>2. InTurn'
  BY <1>1 DEF InTurn
<1>3. \A n : Present(n)' = Present(n)
  BY <1>1 DEF Present, Types
<1> QED BY <1>2, <1>3 DEF Counts
------------------------------------------------------------------------------
\* The steps.

LEMMA InitInv == Init => IInv
<1> SUFFICES ASSUME Init PROVE IInv
  OBVIOUS
<1>1. Shape
  <2>1. spaces \in [DOMAIN spaces -> Nat] /\ DOMAIN spaces \subseteq Names
    BY DEF Init
  <2>2. Idle \in Progress
    BY DEF Idle, Progress
  <2>3. buffer \in [Watchers -> Seq(Events)] /\ \A w \in Watchers : Len(buffer[w]) <= BufferSize
    BY StateAssumption DEF Init
  <2>4. pushes \in [Pushes -> Progress]
    BY <2>2 DEF Init
  <2>5. told \in [Watchers -> [Names -> Types \cup {"nothing"}]]
    BY DEF Init
  <2>6. env.overtaking \in BOOLEAN
    BY StateAssumption DEF Init
  <2>7. /\ live \in [Conts -> {"unborn", "running", "waiting", "gone"}]
        /\ lock \in Pushes \cup {None} /\ chans \subseteq Watchers
        /\ snap \in [Watchers -> (SUBSET Names) \cup {None}]
    BY DEF Init
  <2>8. missed \in [Watchers -> BOOLEAN]
    BY DEF Init
  <2> QED BY <2>1, <2>3, <2>4, <2>5, <2>6, <2>7, <2>8 DEF Shape
<1>2. Ranges /\ LockInv
  BY StateAssumption DEF Init, Ranges, LockInv, Idle
<1>3. Informed
  BY DEF Init, Informed
<1>4. InTurn
  BY DEF Init, Idle, Pushes, InTurn
<1>5. Counts
  BY DEF Init, Counts, Present
<1> QED BY <1>1, <1>2, <1>3, <1>4, <1>5 DEF IInv

\* The runtime handler starts a push.
LEMMA HandledStep ==
    ASSUME IInv, NEW k \in Conts, Started(k) \/ Died(k) \/ Removed(k)
    PROVE  IInv'
<1>1. PICK from \in SUBSET {"unborn", "running", "waiting"}, to \in {"running", "waiting", "gone"}, event \in Types :
        /\ Handled(k, from, to, event)
        /\ \/ from = {"unborn"} /\ to = "running" /\ event = "added"
           \/ from = {"running"} /\ to = "waiting" /\ event = "updated"
           \/ from = {"running", "waiting"} /\ to = "gone" /\ event = "deleted"
  BY DEF Started, Died, Removed, Types
<1> DEFINE p == <<k, event>>
           begun == [Idle EXCEPT !.pc = "begin"]
<1>2. /\ p \in Pushes /\ pushes[p].pc = "none"
      /\ pushes' = [pushes EXCEPT ![p] = begun]
      /\ live' = [live EXCEPT ![k] = to] /\ live[k] \in from
      /\ UNCHANGED <<env, spaces, lock, clients, active, crashed>>
      /\ env.overtaking \/ \A q \in Pushes : q[1] = k => pushes[q].pc = "none"
  BY <1>1 DEF Handled, Pushes
<1>3. begun = [pc |-> "begin", left |-> {}, done |-> {}, to |-> None]
  BY DEF Idle
<1> HIDE DEF p, begun
<1>4. pushes'[p] = begun /\ \A q \in Pushes : q # p => pushes'[q] = pushes[q]
  BY <1>2 DEF IInv, Shape
<1>5. Shape'
  <2>1. begun \in Progress
    BY <1>3 DEF Progress
  <2> QED BY <1>1, <1>2, <2>1 DEF IInv, Shape, clients
<1>6. Ranges'
  BY <1>2, <1>3, <1>4 DEF IInv, Ranges, clients
<1>7. LockInv'
  <2>1. \A q \in Pushes : pushes'[q].pc = "namespace" <=> pushes[q].pc = "namespace"
    BY <1>2, <1>3, <1>4
  <2> QED BY <1>2, <2>1 DEF IInv, LockInv
<1>8. Informed'
  <2>1. lock # None => lock \in Pushes /\ lock # p
    BY <1>2 DEF IInv, Shape, LockInv
  <2> QED BY <1>2, <1>4, <2>1, InformedFrame DEF IInv, clients, Shape
<1>9. ASSUME ~env.overtaking PROVE InTurn' /\ Counts'
  <2>1. \A q \in Pushes : q[1] = k => pushes[q].pc = "none"
    BY <1>2, <1>9
  <2>2. \A j \in Conts, e \in Types : <<j, e>> \in Pushes /\ (<<j, e>> = p <=> j = k /\ e = event)
    BY <1>1 DEF Pushes, p
  <2>3. InTurn'
    <3> SUFFICES ASSUME NEW j \in Conts, NEW e \in Types, pushes'[<<j, e>>].pc # "none"
                 PROVE  live'[j] = After[e]
      BY DEF InTurn
    <3>1. CASE j = k
      <4>1. e = event
        BY <1>4, <2>1, <2>2, <3>1
      <4> QED BY <1>1, <1>2, <3>1, <4>1 DEF After, IInv, Shape
    <3>2. CASE j # k
      BY <1>2, <1>4, <1>9, <2>2, <3>2 DEF IInv, InTurn, Shape
    <3> QED BY <3>1, <3>2
  <2>4. ASSUME NEW j \in Conts
        PROVE  /\ live'[j] # "unborn" /\ pushes'[<<j, "added">>].pc # "begin"
                    /\ ~(live'[j] = "gone" /\ pushes'[<<j, "deleted">>].pc # "begin")
               <=> /\ live[j] # "unborn" /\ pushes[<<j, "added">>].pc # "begin"
                    /\ ~(live[j] = "gone" /\ pushes[<<j, "deleted">>].pc # "begin")
    <3>1. CASE j = k
      BY <1>1, <1>2, <1>3, <1>4, <2>1, <2>2, <3>1 DEF Types, IInv, Shape
    <3>2. CASE j # k
      BY <1>2, <1>4, <2>2, <3>2 DEF Types, IInv, Shape
    <3> QED BY <3>1, <3>2
  <2>5. \A n : Present(n)' = Present(n)
    BY <2>4 DEF Present
  <2> QED BY <1>2, <1>9, <2>3, <2>5 DEF IInv, Counts
<1> QED BY <1>2, <1>5, <1>6, <1>7, <1>8, <1>9 DEF IInv

\* Where the agent's goroutine goes on to the next client of its range.
LEMMA VisitStep ==
    ASSUME IInv, NEW p \in Pushes, NextClient(p) \/ LateClient(p)
    PROVE  IInv'
<1>1. PICK w \in pushes[p].left \cup chans :
        /\ pushes[p].pc \in {"namespace", "container"} /\ pushes[p].to = None
        /\ w \notin pushes[p].done \/ w \in pushes[p].left
        /\ pushes' = [pushes EXCEPT ![p].to = w, ![p].done = @ \cup {w}, ![p].left = @ \ {w}]
        /\ UNCHANGED <<env, live, spaces, lock, clients, active, crashed>>
  BY DEF NextClient, LateClient, Visit
<1>2. w \in chans /\ w \in Watchers
  BY <1>1 DEF IInv, Ranges, Shape
<1> DEFINE visited == [pushes[p] EXCEPT !.to = w, !.done = @ \cup {w}, !.left = @ \ {w}]
<1>a. pushes[p] \in Progress /\ visited \in Progress /\ pushes' = [pushes EXCEPT ![p] = visited]
  <2>1. pushes \in [Pushes -> Progress]
    BY DEF IInv, Shape
  <2>2. visited \in Progress
    BY <1>2, <2>1 DEF Progress
  <2>3. pushes' = [pushes EXCEPT ![p] = visited]
    BY <1>1, <2>1 DEF Progress
  <2> QED BY <2>1, <2>2, <2>3
<1>3. /\ pushes'[p] = visited
      /\ pushes'[p].to = w /\ pushes'[p].done = pushes[p].done \cup {w}
      /\ pushes'[p].left = pushes[p].left \ {w} /\ pushes'[p].pc = pushes[p].pc
      /\ \A q \in Pushes : q # p => pushes'[q] = pushes[q]
      /\ \A q \in Pushes : pushes'[q].pc = pushes[q].pc
  BY <1>1, <1>a DEF IInv, Shape, Progress
<1> HIDE DEF visited
<1>b. UNCHANGED <<env, live, spaces, lock, clients>>
  BY <1>1
<1>4. Shape'
  BY <1>a, <1>b DEF IInv, Shape, clients
<1>5. Ranges'
  BY <1>1, <1>2, <1>3, StateAssumption DEF IInv, Ranges, Shape, clients
<1>6. LockInv'
  BY <1>1, <1>3 DEF IInv, LockInv
<1>7. Informed'
  <2>1. CASE lock # p
    BY <1>1, <1>3, <2>1, InformedFrame DEF IInv, clients, Shape
  <2>2. CASE lock = p
    <3> SUFFICES ASSUME NEW v \in chans, ~missed[v], NEW n \in Names
                 PROVE  IF n = NsOf[p[1]] THEN KnowsOfPush(v, p)' ELSE Agrees(v, n, n \in DOMAIN spaces)'
      BY <1>1, <2>2, StateAssumption DEF Informed, clients
    <3>1. v \in Watchers /\ lock # None
      BY <2>2, StateAssumption DEF IInv, Shape
    <3>2. \A there : Agrees(v, n, there)' <=> Agrees(v, n, there)
      BY <1>1, <3>1, AgreesFrame DEF clients
    <3>3. \A t : Latest(buffer[v], told[v], n, t)' <=> Latest(buffer[v], told[v], n, t)
      BY <1>1, <3>1, AgreesFrame DEF clients
    <3>4. CASE n # NsOf[p[1]]
      BY <1>1, <2>2, <3>1, <3>2, <3>4 DEF IInv, Informed, Agrees
    <3>5. CASE n = NsOf[p[1]]
      <4>1. KnowsOfPush(v, p)
        BY <2>2, <3>1, <3>5 DEF IInv, Informed
      <4>2. CASE v = w
        <5>1. v \notin pushes[p].done
          BY <1>1, <4>2 DEF IInv, Ranges
        <5>2. Agrees(v, n, p[2] = "deleted")
          BY <3>5, <4>1, <5>1 DEF KnowsOfPush, Agrees
        <5> QED BY <1>3, <3>2, <3>5, <4>2, <5>2 DEF KnowsOfPush
      <4>3. CASE v # w
        BY <1>1, <1>2, <1>3, <3>1, <3>2, <3>3, <3>5, <4>1, <4>3, StateAssumption DEF KnowsOfPush, clients
      <4> QED BY <3>5, <4>2, <4>3
    <3> QED BY <3>4, <3>5
  <2> QED BY <2>1, <2>2
<1>8. ASSUME ~env.overtaking PROVE InTurn' /\ Counts'
  BY <1>1, <1>3, <1>8, CountsFrame DEF IInv
<1> QED BY <1>1, <1>4, <1>5, <1>6, <1>7, <1>8 DEF IInv

\* The range of a push ends: every client that is entered has been told, or came too
\* late, or is recorded as having missed the event.
LEMMA FinishedStep ==
    ASSUME IInv, NEW p \in Pushes, pushes[p].pc \in {"namespace", "container"}, Finished(p),
           UNCHANGED <<env, live, chans, buffer, told, snap>>, missed' \in [Watchers -> BOOLEAN],
           \A v \in chans : ~missed'[v] =>
                /\ ~missed[v]
                /\ \/ v \in pushes[p].done /\ pushes[p].to # v
                   \/ v \notin pushes[p].left \cup pushes[p].done
    PROVE  IInv'
<1> DEFINE n == NsOf[p[1]]
<1>1. Shape /\ Ranges /\ LockInv /\ Informed /\ None \notin Pushes
  BY StateAssumption DEF IInv
<1>2. CASE pushes[p].pc = "container"
  <2>1. pushes' = [pushes EXCEPT ![p] = Idle] /\ UNCHANGED <<spaces, lock>> /\ Idle \in Progress
    BY <1>2 DEF Finished, Idle, Progress
  <2>2. pushes'[p] = Idle /\ \A q \in Pushes : q # p => pushes'[q] = pushes[q]
    BY <1>1, <2>1 DEF Shape
  <2>3. Shape'
    BY <1>1, <2>1 DEF Shape
  <2>4. Ranges'
    BY <1>1, <2>2 DEF Ranges, Idle
  <2>5. LockInv'
    BY <1>1, <1>2, <2>1, <2>2 DEF LockInv, Idle
  <2>6. Informed'
    BY <1>1, <1>2, <2>1, <2>2, InformedFrame DEF LockInv, Shape
  <2>7. ASSUME ~env.overtaking PROVE InTurn' /\ Counts'
    <3>1. InTurn /\ Counts
      BY <2>7 DEF IInv
    <3>2. \A q \in Pushes : /\ pushes'[q].pc = "begin" <=> pushes[q].pc = "begin"
                            /\ pushes'[q].pc # "none" => pushes[q].pc # "none"
      BY <1>2, <2>2 DEF Idle
    <3> HIDE DEF n
    <3> QED BY <1>1, <2>1, <3>1, <3>2, CountsFrame
  <2> QED BY <2>3, <2>4, <2>5, <2>6, <2>7 DEF IInv
<1>3. CASE pushes[p].pc = "namespace"
  <2> DEFINE over == Telling("container")
             kept == {x \in DOMAIN spaces : x # n \/ spaces[x] # 0}
  <2>1. /\ pushes' = [pushes EXCEPT ![p] = over] /\ over \in Progress /\ lock' = None
        /\ spaces' = [m \in kept |-> spaces[m]]
        /\ over.pc = "container" /\ over.to = None /\ over.left = chans /\ over.done = {}
    BY <1>1, <1>3 DEF Finished, Telling, Progress, Shape
  <2>2. /\ lock = p /\ lock # None /\ n \in DOMAIN spaces /\ p[2] \in {"added", "deleted"}
        /\ spaces[n] = 0 <=> p[2] = "deleted"
        /\ \A m \in DOMAIN spaces : spaces[m] = 0 => m = n
    BY <1>1, <1>3 DEF LockInv
  <2> HIDE DEF over
  <2>3. pushes'[p] = over /\ \A q \in Pushes : q # p => pushes'[q] = pushes[q]
    BY <1>1, <2>1 DEF Shape
  <2>4. /\ DOMAIN spaces' = kept /\ \A m \in kept : spaces'[m] = spaces[m]
        /\ n \in kept <=> p[2] = "added"
        /\ \A m \in Names : m # n => (m \in kept <=> m \in DOMAIN spaces)
    BY <2>1, <2>2
  <2>5. Shape'
    BY <1>1, <2>1, <2>4 DEF Shape
  <2>6. Ranges'
    BY <1>1, <2>1, <2>3 DEF Ranges
  <2>7. LockInv'
    BY <1>1, <2>1, <2>2, <2>3, <2>4 DEF LockInv
  <2>8. Informed'
    <3> SUFFICES ASSUME NEW v \in chans, ~missed'[v], NEW m \in Names
                 PROVE  Agrees(v, m, m \in DOMAIN spaces)'
      BY <2>1 DEF Informed
    <3>1. v \in Watchers /\ ~missed[v]
      BY <1>1 DEF Shape
    <3>2. \A there : Agrees(v, m, there)' <=> Agrees(v, m, there)
      BY <3>1, AgreesFrame
    <3>3. CASE m # n
      <4>1. Agrees(v, m, m \in DOMAIN spaces)
        BY <1>1, <2>2, <3>1, <3>3 DEF Informed
      <4> QED BY <2>4, <3>2, <3>3, <4>1 DEF Agrees
    <3>4. CASE m = n
      <4>1. KnowsOfPush(v, p)
        BY <1>1, <2>2, <3>1, <3>4 DEF Informed
      <4>2. Agrees(v, m, p[2] = "added")
        BY <2>2, <3>4, <4>1 DEF KnowsOfPush, Agrees
      <4> QED BY <2>4, <3>2, <3>4, <4>2 DEF Agrees
    <3> QED BY <3>3, <3>4
  <2>9. ASSUME ~env.overtaking PROVE InTurn' /\ Counts'
    <3>1. \A q \in Pushes : /\ pushes'[q].pc = "begin" <=> pushes[q].pc = "begin"
                            /\ pushes'[q].pc # "none" => pushes[q].pc # "none"
      BY <1>3, <2>1, <2>3
    <3>2. \A k \in Conts, e \in Types : <<k, e>> \in Pushes
      BY DEF Pushes
    <3>3. InTurn'
      BY <2>9, <3>1, <3>2 DEF IInv, InTurn
    <3>4. \A m : Present(m)' = Present(m)
      BY <3>1, <3>2 DEF Present, Types
    <3>5. ASSUME NEW m \in Names
          PROVE  IF m \in kept THEN spaces[m] = Cardinality(Present(m)) ELSE Present(m) = {}
      <4>1. IF m \in DOMAIN spaces THEN spaces[m] = Cardinality(Present(m)) ELSE Present(m) = {}
        BY <2>9 DEF IInv, Counts
      <4>2. IsFiniteSet(Present(m))
        BY StateAssumption, FS_Subset, Present(m) \subseteq Conts DEF Present
      <4>3. Cardinality(Present(m)) = 0 => Present(m) = {}
        BY <4>2, FS_EmptySet
      <4> QED BY <4>1, <4>3
    <3> QED BY <2>4, <3>3, <3>4, <3>5 DEF Counts
  <2> QED BY <2>5, <2>6, <2>7, <2>8, <2>9 DEF IInv
<1> QED BY <1>2, <1>3

LEMMA RangeDoneStep ==
    ASSUME IInv, NEW p \in Pushes, RangeDone(p)
    PROVE  IInv'
<1>1. /\ pushes[p].pc \in {"namespace", "container"} /\ pushes[p].to = None /\ pushes[p].left = {}
      /\ Finished(p) /\ UNCHANGED <<env, live, clients>>
  BY DEF RangeDone
<1>2. None \notin chans /\ missed \in [Watchers -> BOOLEAN]
  BY StateAssumption DEF IInv, Shape
<1> QED BY <1>1, <1>2, FinishedStep DEF clients

\* A push sends its event to a client, finds its channel full, or closed.
LEMMA PushToStep ==
    ASSUME IInv, NEW p \in Pushes, PushTo(p)
    PROVE  IInv'
<1> DEFINE w == pushes[p].to
           e == Told(p)
<1>1. Shape /\ Ranges /\ LockInv /\ Informed /\ None \notin Pushes /\ w # None
  BY StateAssumption DEF IInv, PushTo
<1>2. pushes[p].pc \in {"namespace", "container"} /\ w \in pushes[p].done \cup {Closed}
      /\ pushes[p].left \subseteq chans /\ pushes[p].done \subseteq chans
  BY <1>1 DEF Ranges
<1>3. CASE UNCHANGED <<env, live, spaces, lock, pushes, clients>>
  <2>1. Shape' /\ Ranges' /\ LockInv'
    BY <1>1, <1>3 DEF Shape, Ranges, LockInv, clients
  <2>2. Informed'
    BY <1>1, <1>3, InformedFrame DEF clients
  <2>3. ASSUME ~env.overtaking PROVE InTurn' /\ Counts'
    BY <1>1, <1>3, <2>3, CountsFrame DEF IInv
  <2> QED BY <1>3, <2>1, <2>2, <2>3 DEF IInv
<1>4. CASE /\ w # Closed /\ Len(buffer[w]) < BufferSize
           /\ buffer' = [buffer EXCEPT ![w] = Append(@, Told(p))]
           /\ pushes' = [pushes EXCEPT ![p].to = None]
           /\ UNCHANGED <<env, live, spaces, lock, chans, told, snap, missed>>
  <2> DEFINE sent == [pushes[p] EXCEPT !.to = None]
  <2>1. w \in Watchers /\ w \in chans /\ w \in pushes[p].done
    BY <1>1, <1>2, <1>4 DEF Shape
  <2>2. pushes' = [pushes EXCEPT ![p] = sent] /\ sent \in Progress
    <3>1. pushes \in [Pushes -> Progress]
      BY <1>1 DEF Shape
    <3> QED BY <1>4, <3>1 DEF Progress
  <2>3. /\ pushes'[p].to = None /\ pushes'[p].left = pushes[p].left /\ pushes'[p].done = pushes[p].done
        /\ \A q \in Pushes : pushes'[q].pc = pushes[q].pc /\ (q # p => pushes'[q] = pushes[q])
    <3>1. pushes \in [Pushes -> Progress]
      BY <1>1 DEF Shape
    <3> QED BY <2>2, <3>1 DEF Progress
  <2> HIDE DEF sent
  <2>4. e \in Events
    BY StateAssumption DEF Told, Event, Events, Pushes
  <2>5. /\ e.kind = "namespace" <=> pushes[p].pc = "namespace"
        /\ pushes[p].pc = "namespace" => e.name = NsOf[p[1]] /\ e.type = p[2]
    BY DEF Told, Event
  <2> HIDE DEF e
  <2>6. /\ buffer'[w] = Append(buffer[w], e) /\ buffer[w] \in Seq(Events)
        /\ \A v \in Watchers : v # w => buffer'[v] = buffer[v]
    BY <1>1, <1>4, <2>1 DEF Shape, e
  <2>7. Shape'
    <3>1. Append(buffer[w], e) \in Seq(Events) /\ Len(Append(buffer[w], e)) = Len(buffer[w]) + 1
      BY <2>4, <2>6, LatestAppend
    <3>2. buffer' \in [Watchers -> Seq(Events)]
      BY <1>1, <1>4, <2>1, <3>1 DEF Shape, e
    <3>3. \A v \in Watchers : Len(buffer'[v]) <= BufferSize
      <4>1. Len(buffer[w]) \in Nat /\ BufferSize \in Nat
        BY <2>6, StateAssumption
      <4> QED BY <1>1, <1>4, <2>6, <3>1, <4>1 DEF Shape
    <3> QED BY <1>1, <1>4, <2>2, <3>2, <3>3 DEF Shape
  <2>8. Ranges'
    BY <1>1, <1>4, <2>3 DEF Ranges
  <2>9. LockInv'
    BY <1>1, <1>4, <2>3 DEF LockInv
  <2>10. Informed'
    <3> SUFFICES ASSUME NEW v \in chans, ~missed[v], NEW n \in Names
                 PROVE  IF lock # None /\ n = NsOf[lock[1]] THEN KnowsOfPush(v, lock)'
                        ELSE Agrees(v, n, n \in DOMAIN spaces)'
      BY <1>4 DEF Informed
    <3>1. v \in Watchers /\ (lock # None => lock \in Pushes) /\ (lock = p <=> pushes[p].pc = "namespace")
      BY <1>1 DEF Shape, LockInv
    <3>2. CASE v = w /\ lock = p /\ n = NsOf[p[1]]
      <4>1. Latest(buffer[v], told[v], n, p[2])'
        BY <1>4, <2>4, <2>5, <2>6, <3>1, <3>2, LatestAppend
      <4> QED BY <1>1, <1>4, <2>1, <2>3, <3>2, <4>1 DEF KnowsOfPush
    <3>3. CASE ~(v = w /\ lock = p /\ n = NsOf[p[1]])
      <4>1. \A t : Latest(buffer[v], told[v], n, t)' <=> Latest(buffer[v], told[v], n, t)
        <5>1. CASE v # w
          BY <1>4, <2>6, <3>1, <5>1, AgreesFrame
        <5>2. CASE v = w
          BY <1>4, <2>4, <2>5, <2>6, <3>1, <3>3, <5>2, LatestAppend
        <5> QED BY <5>1, <5>2
      <4>2. \A there : Agrees(v, n, there)' <=> Agrees(v, n, there)
        BY <1>4, <4>1 DEF Agrees
      <4>3. CASE lock # None /\ n = NsOf[lock[1]]
        <5>1. KnowsOfPush(v, lock)
          BY <1>1, <4>3 DEF Informed
        <5>2. CASE lock # p
          BY <1>4, <2>3, <3>1, <4>1, <4>2, <4>3, <5>1, <5>2 DEF KnowsOfPush
        <5>3. CASE lock = p
          BY <1>1, <1>4, <2>3, <3>1, <3>3, <4>1, <4>2, <4>3, <5>1, <5>3, StateAssumption DEF KnowsOfPush
        <5> QED BY <4>3, <5>2, <5>3
      <4>4. CASE ~(lock # None /\ n = NsOf[lock[1]])
        <5>1. Agrees(v, n, n \in DOMAIN spaces)
          BY <1>1, <4>4 DEF Informed
        <5> QED BY <1>4, <4>2, <4>4, <5>1 DEF Agrees
      <4> QED BY <4>3, <4>4
    <3> QED BY <3>2, <3>3
  <2>11. ASSUME ~env.overtaking PROVE InTurn' /\ Counts'
    BY <1>1, <1>4, <2>3, <2>11, CountsFrame DEF IInv
  <2> QED BY <1>4, <2>7, <2>8, <2>9, <2>10, <2>11 DEF IInv
<1>5. CASE /\ w # Closed
           /\ missed' = [v \in Watchers |-> missed[v] \/ v = w \/ v \in chans \ pushes[p].done]
           /\ Finished(p)
           /\ UNCHANGED <<env, live, chans, buffer, told, snap>>
  <2>1. missed' \in [Watchers -> BOOLEAN]
    BY <1>1, <1>5 DEF Shape
  <2>2. ASSUME NEW v \in chans, ~missed'[v] PROVE ~missed[v] /\ v \in pushes[p].done /\ w # v
    BY <1>1, <1>5, <2>2 DEF Shape
  <2> QED BY <1>2, <1>5, <2>1, <2>2, FinishedStep
<1> QED BY <1>3, <1>4, <1>5 DEF PushTo

\* The container is counted: the set of containers counted gains or loses it.
LEMMA CountedContainer ==
    ASSUME Shape, InTurn, NEW p \in Pushes, pushes[p].pc = "begin", live' = live,
           pushes'[p].pc \in {"namespace", "container"},
           \A q \in Pushes : q # p => pushes'[q] = pushes[q]
    PROVE  /\ \A n : n # NsOf[p[1]] \/ p[2] = "updated" => Present(n)' = Present(n)
           /\ p[2] = "added" => /\ Present(NsOf[p[1]])' = Present(NsOf[p[1]]) \cup {p[1]}
                                /\ p[1] \notin Present(NsOf[p[1]])
           /\ p[2] = "deleted" => /\ Present(NsOf[p[1]])' = Present(NsOf[p[1]]) \ {p[1]}
                                  /\ p[1] \in Present(NsOf[p[1]])
<1>1. PICK k \in Conts, e \in Types : p = <<k, e>>
  BY DEF Pushes
<1>2. p[1] = k /\ p[2] = e
  BY <1>1
<1>3. \A j \in Conts, t \in Types : <<j, t>> \in Pushes /\ (<<j, t>> = p <=> j = k /\ t = e)
  BY <1>1 DEF Pushes
<1>4. live[k] = After[e] /\ \A t \in Types : pushes[<<k, t>>].pc # "none" => After[t] = After[e]
  BY <1>1, <1>3 DEF InTurn
<1>5. \A t \in Types : t # e => pushes[<<k, t>>].pc = "none"
  BY <1>4 DEF After, Types
<1>6. \A j \in Conts, t \in Types : j # k => pushes'[<<j, t>>] = pushes[<<j, t>>]
  BY <1>3
<1>7. ASSUME NEW n, n # NsOf[k] \/ e = "updated" PROVE Present(n)' = Present(n)
  <2>1. \A j \in Conts : j \in Present(n)' <=> j \in Present(n)
    <3> SUFFICES ASSUME NEW j \in Conts, NsOf[j] = n PROVE j \in Present(n)' <=> j \in Present(n)
      BY DEF Present
    <3>1. CASE j # k
      BY <1>6, <3>1 DEF Present, Types
    <3>2. CASE j = k
      <4>1. e = "updated"
        BY <1>7, <3>2
      <4>2. \A t \in Types : t # e => pushes'[<<k, t>>] = pushes[<<k, t>>]
        BY <1>3
      <4> QED BY <3>2, <4>1, <4>2 DEF Present, Types
    <3> QED BY <3>1, <3>2
  <2> QED BY <2>1 DEF Present
<1>8. ASSUME e = "added"
      PROVE  Present(NsOf[k])' = Present(NsOf[k]) \cup {k} /\ k \notin Present(NsOf[k])
  <2>1. live[k] = "running" /\ live'[k] = "running"
    BY <1>4, <1>8 DEF After
  <2>2. pushes[<<k, "added">>].pc = "begin" /\ pushes'[<<k, "added">>].pc # "begin"
    BY <1>1, <1>8
  <2>3. k \in Present(NsOf[k])' /\ k \notin Present(NsOf[k])
    BY <2>1, <2>2 DEF Present
  <2>4. \A j \in Conts : j # k => (j \in Present(NsOf[k])' <=> j \in Present(NsOf[k]))
    BY <1>6 DEF Present, Types
  <2>5. Present(NsOf[k])' \subseteq Conts /\ Present(NsOf[k]) \subseteq Conts
    BY DEF Present
  <2> QED BY <2>3, <2>4, <2>5
<1>9. ASSUME e = "deleted"
      PROVE  Present(NsOf[k])' = Present(NsOf[k]) \ {k} /\ k \in Present(NsOf[k])
  <2>1. live[k] = "gone" /\ live'[k] = "gone"
    BY <1>4, <1>9 DEF After
  <2>2. pushes[<<k, "deleted">>].pc = "begin" /\ pushes'[<<k, "deleted">>].pc # "begin"
    BY <1>1, <1>9
  <2>3. pushes[<<k, "added">>].pc = "none"
    BY <1>5, <1>9 DEF Types
  <2>4. k \notin Present(NsOf[k])' /\ k \in Present(NsOf[k])
    BY <2>1, <2>2, <2>3 DEF Present
  <2>5. \A j \in Conts : j # k => (j \in Present(NsOf[k])' <=> j \in Present(NsOf[k]))
    BY <1>6 DEF Present, Types
  <2>6. Present(NsOf[k])' \subseteq Conts /\ Present(NsOf[k]) \subseteq Conts
    BY DEF Present
  <2> QED BY <2>4, <2>5, <2>6
<1> QED BY <1>2, <1>7, <1>8, <1>9

\* A push takes the lock, counts its container and, unless it has to tell of the namespace,
\* releases the lock.
LEMMA CountStep ==
    ASSUME IInv, NEW p \in Pushes, CountNamespace(p)
    PROVE  IInv'
<1> DEFINE n == NsOf[p[1]]
           after == Counted(n, p[2])
           tell == n \in DOMAIN after /\ (n \notin DOMAIN spaces \/ (p[2] = "deleted" /\ after[n] = 0))
           next == IF tell THEN Telling("namespace") ELSE Telling("container")
<1>1. /\ Shape /\ Ranges /\ LockInv /\ Informed /\ None \notin Pushes
      /\ p[1] \in Conts /\ p[2] \in Types /\ n \in Names
  BY StateAssumption DEF IInv, Pushes
<1>2. /\ pushes[p].pc = "begin" /\ lock = None /\ spaces' = after
      /\ lock' = IF tell THEN p ELSE None
      /\ pushes' = [pushes EXCEPT ![p] = next]
      /\ UNCHANGED <<env, live, clients>>
  BY DEF CountNamespace
<1>3. /\ \A m \in DOMAIN spaces : spaces[m] \in Nat /\ spaces[m] # 0
      /\ DOMAIN spaces \subseteq Names
  BY <1>1, <1>2 DEF Shape, LockInv
<1>4. /\ after \in [DOMAIN after -> Nat] /\ DOMAIN after \subseteq Names
      /\ p[2] = "added" => DOMAIN after = DOMAIN spaces \cup {n}
      /\ p[2] # "added" => DOMAIN after = DOMAIN spaces
      /\ \A m \in DOMAIN spaces : m # n => after[m] = spaces[m]
      /\ n \notin DOMAIN spaces /\ p[2] = "added" => after[n] = 1
      /\ n \in DOMAIN spaces => after[n] = CASE p[2] = "added" -> spaces[n] + 1
                                             [] p[2] = "deleted" -> spaces[n] - 1
                                             [] OTHER -> spaces[n]
  <2>1. spaces \in [DOMAIN spaces -> Nat]
    BY <1>1 DEF Shape
  <2>2. CASE p[2] = "added" /\ n \notin DOMAIN spaces
    BY <1>1, <1>3, <2>1, <2>2 DEF Counted
  <2>3. CASE p[2] = "added" /\ n \in DOMAIN spaces
    BY <1>1, <1>3, <2>1, <2>3 DEF Counted
  <2>4. CASE p[2] # "added"
    BY <1>1, <1>3, <2>1, <2>4 DEF Counted, Types
  <2> QED BY <2>2, <2>3, <2>4
<1>5. /\ next \in Progress /\ next.left = chans /\ next.done = {} /\ next.to = None
      /\ next.pc = IF tell THEN "namespace" ELSE "container"
  BY <1>1 DEF Telling, Progress, Shape
<1>6. /\ tell => p[2] \in {"added", "deleted"} /\ n \in DOMAIN after /\ (after[n] = 0 <=> p[2] = "deleted")
                 /\ (n \in DOMAIN spaces <=> p[2] = "deleted")
      /\ ~tell => DOMAIN after = DOMAIN spaces /\ (n \in DOMAIN after => after[n] # 0)
  <2> HIDE DEF n, after
  <2>1. CASE p[2] = "added"
    BY <1>3, <1>4, <2>1
  <2>2. CASE p[2] = "deleted"
    BY <1>3, <1>4, <2>2
  <2>3. CASE p[2] = "updated"
    BY <1>3, <1>4, <2>3
  <2> QED BY <1>1, <2>1, <2>2, <2>3 DEF Types
<1> HIDE DEF n, after, next, tell
<1>7. pushes'[p] = next /\ \A q \in Pushes : q # p => pushes'[q] = pushes[q]
  BY <1>1, <1>2 DEF Shape
<1>8. Shape'
  BY <1>1, <1>2, <1>4, <1>5 DEF Shape, clients
<1>9. Ranges'
  BY <1>1, <1>2, <1>5, <1>7 DEF Ranges, clients
<1>10. LockInv'
  <2>1. \A q \in Pushes : pushes'[q].pc = "namespace" <=> lock' = q
    BY <1>1, <1>2, <1>5, <1>7 DEF LockInv
  <2>2. lock' # None => lock' = p /\ tell
    BY <1>2
  <2>3. NsOf[p[1]] = n
    BY DEF n
  <2>4. \A m \in DOMAIN after : after[m] = 0 => lock' # None /\ m = n
    <3>1. \A m \in DOMAIN after : m # n => after[m] # 0
      BY <1>3, <1>4
    <3> QED BY <1>1, <1>2, <1>6, <3>1
  <2> QED BY <1>2, <1>6, <2>1, <2>2, <2>3, <2>4 DEF LockInv
<1>11. Informed'
  <2> SUFFICES ASSUME NEW v \in chans, ~missed[v], NEW m \in Names
               PROVE  IF lock' # None /\ m = NsOf[lock'[1]] THEN KnowsOfPush(v, lock)'
                      ELSE Agrees(v, m, m \in DOMAIN spaces)'
    BY <1>2 DEF Informed, clients
  <2>1. v \in Watchers /\ Agrees(v, m, m \in DOMAIN spaces)
    BY <1>1, <1>2 DEF Shape, Informed
  <2>2. \A there : Agrees(v, m, there)' <=> Agrees(v, m, there)
    BY <1>2, <2>1, AgreesFrame DEF clients
  <2>3. CASE tell /\ m = n
    <3>1. lock' = p /\ v \notin pushes'[p].done /\ v \in pushes'[p].left
      BY <1>2, <1>5, <1>7, <2>3
    <3>2. Agrees(v, m, p[2] = "deleted")
      BY <1>6, <2>1, <2>3 DEF Agrees
    <3>3. KnowsOfPush(v, lock)'
      BY <2>2, <2>3, <3>1, <3>2 DEF KnowsOfPush, n
    <3> QED BY <1>1, <2>3, <3>1, <3>3 DEF n
  <2>4. CASE ~(tell /\ m = n)
    <3>1. m \in DOMAIN after <=> m \in DOMAIN spaces
      BY <1>1, <1>4, <1>6, <2>4 DEF Types
    <3>2. Agrees(v, m, m \in DOMAIN spaces)'
      BY <1>2, <2>1, <2>2, <3>1 DEF Agrees
    <3> QED BY <1>2, <2>4, <3>2 DEF n
  <2> QED BY <2>3, <2>4
<1>12. ASSUME ~env.overtaking PROVE InTurn' /\ Counts'
  <2>1. InTurn'
    <3>1. \A q \in Pushes : pushes'[q].pc # "none" => pushes[q].pc # "none"
      BY <1>2, <1>7
    <3> QED BY <1>2, <1>12, <3>1 DEF IInv, InTurn, Pushes
  <2>2. Counts /\ InTurn
    BY <1>12 DEF IInv
  <2>3. pushes'[p].pc \in {"namespace", "container"} /\ live' = live
    BY <1>2, <1>5, <1>7
  <2>4. /\ \A m : m # n \/ p[2] = "updated" => Present(m)' = Present(m)
        /\ p[2] = "added" => Present(n)' = Present(n) \cup {p[1]} /\ p[1] \notin Present(n)
        /\ p[2] = "deleted" => Present(n)' = Present(n) \ {p[1]} /\ p[1] \in Present(n)
    BY <1>1, <1>2, <1>7, <2>2, <2>3, CountedContainer DEF n
  <2>5. IsFiniteSet(Present(n)) /\ Cardinality(Present(n)) \in Nat
    BY StateAssumption, FS_Subset, FS_CardinalityType, Present(n) \subseteq Conts DEF Present
  <2>6. /\ p[2] = "added" => Cardinality(Present(n)') = Cardinality(Present(n)) + 1
        /\ p[2] = "deleted" => Cardinality(Present(n)') = Cardinality(Present(n)) - 1
    <3>1. ASSUME p[2] = "added" PROVE Cardinality(Present(n)') = Cardinality(Present(n)) + 1
      <4>1. Cardinality(Present(n) \cup {p[1]}) = Cardinality(Present(n)) + 1
        BY <2>4, <2>5, <3>1, FS_AddElement
      <4> QED BY <2>4, <3>1, <4>1
    <3>2. ASSUME p[2] = "deleted" PROVE Cardinality(Present(n)') = Cardinality(Present(n)) - 1
      <4>1. Cardinality(Present(n) \ {p[1]}) = Cardinality(Present(n)) - 1
        BY <2>4, <2>5, <3>2, FS_RemoveElement
      <4> QED BY <2>4, <3>2, <4>1
    <3> QED BY <3>1, <3>2
  <2>7. IF n \in DOMAIN spaces THEN spaces[n] = Cardinality(Present(n)) ELSE Present(n) = {}
    BY <1>1, <2>2 DEF Counts
  <2>8. IF n \in DOMAIN after THEN after[n] = Cardinality(Present(n)') ELSE Present(n)' = {}
    <3>1. CASE p[2] = "added"
      <4>1. n \notin DOMAIN spaces => Cardinality(Present(n)) = 0
        BY <2>7, FS_EmptySet
      <4> QED BY <1>4, <2>6, <2>7, <3>1, <4>1
    <3>2. CASE p[2] = "deleted"
      BY <1>4, <2>4, <2>6, <2>7, <3>2
    <3>3. CASE p[2] = "updated"
      BY <1>4, <2>4, <2>7, <3>3
    <3> QED BY <1>1, <3>1, <3>2, <3>3 DEF Types
  <2>9. ASSUME NEW m \in Names, m # n
        PROVE  IF m \in DOMAIN after THEN after[m] = Cardinality(Present(m)') ELSE Present(m)' = {}
    <3>1. m \in DOMAIN after <=> m \in DOMAIN spaces
      BY <1>4, <2>9
    <3>2. Present(m)' = Present(m)
      BY <2>4, <2>9
    <3> QED BY <1>4, <2>2, <2>9, <3>1, <3>2 DEF Counts
  <2>10. Counts'
    BY <1>2, <2>8, <2>9 DEF Counts
  <2> QED BY <2>1, <2>10
<1> QED BY <1>2, <1>8, <1>9, <1>10, <1>11, <1>12 DEF IInv

\* A client is entered.
LEMMA AddStep ==
    ASSUME IInv, NEW w \in Watchers, addStateEventChan(w)
    PROVE  IInv'
<1>1. Shape /\ Ranges /\ LockInv /\ Informed
  BY DEF IInv
<1>2. /\ w \notin chans /\ chans' = chans \cup {w}
      /\ buffer' = [buffer EXCEPT ![w] = <<>>]
      /\ told' = [told EXCEPT ![w] = [n \in Names |-> "nothing"]]
      /\ snap' = [snap EXCEPT ![w] = None]
      /\ missed' = [missed EXCEPT ![w] = FALSE]
      /\ UNCHANGED <<env, live, spaces, lock, pushes>>
  BY DEF addStateEventChan
<1>3. Shape'
  <2>1. buffer' \in [Watchers -> Seq(Events)] /\ \A v \in Watchers : Len(buffer'[v]) <= BufferSize
    <3>1. <<>> \in Seq(Events) /\ Len(<<>>) <= BufferSize
      BY StateAssumption
    <3>2. \A v \in Watchers : buffer'[v] = IF v = w THEN <<>> ELSE buffer[v]
      BY <1>1, <1>2 DEF Shape
    <3> QED BY <1>1, <1>2, <3>1, <3>2 DEF Shape
  <2>2. told' \in [Watchers -> [Names -> Types \cup {"nothing"}]]
    BY <1>1, <1>2 DEF Shape
  <2>3. missed' \in [Watchers -> BOOLEAN] /\ snap' \in [Watchers -> (SUBSET Names) \cup {None}]
    BY <1>1, <1>2 DEF Shape
  <2> QED BY <1>1, <1>2, <2>1, <2>2, <2>3 DEF Shape
<1>4. Ranges' /\ LockInv'
  BY <1>1, <1>2 DEF Ranges, LockInv
<1>5. Informed'
  <2> SUFFICES ASSUME NEW v \in chans', ~missed'[v], NEW n \in Names
               PROVE  IF lock # None /\ n = NsOf[lock[1]] THEN KnowsOfPush(v, lock)'
                      ELSE Agrees(v, n, n \in DOMAIN spaces)'
    BY <1>2 DEF Informed
  <2>1. CASE v = w
    <3>1. buffer'[w] = <<>> /\ told'[w][n] = "nothing" /\ snap'[w] = None
      BY <1>1, <1>2 DEF Shape
    <3>2. Latest(buffer'[w], told'[w], n, "nothing")
      <4>1. About(buffer'[w], n) = {}
        <5>1. About(<<>>, n) = {}
          BY DEF About
        <5> QED BY <3>1, <5>1
      <4> QED BY <3>1, <4>1 DEF Latest
    <3>3. lock # None => w \notin pushes'[lock].left \cup pushes'[lock].done
      BY <1>1, <1>2 DEF Shape, Ranges
    <3> QED BY <1>2, <2>1, <3>1, <3>2, <3>3 DEF KnowsOfPush, Agrees
  <2>2. CASE v # w
    <3>1. v \in chans /\ v \in Watchers
      BY <1>1, <1>2, <2>2 DEF Shape
    <3>2. ~missed[v] /\ buffer'[v] = buffer[v] /\ told'[v] = told[v] /\ snap'[v] = snap[v]
      BY <1>1, <1>2, <2>2, <3>1 DEF Shape
    <3>3. /\ \A t : Latest(buffer[v], told[v], n, t)' <=> Latest(buffer[v], told[v], n, t)
          /\ \A there : Agrees(v, n, there)' <=> Agrees(v, n, there)
      BY <3>1, <3>2, AgreesFrame
    <3>4. IF lock # None /\ n = NsOf[lock[1]] THEN KnowsOfPush(v, lock) ELSE Agrees(v, n, n \in DOMAIN spaces)
      BY <1>1, <3>1, <3>2 DEF Informed
    <3>5. CASE lock # None /\ n = NsOf[lock[1]]
      BY <1>2, <3>2, <3>3, <3>4, <3>5 DEF KnowsOfPush
    <3>6. CASE ~(lock # None /\ n = NsOf[lock[1]])
      BY <1>2, <3>3, <3>4, <3>6 DEF Agrees
    <3> QED BY <3>5, <3>6
  <2> QED BY <2>1, <2>2
<1>6. ASSUME ~env.overtaking PROVE InTurn' /\ Counts'
  BY <1>1, <1>2, <1>6, CountsFrame DEF IInv
<1> QED BY <1>2, <1>3, <1>4, <1>5, <1>6 DEF IInv

\* A client is removed: the pushes forget it, the others are not affected.
LEMMA RemoveStep ==
    ASSUME IInv, NEW w \in Watchers, removeStateEventChan(w), Shape',
           UNCHANGED <<env, live, spaces, lock, snap, missed>>,
           \A v \in Watchers : v # w => buffer'[v] = buffer[v] /\ told'[v] = told[v]
    PROVE  IInv'
<1>1. Shape /\ Ranges /\ LockInv /\ Informed
  BY DEF IInv
<1>2. /\ chans' = chans \ {w}
      /\ \A p \in Pushes : /\ pushes'[p].left = pushes[p].left \ {w} /\ pushes'[p].done = pushes[p].done \ {w}
                           /\ pushes'[p].to = IF pushes[p].to = w THEN Closed ELSE pushes[p].to
                           /\ pushes'[p].pc = pushes[p].pc
  <2>1. \A p \in Pushes : pushes[p] \in Progress
    BY <1>1 DEF Shape
  <2> QED BY <2>1 DEF removeStateEventChan, Progress
<1>3. Ranges'
  <2> SUFFICES ASSUME NEW p \in Pushes
               PROVE  /\ pushes'[p].left \subseteq chans' /\ pushes'[p].done \subseteq chans'
                      /\ pushes'[p].left \cap pushes'[p].done = {}
                      /\ pushes'[p].to \in pushes'[p].done \cup {None, Closed}
                      /\ pushes'[p].to # None => pushes'[p].pc \in {"namespace", "container"}
    BY DEF Ranges
  <2>1. /\ pushes[p].left \subseteq chans /\ pushes[p].done \subseteq chans
        /\ pushes[p].left \cap pushes[p].done = {}
        /\ pushes[p].to \in pushes[p].done \cup {None, Closed}
        /\ pushes[p].to # None => pushes[p].pc \in {"namespace", "container"}
    BY <1>1 DEF Ranges
  <2>2. w # None
    BY StateAssumption
  <2> QED BY <1>2, <2>1, <2>2
<1>4. LockInv'
  BY <1>1, <1>2 DEF LockInv
<1>5. Informed'
  <2> SUFFICES ASSUME NEW v \in chans', ~missed'[v], NEW n \in Names
               PROVE  IF lock # None /\ n = NsOf[lock[1]] THEN KnowsOfPush(v, lock)'
                      ELSE Agrees(v, n, n \in DOMAIN spaces)'
    BY DEF Informed
  <2>1. v \in chans /\ v \in Watchers /\ v # w /\ ~missed[v] /\ v # Closed
    BY <1>1, <1>2, StateAssumption DEF Shape
  <2>2. /\ \A t : Latest(buffer[v], told[v], n, t)' <=> Latest(buffer[v], told[v], n, t)
        /\ \A there : Agrees(v, n, there)' <=> Agrees(v, n, there)
    BY <2>1, AgreesFrame
  <2>3. IF lock # None /\ n = NsOf[lock[1]] THEN KnowsOfPush(v, lock) ELSE Agrees(v, n, n \in DOMAIN spaces)
    BY <1>1, <2>1 DEF Informed
  <2>4. CASE lock # None /\ n = NsOf[lock[1]]
    <3>1. lock \in Pushes
      BY <1>1, <2>4 DEF Shape
    <3> QED BY <1>2, <2>1, <2>2, <2>3, <2>4, <3>1 DEF KnowsOfPush
  <2>5. CASE ~(lock # None /\ n = NsOf[lock[1]])
    BY <2>2, <2>3, <2>5 DEF Agrees
  <2> QED BY <2>4, <2>5
<1>6. ASSUME ~env.overtaking PROVE InTurn' /\ Counts'
  BY <1>1, <1>2, <1>6, CountsFrame DEF IInv
<1> QED BY <1>3, <1>4, <1>5, <1>6 DEF IInv

\* The pushes after a client was removed have their types.
LEMMA RemovedShape ==
    ASSUME Shape, NEW w \in Watchers, removeStateEventChan(w)
    PROVE  pushes' \in [Pushes -> Progress] /\ chans' \subseteq Watchers
<1>1. \A p \in Pushes : pushes[p] \in Progress
  BY DEF Shape
<1>2. \A p \in Pushes : [pushes[p] EXCEPT !.left = @ \ {w}, !.done = @ \ {w},
                                          !.to = IF @ = w THEN Closed ELSE @] \in Progress
  BY <1>1 DEF Progress
<1> QED BY <1>2 DEF removeStateEventChan, Shape

\* A client is sent the next event of its channel, and leaves if the agent has ended.
LEMMA WatchStep ==
    ASSUME IInv, NEW w \in Watchers, WatchState(w)
    PROVE  IInv'
<1> DEFINE e == Head(buffer[w])
<1>1. Shape /\ Ranges /\ LockInv /\ Informed
  BY DEF IInv
<1>2. /\ w \in chans /\ buffer[w] # <<>>
      /\ told' = IF e.kind = "namespace" THEN [told EXCEPT ![w][e.name] = e.type] ELSE told
      /\ buffer' = [buffer EXCEPT ![w] = Tail(@)]
      /\ UNCHANGED <<env, live, spaces, lock, snap, missed>>
      /\ UNCHANGED <<chans, pushes>> \/ removeStateEventChan(w)
  BY DEF WatchState
<1>3. buffer[w] \in Seq(Events) /\ told[w] \in [Names -> Types \cup {"nothing"}]
  BY <1>1 DEF Shape
<1>4. /\ \A v \in Watchers : v # w => buffer'[v] = buffer[v] /\ told'[v] = told[v]
      /\ buffer'[w] = Tail(buffer[w]) /\ told'[w] = AfterTold(told[w], e)
  BY <1>1, <1>2 DEF Shape, AfterTold
<1>5. /\ Tail(buffer[w]) \in Seq(Events) /\ Len(Tail(buffer[w])) = Len(buffer[w]) - 1 /\ Len(buffer[w]) \in Nat
      /\ AfterTold(told[w], e) \in [Names -> Types \cup {"nothing"}]
  <2>1. Tail(buffer[w]) \in Seq(Events) /\ Len(Tail(buffer[w])) = Len(buffer[w]) - 1 /\ Len(buffer[w]) \in Nat
        /\ e \in Events
    BY <1>2, <1>3
  <2> QED BY <1>3, <2>1 DEF AfterTold, Events
<1>6. Shape'
  <2>1. buffer' \in [Watchers -> Seq(Events)]
    BY <1>1, <1>2, <1>5 DEF Shape
  <2>2. \A v \in Watchers : Len(buffer'[v]) <= BufferSize
    <3>1. Len(buffer[w]) <= BufferSize /\ BufferSize \in Nat
      BY <1>1, StateAssumption DEF Shape
    <3>2. Len(buffer'[w]) <= BufferSize
      BY <1>4, <1>5, <3>1
    <3> QED BY <1>1, <1>4, <3>2 DEF Shape
  <2>3. told' \in [Watchers -> [Names -> Types \cup {"nothing"}]]
    <3>1. told' = [told EXCEPT ![w] = AfterTold(told[w], e)]
      BY <1>1, <1>2 DEF Shape, AfterTold
    <3> QED BY <1>1, <1>5, <3>1 DEF Shape
  <2>4. pushes' \in [Pushes -> Progress] /\ chans' \subseteq Watchers
    BY <1>1, <1>2, RemovedShape DEF Shape
  <2> QED BY <1>1, <1>2, <2>1, <2>2, <2>3, <2>4 DEF Shape
<1>7. CASE removeStateEventChan(w)
  BY <1>2, <1>4, <1>6, <1>7, RemoveStep
<1>8. CASE UNCHANGED <<chans, pushes>>
  <2>1. Ranges' /\ LockInv'
    BY <1>1, <1>2, <1>8 DEF Ranges, LockInv
  <2>2. Informed'
    <3> SUFFICES ASSUME NEW v \in chans, ~missed[v], NEW n \in Names
                 PROVE  IF lock # None /\ n = NsOf[lock[1]] THEN KnowsOfPush(v, lock)'
                        ELSE Agrees(v, n, n \in DOMAIN spaces)'
      BY <1>2, <1>8 DEF Informed
    <3>1. v \in Watchers
      BY <1>1 DEF Shape
    <3>2. \A t : Latest(buffer[v], told[v], n, t)' <=> Latest(buffer[v], told[v], n, t)
      <4>1. CASE v # w
        BY <1>2, <1>4, <3>1, <4>1, AgreesFrame
      <4>2. CASE v = w
        <5>1. \A t : Latest(Tail(buffer[w]), AfterTold(told[w], e), n, t) <=> Latest(buffer[w], told[w], n, t)
          BY <1>2, <1>3, LatestTail
        <5> QED BY <1>4, <4>2, <5>1
      <4> QED BY <4>1, <4>2
    <3>3. \A there : Agrees(v, n, there)' <=> Agrees(v, n, there)
      BY <1>2, <3>2 DEF Agrees
    <3>4. IF lock # None /\ n = NsOf[lock[1]] THEN KnowsOfPush(v, lock) ELSE Agrees(v, n, n \in DOMAIN spaces)
      BY <1>1 DEF Informed
    <3>5. CASE lock # None /\ n = NsOf[lock[1]]
      BY <1>2, <1>8, <3>2, <3>3, <3>4, <3>5 DEF KnowsOfPush
    <3>6. CASE ~(lock # None /\ n = NsOf[lock[1]])
      BY <1>2, <3>3, <3>4, <3>6 DEF Agrees
    <3> QED BY <3>5, <3>6
  <2>3. ASSUME ~env.overtaking PROVE InTurn' /\ Counts'
    BY <1>1, <1>2, <1>8, <2>3, CountsFrame DEF IInv
  <2> QED BY <1>2, <1>6, <2>1, <2>2, <2>3 DEF IInv
<1> QED BY <1>2, <1>7, <1>8

LEMMA EndsStep ==
    ASSUME IInv, NEW w \in Watchers, WatchEnds(w)
    PROVE  IInv'
<1>1. Shape
  BY DEF IInv
<1>2. /\ removeStateEventChan(w) /\ buffer' = [buffer EXCEPT ![w] = <<>>]
      /\ UNCHANGED <<env, live, spaces, lock, told, snap, missed>>
  BY DEF WatchEnds
<1>3. \A v \in Watchers : buffer'[v] = IF v = w THEN <<>> ELSE buffer[v]
  BY <1>1, <1>2 DEF Shape
<1>4. <<>> \in Seq(Events) /\ Len(<<>>) <= BufferSize
  BY StateAssumption
<1>5. Shape'
  <2>1. buffer' \in [Watchers -> Seq(Events)] /\ \A v \in Watchers : Len(buffer'[v]) <= BufferSize
    BY <1>1, <1>2, <1>3, <1>4 DEF Shape
  <2>2. pushes' \in [Pushes -> Progress] /\ chans' \subseteq Watchers
    BY <1>1, <1>2, RemovedShape
  <2> QED BY <1>1, <1>2, <2>1, <2>2 DEF Shape
<1> QED BY <1>2, <1>3, <1>5, RemoveStep

\* A client is given the namespaces, at a moment at which no push holds the lock.
LEMMA GetStateStep ==
    ASSUME IInv, NEW w \in Watchers, GetState(w)
    PROVE  IInv'
<1>1. Shape /\ Ranges /\ LockInv /\ Informed
  BY DEF IInv
<1>2. /\ lock = None /\ snap[w] = None /\ snap' = [snap EXCEPT ![w] = DOMAIN spaces]
      /\ UNCHANGED <<env, live, spaces, lock, pushes, chans, buffer, told, missed>>
  BY DEF GetState
<1>3. Shape'
  BY <1>1, <1>2 DEF Shape
<1>4. Ranges' /\ LockInv'
  BY <1>1, <1>2 DEF Ranges, LockInv
<1>5. Informed'
  <2> SUFFICES ASSUME NEW v \in chans, ~missed[v], NEW n \in Names
               PROVE  Agrees(v, n, n \in DOMAIN spaces)'
    BY <1>2 DEF Informed
  <2>1. v \in Watchers /\ Agrees(v, n, n \in DOMAIN spaces)
    BY <1>1, <1>2 DEF Informed, Shape
  <2>2. snap'[v] = IF v = w THEN DOMAIN spaces ELSE snap[v]
    BY <1>1, <1>2, <2>1 DEF Shape
  <2> QED BY <1>2, <2>1, <2>2 DEF Agrees
<1>6. ASSUME ~env.overtaking PROVE InTurn' /\ Counts'
  BY <1>1, <1>2, <1>6, CountsFrame DEF IInv
<1> QED BY <1>2, <1>3, <1>4, <1>5, <1>6 DEF IInv

LEMMA UnchangedStep ==
    ASSUME IInv, UNCHANGED <<env, live, spaces, lock, pushes, clients>>
    PROVE  IInv'
<1>1. Shape' /\ Ranges' /\ LockInv'
  BY DEF IInv, Shape, Ranges, LockInv, clients
<1>2. Informed'
  BY InformedFrame DEF IInv, clients
<1>3. ASSUME ~env.overtaking PROVE InTurn' /\ Counts'
  BY <1>3, CountsFrame DEF IInv
<1> QED BY <1>1, <1>2, <1>3 DEF IInv

LEMMA NextInv == IInv /\ [Next]_vars => IInv'
<1> SUFFICES ASSUME IInv, [Next]_vars PROVE IInv'
  OBVIOUS
<1>1. CASE \E k \in Conts : Started(k) \/ Died(k) \/ Removed(k)
  BY <1>1, HandledStep
<1>2. CASE \E p \in Pushes : PushStep(p)
  BY <1>2, CountStep, VisitStep, PushToStep, RangeDoneStep DEF PushStep
<1>3. CASE \E w \in Watchers : addStateEventChan(w) \/ WatchState(w) \/ WatchEnds(w) \/ GetState(w)
  BY <1>3, AddStep, WatchStep, EndsStep, GetStateStep
<1>4. CASE DestroyStateAgent
  BY <1>4, UnchangedStep DEF DestroyStateAgent
<1>5. CASE UNCHANGED vars
  BY <1>5, UnchangedStep DEF vars, clients
<1> QED BY <1>1, <1>2, <1>3, <1>4, <1>5 DEF Next

LEMMA Invariant == Spec => []IInv
  BY InitInv, NextInv, PTL DEF Spec
------------------------------------------------------------------------------
\* The count of a namespace is the number of its containers whose addition has been counted
\* and whose removal has not, and namespaces without any are not listed, however the pushes
\* of different containers interleave (PushContainerEvent).
THEOREM NamespacesCounted == Spec => []CountsRight
<1>1. IInv => CountsRight
  <2> SUFFICES ASSUME IInv PROVE CountsRight
    OBVIOUS
  <2>1. TypeOK
    BY DEF IInv, Shape, TypeOK, Progress
  <2>2. ASSUME ~env.overtaking, lock = None, NEW n \in Names
        PROVE  IF n \in DOMAIN spaces THEN spaces[n] = Cardinality(Present(n)) /\ spaces[n] # 0
               ELSE Present(n) = {}
    BY <2>2 DEF IInv, LockInv, Counts
  <2> QED BY <2>1, <2>2 DEF CountsRight
<1> QED BY <1>1, Invariant, PTL

\* A client that watches, has asked for the state and missed no event knows which
\* namespaces there are, whatever pushes, clients and state requests interleave
\* (PushNamespaceEvent, WatchState, GetState).
THEOREM ClientsKnowNamespaces == Spec => []ClientKnowsNamespaces
<1>1. IInv => ClientKnowsNamespaces
  <2> SUFFICES ASSUME IInv, NEW w \in chans, ~missed[w], snap[w] # None, lock = None, NEW n \in Names
               PROVE  Knows(w, n) <=> n \in DOMAIN spaces
    BY DEF ClientKnowsNamespaces
  <2>1. Agrees(w, n, n \in DOMAIN spaces) /\ buffer[w] \in Seq(Events)
    BY DEF IInv, Informed, Shape
  <2> QED BY <2>1, LatestUnique DEF Agrees, Knows
<1> QED BY <1>1, Invariant, PTL
==============================================================================
