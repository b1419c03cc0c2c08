------------------------------ MODULE StateAgent -----------------------------
(***************************************************************************)
(* The state agent (KubeArmor/state), which tells its clients about the     *)
(* containers of a node without Kubernetes and their namespaces.            *)
(*                                                                         *)
(* The runtime handlers start PushContainerEvent in a goroutine of its own *)
(* for every change.  A push updates the namespace's container count, and  *)
(* tells the namespace's own event, under KubeArmorNamespacesLock; then it  *)
(* tells the container's event.  Telling goes through StateEventChans one   *)
(* client after the other and holds no lock: WatchState enters and removes  *)
(* clients meanwhile.  An event is a record of kind, name and type.         *)
(***************************************************************************)
EXTENDS Integers, Sequences, FiniteSets

CONSTANTS
    Conts,      \* containers
    Names,      \* namespaces
    NsOf,       \* the namespace of a container
    Watchers,   \* clients
    BufferSize, \* stateEventBufferSize
    Scenarios,  \* the circumstances considered
    None

VARIABLES
    env,        \* the scenario: the containers that start and that die, the clients,
                \* and whether a push may overtake the earlier push for its container
    live,       \* live[k]: what the runtime handler has seen of container k
    spaces,     \* KubeArmorNamespaces: the container counts of the namespaces
    lock,       \* the push that holds KubeArmorNamespacesLock
    pushes,     \* pushes[p]: the pushes in progress; p = <<container, event>>
    chans,      \* StateEventChans: the clients entered
    buffer,     \* buffer[w]: the client's channel
    told,       \* told[w][n]: the last event about namespace n sent to the client
    snap,       \* snap[w]: the namespaces GetState gave the client
    missed,     \* missed[w]: an event was not told to the client (history)
    active,     \* sa.Running
    crashed     \* a send on a closed channel, or the runtime's map check, ended the daemon

vars == <<env, live, spaces, lock, pushes, chans, buffer, told, snap, missed, active, crashed>>
clients == <<chans, buffer, told, snap, missed>>

Event(kind, name, type) == [kind |-> kind, name |-> name, type |-> type]
Types == {"added", "updated", "deleted"}
Pushes == Conts \X Types
Closed == "closed"

\* None stands for no push and no client, and a closed channel is no client's.
ASSUME StateAssumption ==
    /\ IsFiniteSet(Conts) /\ NsOf \in [Conts -> Names] /\ BufferSize \in Nat
    /\ None \notin Pushes \cup Watchers /\ Closed \notin Watchers /\ None # Closed
    /\ \A s \in Scenarios : s.overtaking \in BOOLEAN

\* A push: where it is, the clients of the range still to come and done, and the
\* client it is about to send to.
Idle == [pc |-> "none", left |-> {}, done |-> {}, to |-> None]
Telling(pc) == [pc |-> pc, left |-> chans, done |-> {}, to |-> None]

Init ==
    /\ env \in Scenarios
    /\ live = [k \in Conts |-> "unborn"]
    /\ spaces = [n \in {} |-> 0]
    /\ lock = None
    /\ pushes = [p \in Pushes |-> Idle]
    /\ chans = {}
    /\ buffer = [w \in Watchers |-> <<>>]
    /\ told = [w \in Watchers |-> [n \in Names |-> "nothing"]]
    /\ snap = [w \in Watchers |-> None]
    /\ missed = [w \in Watchers |-> FALSE]
    /\ active = TRUE /\ crashed = FALSE

------------------------------------------------------------------------------
\* Runtime handlers.

\* A start, die or destroy event: the handler starts the push and goes on.
Handled(k, from, to, event) ==
    /\ ~crashed /\ live[k] \in from
    /\ env.overtaking \/ \A p \in Pushes : p[1] = k => pushes[p].pc = "none"
    /\ pushes[<<k, event>>].pc = "none"
    /\ live' = [live EXCEPT ![k] = to]
    /\ pushes' = [pushes EXCEPT ![<<k, event>>] = [Idle EXCEPT !.pc = "begin"]]
    /\ UNCHANGED <<env, spaces, lock, clients, active, crashed>>

Started(k) == k \in env.start /\ Handled(k, {"unborn"}, "running", "added")
Died(k) == k \in env.die /\ Handled(k, {"running"}, "waiting", "updated")
Removed(k) == Handled(k, {"running", "waiting"}, "gone", "deleted")

------------------------------------------------------------------------------
\* The pushes.

\* Mutant: a namespace is created for every container.
CountedAlways(n, event) ==
    IF event = "added" THEN [m \in DOMAIN spaces \cup {n} |-> IF m = n THEN 1 ELSE spaces[m]]
    ELSE IF event = "deleted" /\ n \in DOMAIN spaces THEN [spaces EXCEPT ![n] = @ - 1]
    ELSE spaces

\* KubeArmorNamespaces after the first half of a push: a namespace whose count
\* has come to zero is still there.
Counted(n, event) ==
    IF event = "added" /\ n \notin DOMAIN spaces
    THEN [m \in DOMAIN spaces \cup {n} |-> IF m = n THEN 1 ELSE spaces[m]]
    ELSE IF event = "added" THEN [spaces EXCEPT ![n] = @ + 1]
    ELSE IF event = "deleted" /\ n \in DOMAIN spaces THEN [spaces EXCEPT ![n] = @ - 1]
    ELSE spaces

\* The lock is taken and the container counted; the namespace's own event is told
\* when the namespace is new or empty.
CountNamespace(p) ==
    LET n == NsOf[p[1]]
        after == Counted(n, p[2])
        tell == n \in DOMAIN after /\ (n \notin DOMAIN spaces \/ (p[2] = "deleted" /\ after[n] = 0))
    IN  /\ ~crashed /\ pushes[p].pc = "begin" /\ lock = None
        /\ spaces' = after
        /\ lock' = IF tell THEN p ELSE None
        /\ pushes' = [pushes EXCEPT ![p] = IF tell THEN Telling("namespace") ELSE Telling("container")]
        /\ UNCHANGED <<env, live, clients, active, crashed>>

\* The event a push is telling.
Told(p) ==
    IF pushes[p].pc = "namespace" THEN Event("namespace", NsOf[p[1]], p[2])
    ELSE Event("container", p[1], p[2])

\* A client of the range over StateEventChans.
Visit(p, among) ==
    /\ ~crashed /\ pushes[p].pc \in {"namespace", "container"} /\ pushes[p].to = None
    /\ \E w \in among :
        pushes' = [pushes EXCEPT ![p].to = w, ![p].done = @ \cup {w}, ![p].left = @ \ {w}]
    /\ UNCHANGED <<env, live, spaces, lock, clients, active, crashed>>

\* One of those that were there when it began, or one entered since, which a range
\* over a map may visit or not.
NextClient(p) == Visit(p, pushes[p].left)
LateClient(p) == Visit(p, chans \ (pushes[p].left \cup pushes[p].done))

\* The range is over or was left: PushNamespaceEvent returns to PushContainerEvent,
\* which deletes an empty namespace and releases the lock; the container's event
\* ends the push.
Finished(p) ==
    IF pushes[p].pc = "container"
    THEN pushes' = [pushes EXCEPT ![p] = Idle] /\ UNCHANGED <<spaces, lock>>
    ELSE /\ pushes' = [pushes EXCEPT ![p] = Telling("container")]
         /\ spaces' = [m \in {x \in DOMAIN spaces : x # NsOf[p[1]] \/ spaces[x] # 0} |-> spaces[m]]
         /\ lock' = None

\* Mutant: the send waits for room.
PushToWaits(p) ==
    LET w == pushes[p].to
    IN  /\ ~crashed /\ w # None
        /\ \/ /\ w = Closed
              /\ crashed' = TRUE
              /\ UNCHANGED <<env, live, spaces, lock, pushes, clients, active>>
           \/ /\ w # Closed /\ Len(buffer[w]) < BufferSize
              /\ buffer' = [buffer EXCEPT ![w] = Append(@, Told(p))]
              /\ pushes' = [pushes EXCEPT ![p].to = None]
              /\ UNCHANGED <<env, live, spaces, lock, chans, told, snap, missed, active, crashed>>

\* The send does not wait; the first full channel ends the range, so that the
\* clients after it are not told either.
PushTo(p) ==
    LET w == pushes[p].to
    IN  /\ ~crashed /\ w # None
        /\ \/ /\ w = Closed
              /\ crashed' = TRUE
              /\ UNCHANGED <<env, live, spaces, lock, pushes, clients, active>>
           \/ /\ w # Closed /\ Len(buffer[w]) < BufferSize
              /\ buffer' = [buffer EXCEPT ![w] = Append(@, Told(p))]
              /\ pushes' = [pushes EXCEPT ![p].to = None]
              /\ UNCHANGED <<env, live, spaces, lock, chans, told, snap, missed, active, crashed>>
           \/ /\ w # Closed /\ Len(buffer[w]) = BufferSize
              /\ missed' = [v \in Watchers |-> missed[v] \/ v = w \/ v \in chans \ pushes[p].done]
              /\ Finished(p)
              /\ UNCHANGED <<env, live, chans, buffer, told, snap, active, crashed>>

\* Every client the range has to visit has been.
RangeDone(p) ==
    /\ ~crashed /\ pushes[p].pc \in {"namespace", "container"} /\ pushes[p].to = None
    /\ pushes[p].left = {}
    /\ Finished(p)
    /\ UNCHANGED <<env, live, clients, active, crashed>>

------------------------------------------------------------------------------
\* The clients.

\* Some push is in its range over StateEventChans: the runtime may notice that the
\* map is changed under it.
Ranging == \E p \in Pushes : pushes[p].pc \in {"namespace", "container"}

\* WatchState enters the client.
addStateEventChan(w) ==
    /\ ~crashed /\ w \in env.watch \ chans
    /\ chans' = chans \cup {w}
    /\ buffer' = [buffer EXCEPT ![w] = <<>>]
    /\ told' = [told EXCEPT ![w] = [n \in Names |-> "nothing"]]
    /\ snap' = [snap EXCEPT ![w] = None]
    /\ missed' = [missed EXCEPT ![w] = FALSE]
    /\ crashed' \in IF Ranging THEN BOOLEAN ELSE {FALSE}
    /\ UNCHANGED <<env, live, spaces, lock, pushes, active>>

\* WatchState ends: the channel is closed and removed in one step; a push that was
\* about to send to it still has the channel.
removeStateEventChan(w) ==
    /\ chans' = chans \ {w}
    /\ pushes' = [p \in Pushes |-> [pushes[p] EXCEPT !.left = @ \ {w}, !.done = @ \ {w},
                                                     !.to = IF @ = w THEN Closed ELSE @]]
    /\ crashed' \in IF Ranging THEN BOOLEAN ELSE {FALSE}

\* WatchState sends the client the next event of its channel and looks at Running.
WatchState(w) ==
    /\ ~crashed /\ w \in chans /\ buffer[w] # <<>>
    /\ LET e == Head(buffer[w])
       IN  told' = IF e.kind = "namespace" THEN [told EXCEPT ![w][e.name] = e.type] ELSE told
    /\ buffer' = [buffer EXCEPT ![w] = Tail(@)]
    /\ IF active THEN UNCHANGED <<chans, pushes, crashed>> ELSE removeStateEventChan(w)
    /\ UNCHANGED <<env, live, spaces, lock, snap, missed, active>>

\* The client has gone, a send failed, or Running was false from the start.
WatchEnds(w) ==
    /\ ~crashed /\ w \in chans
    /\ removeStateEventChan(w)
    /\ buffer' = [buffer EXCEPT ![w] = <<>>]
    /\ UNCHANGED <<env, live, spaces, lock, told, snap, missed, active>>

\* Mutant: the namespaces are read without the lock.
GetStateUnlocked(w) ==
    /\ ~crashed /\ w \in chans /\ snap[w] = None
    /\ snap' = [snap EXCEPT ![w] = DOMAIN spaces]
    /\ UNCHANGED <<env, live, spaces, lock, pushes, chans, buffer, told, missed, active, crashed>>

\* A client that is watching asks for the state: the namespaces are read under
\* their lock.
GetState(w) ==
    /\ ~crashed /\ w \in chans /\ snap[w] = None /\ lock = None
    /\ snap' = [snap EXCEPT ![w] = DOMAIN spaces]
    /\ UNCHANGED <<env, live, spaces, lock, pushes, chans, buffer, told, missed, active, crashed>>

\* Running becomes false; no client is told.
DestroyStateAgent ==
    /\ ~crashed /\ active /\ active' = FALSE
    /\ UNCHANGED <<env, live, spaces, lock, pushes, clients, crashed>>

PushStep(p) == CountNamespace(p) \/ NextClient(p) \/ LateClient(p) \/ PushTo(p) \/ RangeDone(p)

Next ==
    \/ \E k \in Conts : Started(k) \/ Died(k) \/ Removed(k)
    \/ \E p \in Pushes : PushStep(p)
    \/ \E w \in Watchers :
        addStateEventChan(w) \/ WatchState(w) \/ WatchEnds(w) \/ GetState(w)
    \/ DestroyStateAgent

\* Some goroutine of a push runs, and a range over a map ends whatever is added to
\* it meanwhile.
Fairness ==
    /\ WF_vars(\E p \in Pushes : PushStep(p))
    /\ SF_vars(\E p \in Pushes : CountNamespace(p) \/ NextClient(p) \/ RangeDone(p))
Spec == Init /\ [][Next]_vars
FairSpec == Spec /\ Fairness
------------------------------------------------------------------------------
\* A client's channel holds at most BufferSize events.
TypeOK ==
    /\ live \in [Conts -> {"unborn", "running", "waiting", "gone"}]
    /\ DOMAIN spaces \subseteq Names /\ \A n \in DOMAIN spaces : spaces[n] \in Int
    /\ lock \in Pushes \cup {None} /\ chans \subseteq Watchers
    /\ \A p \in Pushes : pushes[p].pc \in {"none", "begin", "namespace", "container"}
    /\ \A w \in Watchers : Len(buffer[w]) <= BufferSize

\* The containers whose addition has been counted and whose removal has not.
Present(n) ==
    {k \in Conts : /\ NsOf[k] = n /\ live[k] # "unborn"
                   /\ pushes[<<k, "added">>].pc # "begin"
                   /\ ~(live[k] = "gone" /\ pushes[<<k, "deleted">>].pc # "begin")}

\* The namespaces are those of the node's containers, with the right counts,
\* however the pushes interleave, as long as no push overtakes an earlier one for
\* the same container; and a client's channel holds at most BufferSize events.
CountsRight ==
    /\ TypeOK
    /\ ~env.overtaking /\ lock = None =>
        \A n \in Names : IF n \in DOMAIN spaces THEN spaces[n] = Cardinality(Present(n)) /\ spaces[n] # 0
                         ELSE Present(n) = {}

\* The events of a channel about namespace n, and the last word on it: that of the last of
\* these events, else what the client was told before.
About(channel, n) == {i \in DOMAIN channel : channel[i].kind = "namespace" /\ channel[i].name = n}
Latest(channel, before, n, type) ==
    IF About(channel, n) = {} THEN before[n] = type
    ELSE \E i \in About(channel, n) : channel[i].type = type /\ \A j \in About(channel, n) : j <= i

\* What a client that is watching and has asked for the state knows: the last
\* event it was told or will be told of the namespace, else what GetState said.
Knows(w, n) ==
    \/ Latest(buffer[w], told[w], n, "added")
    \/ Latest(buffer[w], told[w], n, "nothing") /\ n \in snap[w]

\* A client that watches, asks for the state and loses nothing knows the
\* namespaces: the events of the namespaces are told, and the state is read,
\* under the lock that orders their changes.
ClientKnowsNamespaces ==
    \A w \in chans : ~missed[w] /\ snap[w] # None /\ lock = None =>
        \A n \in Names : Knows(w, n) <=> n \in DOMAIN spaces

\* The pushes come to their end and the lock is free again: none waits for a
\* client, however slow.
PushesEnd ==
    (\E p \in Pushes : pushes[p].pc # "none") ~>
        (crashed \/ (lock = None /\ \A p \in Pushes : pushes[p].pc = "none"))
==============================================================================
