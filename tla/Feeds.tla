-------------------------------- MODULE Feeds --------------------------------
(***************************************************************************)
(* The gRPC feeds of the feeder (KubeArmor/feeder): PushLog and            *)
(* PushMessage broadcast to the channels of the clients of a feed, under   *)
(* the feed's lock and without waiting; each client's WatchMessages,       *)
(* WatchAlerts or WatchLogs sends what its channel holds.                  *)
(*                                                                         *)
(* PushLog is called in a goroutine of its own for every log, so logs are  *)
(* published in any order.  A stream that ends closes its channel first    *)
(* and removes it from the map afterwards, under the lock.                 *)
(*                                                                         *)
(* An event is its number on its feed; which policy a log matches is       *)
(* PolicyMatcher's subject and whether an alert is throttled that of       *)
(* AlertThrottle: here both are given with the log.                        *)
(***************************************************************************)
EXTENDS Integers, Sequences, FiniteSets

CONSTANTS
    Clients,    \* clients of the feeds
    FeedOf,     \* the feed a client watches
    QueueSize,  \* capacity of a client's channel
    Debug,      \* whether messages are pushed at all
    LogKinds,   \* the logs the monitor makes
    MaxLogs     \* bound on the logs and messages of a behaviour

FeedNames == {"message", "alert", "log"}
\* What PushLog looks at once a log has been matched.
Logs == [type : {"", "ContainerLog", "HostLog", "MatchedPolicy", "MatchedHostPolicy", "SystemEvent"},
         source : BOOLEAN, throttled : {"no", "drop", "threshold"}]

ASSUME FeedsAssumption ==
    /\ FeedOf \in [Clients -> FeedNames] /\ QueueSize \in Nat \ {0}
    /\ Debug \in BOOLEAN /\ MaxLogs \in Nat /\ LogKinds \subseteq Logs

VARIABLES
    pending,    \* logs whose PushLog has not run yet
    made,       \* logs and messages made so far
    count,      \* count[f]: events broadcast on feed f
    stream,     \* stream[c]: state of the client's Watch call
    queue,      \* queue[c]: the client's channel
    got,        \* got[c]: where the subscription began, then the events the client got
    running,    \* fd.Running
    missed,     \* missed[c]: the client's full channel has lost an event (history)
    panicked    \* a send on a closed channel has ended the daemon

vars == <<pending, made, count, stream, queue, got, missed, running, panicked>>
clients == <<stream, queue, got, missed>>

Streams == {"idle", "open", "closing", "closed"}

IsAlert(log) == log.type \in {"MatchedPolicy", "MatchedHostPolicy", "SystemEvent"}

Init ==
    /\ pending = {} /\ made = 0
    /\ count = [f \in FeedNames |-> 0]
    /\ stream = [c \in Clients |-> "idle"]
    /\ queue = [c \in Clients |-> <<>>]
    /\ got = [c \in Clients |-> <<0>>]
    /\ missed = [c \in Clients |-> FALSE]
    /\ running = TRUE /\ panicked = FALSE

\* The map of a feed's channels: a closed channel stays in it until it is removed.
Structs(f) == {c \in Clients : FeedOf[c] = f /\ stream[c] # "idle"}

\* Mutant: the last place of a channel is not used.
SentOffByOne(c, f) ==
    IF c \in Structs(f) /\ Len(queue[c]) + 1 < QueueSize THEN Append(queue[c], count[f] + 1) ELSE queue[c]

\* The channel after a send that does not wait: a full one loses the event.
Sent(c, f) ==
    IF c \in Structs(f) /\ Len(queue[c]) < QueueSize THEN Append(queue[c], count[f] + 1) ELSE queue[c]

\* The event goes to every channel of the map; a closed one panics.
Broadcast(f) ==
    IF \E c \in Structs(f) : stream[c] = "closed"
    THEN panicked' = TRUE /\ UNCHANGED <<count, queue, missed>>
    ELSE /\ count' = [count EXCEPT ![f] = @ + 1]
         /\ queue' = [c \in Clients |-> Sent(c, f)]
         /\ missed' = [c \in Clients |-> missed[c] \/ (c \in Structs(f) /\ Len(queue[c]) = QueueSize)]
         /\ UNCHANGED panicked

\* Whether PushLog has no message to push before it publishes the log: that the log has
\* no source is told in debug mode.
NothingToTell(log) == log.source \/ log.type = "" \/ ~Debug

\* The monitor starts PushLog for a log.
Log(log) ==
    /\ ~panicked /\ made < MaxLogs
    /\ made' = made + 1
    /\ pending' = pending \cup {[id |-> made, log |-> log, told |-> NothingToTell(log)]}
    /\ UNCHANGED <<count, clients, running, panicked>>

\* An alert may be dropped by the throttle; one that reaches the threshold is
\* published as a SystemEvent.
PushAlert(log) ==
    IF log.throttled = "drop" THEN UNCHANGED <<count, queue, missed, panicked>> ELSE Broadcast("alert")
\* All other logs.
PushTelemetry == Broadcast("log")

\* PushLog first tells of a log without source, in a message ...
PushSourceless(p) ==
    /\ ~panicked /\ ~p.told
    /\ pending' = (pending \ {p}) \cup {[p EXCEPT !.told = TRUE]}
    /\ Broadcast("message")
    /\ UNCHANGED <<made, stream, got, running>>

\* ... and publishes the log, or drops it if it has neither source nor type.
PushLog(p) ==
    /\ ~panicked /\ p.told /\ pending' = pending \ {p}
    /\ \/ ~p.log.source /\ p.log.type = "" /\ UNCHANGED <<count, queue, missed, panicked>>
       \/ (p.log.source \/ p.log.type # "") /\ IsAlert(p.log) /\ PushAlert(p.log)
       \/ (p.log.source \/ p.log.type # "") /\ ~IsAlert(p.log) /\ PushTelemetry
    /\ UNCHANGED <<made, stream, got, running>>

\* PushMessage does nothing outside debug mode.
PushMessage ==
    /\ ~panicked /\ Debug /\ made < MaxLogs
    /\ made' = made + 1
    /\ Broadcast("message")
    /\ UNCHANGED <<pending, stream, got, running>>

\* A client calls Watch...: its channel is made and entered into the map.
Subscribed(c) ==
    /\ ~panicked /\ stream[c] = "idle"
    /\ stream' = [stream EXCEPT ![c] = IF running THEN "open" ELSE "closing"]
    /\ queue' = [queue EXCEPT ![c] = <<>>]
    /\ got' = [got EXCEPT ![c] = <<count[FeedOf[c]]>>]
    /\ missed' = [missed EXCEPT ![c] = FALSE]
    /\ UNCHANGED <<pending, made, count, running, panicked>>

WatchMessages(c) == FeedOf[c] = "message" /\ Subscribed(c)
\* A filter other than "all" and "policy", or "system", ends the call at once.
WatchAlerts(c) == FeedOf[c] = "alert" /\ Subscribed(c)
WatchLogs(c) == FeedOf[c] = "log" /\ Subscribed(c)

\* Mutant: the newest event is taken.
TakenSwapped(c) == queue[c][Len(queue[c])]

\* The event a stream receives.
Taken(c) == Head(queue[c])

\* Mutant: the stream does not receive once Running is false.
ReceivesRunning(c) == ~panicked /\ running /\ stream[c] = "open" /\ queue[c] # <<>>

\* The stream waits for an event in its channel, whatever Running says meanwhile.
Receives(c) == ~panicked /\ stream[c] = "open" /\ queue[c] # <<>>

\* It receives an event and sends it; Running is looked at between events.
Send(c) ==
    /\ Receives(c)
    /\ queue' = [queue EXCEPT ![c] = Tail(@)]
    /\ \/ /\ got' = [got EXCEPT ![c] = Append(@, Taken(c))]
          /\ stream' = [stream EXCEPT ![c] = IF running THEN "open" ELSE "closing"]
       \/ stream' = [stream EXCEPT ![c] = "closing"] /\ UNCHANGED got
    /\ UNCHANGED <<pending, made, count, missed, running, panicked>>

\* The client has gone.
Done(c) ==
    /\ ~panicked /\ stream[c] = "open"
    /\ stream' = [stream EXCEPT ![c] = "closing"]
    /\ UNCHANGED <<pending, made, count, queue, got, missed, running, panicked>>

\* The deferred function: close(conn), not under the feed's lock ...
CloseConn(c) ==
    /\ ~panicked /\ stream[c] = "closing"
    /\ stream' = [stream EXCEPT ![c] = "closed"]
    /\ UNCHANGED <<pending, made, count, queue, got, missed, running, panicked>>

\* ... and then Remove...Struct, under it.
RemoveStruct(c) ==
    /\ ~panicked /\ stream[c] = "closed"
    /\ stream' = [stream EXCEPT ![c] = "idle"]
    /\ queue' = [queue EXCEPT ![c] = <<>>]
    /\ got' = [got EXCEPT ![c] = <<0>>]
    /\ UNCHANGED <<pending, made, count, missed, running, panicked>>

\* DestroyFeeder: the streams are not told.
DestroyFeeder ==
    /\ ~panicked /\ running
    /\ running' = FALSE
    /\ UNCHANGED <<pending, made, count, clients, panicked>>

Next ==
    \/ \E log \in LogKinds : Log(log)
    \/ \E p \in pending : PushSourceless(p) \/ PushLog(p)
    \/ PushMessage \/ DestroyFeeder
    \/ \E c \in Clients :
        \/ WatchMessages(c) \/ WatchAlerts(c) \/ WatchLogs(c)
        \/ Send(c) \/ Done(c) \/ CloseConn(c) \/ RemoveStruct(c)

\* The goroutine of a stream runs.
Fairness == \A c \in Clients : WF_vars(Send(c) \/ CloseConn(c) \/ RemoveStruct(c))

Spec == Init /\ [][Next]_vars
FairSpec == Spec /\ Fairness
------------------------------------------------------------------------------
\* A channel holds numbers of events of its feed and never more than QueueSize.
TypeOK ==
    /\ made \in 0 .. MaxLogs /\ pending \subseteq [id : 0 .. MaxLogs, log : LogKinds, told : BOOLEAN]
    /\ count \in [FeedNames -> Nat]
    /\ stream \in [Clients -> Streams] /\ got \in [Clients -> Seq(Nat)]
    /\ \A c \in Clients : queue[c] \in Seq(Nat) /\ Len(queue[c]) <= QueueSize
    /\ missed \in [Clients -> BOOLEAN] /\ running \in BOOLEAN /\ panicked \in BOOLEAN

LastGot(c) == got[c][Len(got[c])]

\* A client that reads fast enough misses nothing: unless its channel was full at
\* a broadcast, the channel of an open stream holds exactly the events after the
\* last one the client got.  The only losses are the ones the select's default
\* branch reports.
NothingMissed ==
    \A c \in Clients : stream[c] = "open" /\ ~missed[c] =>
        /\ Len(queue[c]) = count[FeedOf[c]] - LastGot(c)
        /\ \A i \in 1 .. Len(queue[c]) : queue[c][i] = LastGot(c) + i

\* The feeds keep the promise of FeedSpec: whatever streams end, whatever channels
\* are full and whenever DestroyFeeder comes, a client gets events of its feed in
\* the order of their publication, none twice and none from before it subscribed.
Promise == INSTANCE FeedSpec WITH
    Feeds <- FeedNames,
    seen <- [c \in Clients |-> IF stream[c] = "idle" THEN <<>> ELSE got[c]]
InOrder == Promise!Spec

\* What an open stream's channel holds is sent or the stream ends: DestroyFeeder
\* does not strand events in the channel of a client that goes on reading.
Delivered ==
    \A c \in Clients : (stream[c] = "open" /\ queue[c] # <<>>) ~>
        (panicked \/ stream[c] # "open" \/ queue[c] = <<>>)

\* A stream that has ended leaves the map, so that nothing is kept for clients
\* that are gone.
StreamsRemoved == \A c \in Clients : (stream[c] = "closing") ~> (panicked \/ stream[c] = "idle")

\* Streams go on until they end, and then they are gone (WatchMessages, WatchAlerts
\* and WatchLogs with their deferred functions).
StreamsServed == Delivered /\ StreamsRemoved
==============================================================================
