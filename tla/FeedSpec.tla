------------------------------- MODULE FeedSpec ------------------------------
(***************************************************************************)
(* What a log feed promises its clients (feeder/logServer.go): a client    *)
(* gets some of the events published while it is subscribed, each at most  *)
(* once and in the order of their publication.  Events may be missing; they *)
(* are numbered by feed.                                                   *)
(***************************************************************************)
EXTENDS Integers, Sequences

CONSTANTS Clients, Feeds, FeedOf

VARIABLES
    count,  \* count[f]: events published on feed f
    seen    \* seen[c]: the number of the event c's subscription came after, then
            \* the events c has got; empty when it is not subscribed

vars == <<count, seen>>

Init ==
    /\ count = [f \in Feeds |-> 0]
    /\ seen = [c \in Clients |-> <<>>]

Subscribe(c) ==
    /\ seen[c] = <<>>
    /\ seen' = [seen EXCEPT ![c] = <<count[FeedOf[c]]>>]
    /\ UNCHANGED count

Publish(f) ==
    /\ count' = [count EXCEPT ![f] = @ + 1]
    /\ UNCHANGED seen

Deliver(c) ==
    /\ seen[c] # <<>>
    /\ \E n \in (seen[c][Len(seen[c])] + 1) .. count[FeedOf[c]] :
        seen' = [seen EXCEPT ![c] = Append(@, n)]
    /\ UNCHANGED count

Leave(c) ==
    /\ seen' = [seen EXCEPT ![c] = <<>>]
    /\ UNCHANGED count

Next ==
    \/ \E c \in Clients : Subscribe(c) \/ Deliver(c) \/ Leave(c)
    \/ \E f \in Feeds : Publish(f)

Spec == Init /\ [][Next]_vars
==============================================================================
