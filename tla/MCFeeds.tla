------------------------------- MODULE MCFeeds -------------------------------
(***************************************************************************)
(* One client of each feed, two of them at a time; channels of two events.  *)
(***************************************************************************)
EXTENDS Feeds, TLC

CONSTANTS c1, c2, c3

MCFeedOf == (c1 :> "alert") @@ (c2 :> "log") @@ (c3 :> "message")
MCLogKinds ==
    {[type |-> "MatchedPolicy", source |-> TRUE, throttled |-> "no"],
     [type |-> "MatchedHostPolicy", source |-> TRUE, throttled |-> "drop"],
     [type |-> "ContainerLog", source |-> FALSE, throttled |-> "no"],
     [type |-> "", source |-> FALSE, throttled |-> "no"]}

MCNext ==
    /\ Next
    /\ \E c \in Clients : stream'[c] = "idle"
MCSpec == Init /\ [][MCNext]_vars /\ Fairness
==============================================================================
