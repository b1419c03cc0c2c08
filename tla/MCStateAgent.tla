---------------------------- MODULE MCStateAgent -----------------------------
(***************************************************************************)
(* Two containers of a namespace and one client; one container and two      *)
(* clients; pushes for a container that overtake one another.  Channels of  *)
(* two events.                                                              *)
(***************************************************************************)
EXTENDS StateAgent, TLC

CONSTANTS k1, k2, n1, w1, w2

MCNsOf == (k1 :> n1) @@ (k2 :> n1)
MCScenarios ==
    {[overtaking |-> FALSE, start |-> {k1, k2}, die |-> {}, watch |-> {w1}],
     [overtaking |-> FALSE, start |-> {k1}, die |-> {}, watch |-> {w1, w2}],
     [overtaking |-> TRUE, start |-> {k1}, die |-> {k1}, watch |-> {w1}]}
==============================================================================
