-------------------------- MODULE MCAlertThrottle --------------------------
(* Small instances of AlertThrottle. *)
EXTENDS AlertThrottle

CONSTANTS feeder, bpf, k1, k2
Roomy == [s \in Sites |-> 2]

VARIABLE followed

\* The tables share the settings and the passing of time and nothing else, so a behaviour
\* follows the alerts of one of them, and the clock of that one may be set back.
FollowedInit == Init /\ followed \in Sites

FollowedNext ==
  /\ Next
  /\ \A s \in Sites \ {followed} :
       /\ <<tracked[s], AlertMap[s]>>' = <<tracked[s], AlertMap[s]>>
       /\ clock'[s] >= clock[s]
  /\ UNCHANGED followed
============================================================================
