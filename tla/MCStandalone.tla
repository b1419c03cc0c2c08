---------------------------- MODULE MCStandalone ---------------------------
(* The requests and the containers of Standalone, for TLC. *)
EXTENDS Integers

CONSTANTS c1, c2

ContainerPol(name, selector, rev) == [policyName |-> name, selector |-> {"ns"} \cup selector, rev |-> rev]
HostPol(name, selector, rev) == [policyName |-> name, selector |-> selector, rev |-> rev]

Send(kind, types, policies) == [kind : {kind}, type : types, policy : policies]

\* Policies by label, one of them in two versions, and a host policy that is changed to be
\* for another node.
LabelRequests ==
  Send("container", {"ADDED", "DELETED"}, {ContainerPol("p", {"app=x"}, 1), ContainerPol("r", {"app=y"}, 1)})
  \cup Send("container", {"ADDED"}, {ContainerPol("p", {"app=x"}, 2)})
  \cup Send("host", {"ADDED", "DELETED"}, {HostPol("h", {"host"}, 1)})
  \cup Send("host", {"ADDED"}, {HostPol("h", {"other"}, 2)})

\* One container has a label the other one has, and one more.
MCNames == [c \in {c1, c2} |-> IF c = c1 THEN "web" ELSE "db"]
MCLabels == [c \in {c1, c2} |-> IF c = c1 THEN {"app=x"} ELSE {"app=x", "app=y"}]
=============================================================================
