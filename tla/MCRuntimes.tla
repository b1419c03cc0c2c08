----------------------------- MODULE MCRuntimes -----------------------------
EXTENDS Runtimes

CONSTANT Plain  \* a container not run by Kubernetes

MCPolicies == {[name |-> "p1", action |-> "Block"], [name |-> "p2", action |-> "Audit"]}

Config(runtime, k8s, preset, serial, plain, faults) ==
    [runtime |-> runtime, k8s |-> k8s, preset |-> preset, serial |-> serial,
     plain |-> plain, faults |-> faults]

\* Behaviours that follow a preset leave the namespace's visibility alone; it changes
\* twice with containerd.
Scenarios ==
    { Config("containerd", TRUE, "Exec", TRUE, {}, {}),
      Config("containerd", FALSE, "ProtectEnv", TRUE, {}, {}),
      Config("containerd", FALSE, "AnonMapExec", FALSE, {}, {}),
      Config("docker", FALSE, "FilelessExec", TRUE, {}, {}),
      Config("crio", TRUE, "ProtectProc", TRUE, {}, {"early"}),
      Config("nri", TRUE, "AnonMapExec", TRUE, {}, {}) }
    \cup {Config(r, TRUE, None, TRUE, {}, {}) :
             r \in {"containerd", "docker", "crio", "nri", "hook"}}
    \cup {Config("containerd", TRUE, None, TRUE, {}, {"early"}),
          Config("docker", TRUE, None, TRUE, Plain, {"fast"}),
          Config("crio", TRUE, None, TRUE, {}, {"early", "fast"}),
          Config("crio", TRUE, None, TRUE, {}, {"list"}),
          Config("nri", TRUE, None, TRUE, {}, {"early"}),
          Config("hook", TRUE, None, TRUE, {}, {"early"}),
          Config("hook", TRUE, None, TRUE, {}, {"fast"})}

MCInit == Init /\ config \in Scenarios
MCNext ==
    /\ Next
    /\ config.preset # None => announced' = None
    /\ config.preset # None \/ config.faults # {} => restarts' = 0
    /\ announced' = "b" => config.runtime = "containerd"
    /\ announced = "b" => announced' \in {"b", None}

MCSpec == MCInit /\ [][MCNext]_vars
=============================================================================
