------------------------------ MODULE MCMonitor ------------------------------
(***************************************************************************)
(* A container, one of an untracked namespace and the host; two pids, two   *)
(* programs, short queues.                                                  *)
(***************************************************************************)
EXTENDS Monitor

Execs == {"SysExecve"}
Around(faults, calls, execs, events, procs) ==
    [faults |-> faults, calls |-> calls, execs |-> execs, events |-> events, procs |-> procs,
     forms |-> CASE execs # Execs -> Forms [] "execfail" \in faults -> {"absolute", "root"} [] OTHER -> {"absolute"}]

\* The surroundings of a behaviour: what may go wrong, one thing at a time.
Surroundings ==
    {Around({}, DOMAIN KernelArgs, {}, 1, 1),
     Around({}, {"SysOpen"}, {"SysExecveAt"}, 4, 1),
     Around({"reuse"}, {"SysOpen"}, Execs, 5, 3),
     Around({"execfail"}, {"SysOpen"}, Execs, 4, 1),
     Around({"late"}, {"SysOpen"}, Execs, 3, 1),
     Around({"lost"}, {"SysOpen"}, Execs, 4, 1),
     Around({"stop", "init"}, {"SysOpen"}, {}, 4, 1)}

\* The first process has the first pid, runs the first program, and is a
\* container's where programs are executed.
MCInit ==
    /\ env \in Surroundings
    /\ Init
    /\ life[1].pid = CHOOSE p \in Pids : TRUE
    /\ life[1].cont = Host => Cardinality(env.execs) = 0
    /\ life[1].cont \in Untracked => env.events = 1
    /\ life[1].ran = <<CHOOSE p \in Programs : TRUE>>
MCSpec == MCInit /\ [][Next]_vars /\ Fairness
==============================================================================
