------------------------------- MODULE Monitor -------------------------------
(***************************************************************************)
(* The system monitor (KubeArmor/monitor): from the events the kernel      *)
(* programs write into the perf buffer to the logs handed to the feeder.   *)
(*                                                                         *)
(* Three goroutines share the process tree: TraceSyscall takes events from *)
(* SyscallChannel, pairs the two events of an exec and passes the others   *)
(* on through ContextChan; UpdateLogs turns those into logs; every ten     *)
(* seconds CleanUpExitedHostPids removes the nodes of dead processes.      *)
(* Events of containers the daemon does not know yet are replayed.         *)
(*                                                                         *)
(* The kernel side is the processes (their pids, parents and programs) and *)
(* the events they cause.  A process is identified by its generation, the  *)
(* number of processes started before it, because its pid is used again.   *)
(* The perf buffer and SyscallChannel are one queue.                       *)
(***************************************************************************)
EXTENDS Integers, Sequences, FiniteSets, SequencesExt

CONSTANTS
    Pids,               \* pids of the host
    Containers,         \* containers other than the host
    Host,               \* the empty container ID
    None,               \* no program, no event, no log
    Untracked,          \* containers of the untracked namespaces
    Programs,           \* full paths of executables
    SyscallChannelSize, \* capacity of the perf buffer and SyscallChannel
    ContextChanSize,    \* capacity of ContextChan
    ReplayTries,        \* attempts of one replay
    MaxEvents           \* bound on the events of a behaviour

ASSUME BoundsAssumption ==
    /\ Untracked \subseteq Containers /\ Host \notin Containers
    /\ {SyscallChannelSize, ContextChanSize, ReplayTries, MaxEvents} \subseteq Nat \ {0}

VARIABLES
    env,        \* the calls of the processes and what may go wrong, fixed in a behaviour
    life,       \* life[g]: the pid, parent and programs of the g-th process
    task,       \* task[pid]: the process that has the pid, and its exec
    sent,       \* the events the processes have caused so far
    syscalls,   \* the perf buffer and SyscallChannel
    known,      \* containers in NsMap
    tree,       \* ActiveHostPidMap
    execLogMap, \* logs of execs that have not returned
    replays,    \* goroutines that replay an event
    hand,       \* the event TraceSyscall is about to pass on
    lock,       \* who holds MonitorLock
    contexts,   \* ContextChan
    mon,        \* the monitor: its state, its reader, its probes
    pushed,     \* logs given to PushLog
    copies      \* copies[id]: how often event id was logged

vars == <<env, life, task, sent, syscalls, known, tree, execLogMap, replays, hand,
          lock, contexts, mon, pushed, copies>>
kernel == <<life, task, sent>>
daemon == <<tree, execLogMap, replays, hand, lock, contexts, pushed, copies>>

Relative == "relative"      \* a path that does not start with a slash
Elsewhere == "/elsewhere"   \* the path of no program
NoPath == ""
Dead == [gen |-> 0, exec |-> None, call |-> None, checked |-> FALSE]

(***************************************************************************)
(* What the kernel programs send: the types of an event's arguments.       *)
(***************************************************************************)
KernelArgs ==
    [SysOpen |-> <<"str", "openFlags">>, SysOpenAt |-> <<"int", "str", "openFlags">>,
     SysUnlink |-> <<"int", "str">>, SysUnlinkAt |-> <<"int", "str", "unlinkAtFlag">>,
     SysRmdir |-> <<"str">>, SysChown |-> <<"str", "int", "int">>,
     SysFChownAt |-> <<"int", "str", "int", "int", "int">>,
     SysSetuid |-> <<"int">>, SysSetgid |-> <<"int">>,
     SysPtrace |-> <<"ptraceReq", "int", "str">>,
     SysMount |-> <<"str", "str", "str", "mountFlag", "str">>,
     SysUmount |-> <<"str", "umountFlag">>,
     SysSocket |-> <<"sockDom", "sockType", "int">>,
     SysConnect |-> <<"int", "sockAddr">>, SysAccept |-> <<"int", "sockAddr">>,
     SysBind |-> <<"int", "sockAddr">>, SysListen |-> <<"int", "int">>,
     TCPConnect |-> <<"str", "sockAddr">>, TCPConnectv6 |-> <<"str", "sockAddr">>,
     TCPAccept |-> <<"str", "sockAddr">>, TCPAcceptv6 |-> <<"str", "sockAddr">>,
     UDPSendMsg |-> <<"sockAddr", "udpMsg", "qtype">>]

\* A null address is counted as an argument and not written to the buffer.
Written(ev, null) ==
    IF null THEN SelectSeq(KernelArgs[ev], LAMBDA t : t # "sockAddr") ELSE KernelArgs[ev]

\* readArgFromBuff: the Go type an argument of the buffer becomes.
readArgFromBuff(t) ==
    CASE t = "int" -> "int32"
      [] t \in {"str", "openFlags", "unlinkAtFlag", "ptraceReq", "mountFlag", "umountFlag",
                "sockDom", "sockType", "udpMsg"} -> "string"
      [] t = "sockAddr" -> "map"
      [] t = "qtype" -> "uint16"
      [] OTHER -> "error"

\* GetArgs reads Argnum arguments and fails when the buffer ends before.
GetArgs(e) ==
    LET read == [i \in 1 .. Len(e.buffer) |-> readArgFromBuff(e.buffer[i])]
    IN  IF Len(e.buffer) < e.argnum \/ "error" \in Range(read) THEN None ELSE read

\* Mutant: unlink is expected to have the one argument unlink(2) has.
TracedArgsUnlink ==
    [SysOpen |-> 2, SysOpenAt |-> 3, SysUnlink |-> 1, SysUnlinkAt |-> 3, SysRmdir |-> 1,
     SysPtrace |-> 3, SysChown |-> 3, SysFChownAt |-> 5, SysSetuid |-> 1, SysSetgid |-> 1,
     SysMount |-> 5, SysUmount |-> 2]

\* The numbers of arguments TraceSyscall insists on, by event; the others pass.
TracedArgs ==
    [SysOpen |-> 2, SysOpenAt |-> 3, SysUnlink |-> 2, SysUnlinkAt |-> 3, SysRmdir |-> 1,
     SysPtrace |-> 3, SysChown |-> 3, SysFChownAt |-> 5, SysSetuid |-> 1, SysSetgid |-> 1,
     SysMount |-> 5, SysUmount |-> 2]
TracedNetArgs == [TCPConnect |-> 2, TCPAccept |-> 2, TCPConnectv6 |-> 2, UDPSendMsg |-> 3]

PassedOn(e, args) ==
    /\ e.ev \in DOMAIN TracedArgs => Len(args) = TracedArgs[e.ev]
    /\ e.ev \in DOMAIN TracedNetArgs => Len(args) = TracedNetArgs[e.ev]

\* What UpdateLogs reads: the number of arguments, and the type each is taken for.
FileReads ==
    [SysOpen |-> <<"string", "string">>, SysOpenAt |-> <<"int32", "string", "string">>,
     SysUnlink |-> <<"-", "string">>, SysUnlinkAt |-> <<"-", "string", "string">>,
     SysRmdir |-> <<"string">>, SysChown |-> <<"string", "int32", "int32">>,
     SysFChownAt |-> <<"-", "string", "int32", "int32", "int32">>]
SyscallReads ==
    [SysSetuid |-> <<"int32">>, SysSetgid |-> <<"int32">>,
     SysMount |-> <<"string", "string", "string", "int32", "string">>,
     SysUmount |-> <<"string", "int32">>]
ProcessReads == [SysPtrace |-> <<"string", "int32", "string">>]
NetworkReads ==
    [SysSocket |-> <<"string", "string", "int32">>,
     TCPConnect |-> <<"string", "map">>, TCPConnectv6 |-> <<"string", "map">>,
     TCPAccept |-> <<"string", "map">>, TCPAcceptv6 |-> <<"string", "map">>,
     SysConnect |-> <<"int32", "map">>, SysAccept |-> <<"int32", "map">>,
     SysBind |-> <<"int32", "map">>, SysListen |-> <<"int32", "-">>]
DnsReads == [UDPSendMsg |-> <<"map", "string", "uint16">>]

Operation(ev) ==
    CASE ev \in DOMAIN FileReads -> "File"
      [] ev \in DOMAIN SyscallReads -> "Syscall"
      [] ev \in DOMAIN ProcessReads -> "Process"
      [] OTHER -> "Network"
Reads(ev) ==
    CASE ev \in DOMAIN FileReads -> FileReads[ev]
      [] ev \in DOMAIN SyscallReads -> SyscallReads[ev]
      [] ev \in DOMAIN ProcessReads -> ProcessReads[ev]
      [] ev \in DOMAIN NetworkReads -> NetworkReads[ev]
      [] OTHER -> DnsReads[ev]

\* Arguments UpdateLogs takes for another type than they have and leaves empty.
Unread(ev, args) == {i \in 1 .. Len(args) : Reads(ev)[i] \notin {"-", args[i]}}

auditedSyscalls == {"SysRmdir", "SysUnlink", "SysChown", "SysSetuid", "SysSetgid",
                    "SysFChownAt", "SysUnlinkAt", "SysPtrace", "SysMount", "SysUmount"}
------------------------------------------------------------------------------
(***************************************************************************)
(* The processes of the node, and the events they cause.                   *)
(***************************************************************************)
Alive(pid) == task[pid].gen # 0
Proc(pid) == life[task[pid].gen]
Unused(pid) == \A g \in 1 .. Len(life) : life[g].pid # pid
Program(pid) == Last(Proc(pid).ran)
Readlink(pid) == IF pid \in Pids /\ Alive(pid) THEN Program(pid) ELSE NoPath

Event(pid, ev, arg, ret, buffer, argnum) ==
    [id |-> Len(sent) + 1, ev |-> ev, pid |-> pid, ppid |-> Proc(pid).ppid, cont |-> Proc(pid).cont,
     gen |-> task[pid].gen, at |-> Len(Proc(pid).ran),
     arg |-> arg, ret |-> ret, buffer |-> buffer, argnum |-> argnum]

\* The reader passes records on and skips the ones that only count losses.
Received(e) ==
    /\ Len(sent) < env.events
    /\ sent' = Append(sent, e)
    /\ \/ Len(syscalls) < SyscallChannelSize /\ syscalls' = Append(syscalls, e)
       \/ Len(syscalls) = SyscallChannelSize /\ "lost" \in env.faults /\ UNCHANGED syscalls

\* A process starts another; the pid may have been used before.
Fork(parent, pid) ==
    /\ Len(life) < env.procs
    /\ Alive(parent) /\ ~Alive(pid) /\ (Unused(pid) \/ "reuse" \in env.faults)
    /\ task[parent].exec = None
    /\ life' = Append(life, [pid |-> pid, ppid |-> parent, parent |-> task[parent].gen,
                             cont |-> Proc(parent).cont, ran |-> <<Program(parent)>>,
                             failed |-> FALSE])
    /\ task' = [task EXCEPT ![pid] = [Dead EXCEPT !.gen = Len(life) + 1]]
    /\ UNCHANGED <<env, sent, syscalls, known, mon, daemon>>

\* Running processes cause events only while the monitor's programs are loaded.
Traced(pid) == Alive(pid) /\ mon.state \in {"running", "stopping"} /\ mon.perf

\* How the caller gives the path: absolute, relative to the working directory ("root"
\* if that is the root), or relative to the directory of execveat's descriptor.
Forms == {"absolute", "cwd", "root", "dir"}

\* execve(path) or execveat(fd, path): the probe sends the path as the caller gave it.
ExecEnter(pid, call, path, form) ==
    /\ Traced(pid) /\ task[pid].exec = None /\ (form = "dir" => call = "SysExecveAt")
    /\ LET buffer == IF call = "SysExecve" THEN <<"str", "str">> ELSE <<"int", "str", "str", "str">>
       IN  Received(Event(pid, call, <<form, path>>, "", buffer, Len(buffer)))
    /\ task' = [task EXCEPT ![pid].exec = path, ![pid].call = call]
    /\ UNCHANGED <<env, life, known, mon, daemon>>

\* The bprm check sees the full path of the file to be executed.
ExecCheck(pid) ==
    /\ Traced(pid) /\ task[pid].exec # None /\ ~task[pid].checked
    /\ Received(Event(pid, "BprmCheck", task[pid].exec, "", <<"str">>, 1))
    /\ task' = [task EXCEPT ![pid].checked = TRUE]
    /\ UNCHANGED <<env, life, known, mon, daemon>>

\* The exec succeeds and the process runs the program.
ExecReturn(pid) ==
    /\ Traced(pid) /\ task[pid].checked
    /\ LET g == task[pid].gen
           e == Event(pid, task[pid].call, task[pid].exec, "Passed", <<>>, 0)
       IN  /\ Received([e EXCEPT !.at = @ + 1])
           /\ life' = [life EXCEPT ![g].ran = Append(@, task[pid].exec)]
           /\ task' = [task EXCEPT ![pid] = [Dead EXCEPT !.gen = g]]
    /\ UNCHANGED <<env, known, mon, daemon>>

\* The exec fails; the return probe is silent about files that do not exist.
ExecFail(pid) ==
    /\ Traced(pid) /\ task[pid].exec # None /\ "execfail" \in env.faults
    /\ task' = [task EXCEPT ![pid] = [Dead EXCEPT !.gen = task[pid].gen]]
    /\ \/ Received(Event(pid, task[pid].call, task[pid].exec, "Permission denied", <<>>, 0))
       \/ ~task[pid].checked /\ UNCHANGED <<sent, syscalls>>
    /\ life' = [life EXCEPT ![task[pid].gen].failed = TRUE]
    /\ UNCHANGED <<env, known, mon, daemon>>

\* Any other traced call; only events with an address may lack it.
Call(pid, ev, null) ==
    /\ Traced(pid) /\ task[pid].exec = None
    /\ null => "sockAddr" \in Range(KernelArgs[ev])
    /\ Received(Event(pid, ev, NoPath, "Passed", Written(ev, null), Len(KernelArgs[ev])))
    /\ UNCHANGED <<env, life, task, known, mon, daemon>>

\* The process exits.
Exit(pid) ==
    /\ Traced(pid) /\ task[pid].exec = None
    /\ Received(Event(pid, "DoExit", NoPath, "", <<>>, 0))
    /\ task' = [task EXCEPT ![pid] = Dead]
    /\ UNCHANGED <<env, life, known, mon, daemon>>

\* The runtime handler enters the container's namespaces into NsMap.
Register(c) ==
    /\ c \notin known
    /\ known' = known \cup {c}
    /\ UNCHANGED <<env, kernel, syscalls, mon, daemon>>
------------------------------------------------------------------------------
(***************************************************************************)
(* The process tree.  An operator that may also write the tree, because it *)
(* stores what it read from procfs, returns <<path, new tree>>.            *)
(***************************************************************************)
ContainerIDs == Containers \cup {Host}
NoNode == [exec |-> NoPath, parent |-> NoPath, exited |-> FALSE, here |-> FALSE]
Full(path) == path \in Programs \cup {Elsewhere}
HasMap(tr, c) == \E pid \in Pids : tr[c][pid].here
Node(tr, c, pid) == IF pid \in Pids THEN tr[c][pid] ELSE NoNode

GetParentExecPath(tr, c, e, readlink) ==
    LET own == Node(tr, c, e.pid)
        parent == Node(tr, c, e.ppid)
        link == IF readlink THEN Readlink(e.ppid) ELSE NoPath
    IN  CASE Full(own.parent) -> <<own.parent, tr>>
          [] ~Full(own.parent) /\ Full(parent.exec) -> <<parent.exec, tr>>
          [] ~Full(own.parent) /\ ~Full(parent.exec) /\ link # NoPath ->
                <<link, IF parent.here THEN [tr EXCEPT ![c][e.ppid].exec = link]
                        ELSE IF own.here THEN [tr EXCEPT ![c][e.pid].parent = link]
                        ELSE tr>>
          [] OTHER -> <<IF parent.here THEN parent.exec ELSE own.parent, tr>>

BuildPidNode(tr, c, e, execPath) ==
    [exec |-> execPath, parent |-> GetParentExecPath(tr, c, e, FALSE)[1],
     exited |-> FALSE, here |-> TRUE]

AddActivePid(tr, c, pid, node) == [tr EXCEPT ![c][pid] = node]

UpdateExecPath(tr, c, pid, execPath) ==
    IF Full(execPath) /\ tr[c][pid].here THEN [tr EXCEPT ![c][pid].exec = execPath] ELSE tr

GetExecPath(tr, c, e, readlink) ==
    LET own == Node(tr, c, e.pid)
        link == IF readlink THEN Readlink(e.pid) ELSE NoPath
    IN  CASE Full(own.exec) -> <<own.exec, tr>>
          [] ~Full(own.exec) /\ link # NoPath ->
                <<link, IF own.here THEN [tr EXCEPT ![c][e.pid].exec = link]
                        ELSE IF HasMap(tr, c)
                        THEN AddActivePid(tr, c, e.pid, BuildPidNode(tr, c, e, link))
                        ELSE tr>>
          [] OTHER -> <<own.exec, tr>>

DeleteActivePid(tr, c, pid) ==
    IF tr[c][pid].here THEN [tr EXCEPT ![c][pid].exited = TRUE] ELSE tr

\* A log and the tree after building it; "live" is not part of the log: it
\* says whether the process was still there, and is used by properties only.
BuildLogBase(tr, c, e, readlink) ==
    LET name == GetExecPath(tr, c, e, readlink)
        parent == GetParentExecPath(name[2], c, e, readlink)
    IN  <<[id |-> e.id, ev |-> e.ev, gen |-> e.gen, at |-> e.at, of |-> e.cont,
           live |-> task[e.pid].gen = e.gen,
           cont |-> c, process |-> name[1], parent |-> parent[1], ret |-> e.ret,
           op |-> "Process", unread |-> {}], parent[2]>>

EmptyLog(e) ==
    [id |-> e.id, ev |-> e.ev, gen |-> e.gen, at |-> e.at, of |-> e.cont,
     live |-> task[e.pid].gen = e.gen,
     cont |-> Host, process |-> NoPath, parent |-> NoPath, ret |-> e.ret,
     op |-> "", unread |-> {}]

\* Mutant: a name the log has already is kept.
UpdateLogBaseKept(tr, e, log) ==
    LET name == GetExecPath(tr, log.cont, e, TRUE)
        parent == GetParentExecPath(name[2], log.cont, e, TRUE)
    IN  <<[log EXCEPT !.id = e.id, !.ev = e.ev, !.gen = e.gen, !.at = e.at, !.of = e.cont,
                      !.live = (task[e.pid].gen = e.gen), !.ret = e.ret,
                      !.process = IF @ = NoPath THEN name[1] ELSE @,
                      !.parent = IF @ = NoPath THEN parent[1] ELSE @], parent[2]>>

\* UpdateLogBase: the paths again, from the tree of the container in the log.
UpdateLogBase(tr, e, log) ==
    LET name == GetExecPath(tr, log.cont, e, TRUE)
        parent == GetParentExecPath(name[2], log.cont, e, TRUE)
    IN  <<[log EXCEPT !.id = e.id, !.ev = e.ev, !.gen = e.gen, !.at = e.at, !.of = e.cont,
                      !.live = (task[e.pid].gen = e.gen), !.ret = e.ret,
                      !.process = IF name[1] # NoPath THEN name[1] ELSE @,
                      !.parent = IF parent[1] # NoPath THEN parent[1] ELSE @], parent[2]>>
------------------------------------------------------------------------------
(***************************************************************************)
(* TraceSyscall.                                                           *)
(***************************************************************************)
Push(logs, id) ==
    /\ pushed' = pushed \cup logs
    /\ copies' = [copies EXCEPT ![id] = @ + 1]

\* TraceSyscall takes the next event; the channels it selects on outlive the monitor.
Taken ==
    /\ mon.perf /\ mon.state \notin {"off", "failed", "panicked"} /\ hand = None
    /\ syscalls # <<>> /\ syscalls' = Tail(syscalls)
OfContainer(e) == e.cont = Host \/ e.cont \in known \ Untracked
Ignored == UNCHANGED <<env, kernel, known, daemon, mon>>
TreeOnly == UNCHANGED <<env, kernel, known, execLogMap, replays, hand, lock, contexts, mon, pushed, copies>>

\* The arguments cannot be read, or the container's namespace is not tracked.
TraceDropped ==
    /\ Taken
    /\ LET e == Head(syscalls) IN GetArgs(e) = None \/ e.cont \in known \cap Untracked
    /\ Ignored

\* The container is unknown: a goroutine replays the event.
TraceUnknown ==
    /\ Taken
    /\ LET e == Head(syscalls)
       IN  /\ GetArgs(e) # None /\ e.cont \notin known \cup {Host}
           /\ replays' = replays \cup {[event |-> e, left |-> ReplayTries]}
    /\ UNCHANGED <<env, kernel, known, tree, execLogMap, hand, lock, contexts, mon, pushed, copies>>

\* A relative path is joined with the working directory, whatever it is relative to,
\* unless that is the root.
ExecPath(arg) ==
    CASE arg[1] \in {"absolute", "cwd"} -> arg[2]
      [] arg[1] = "root" -> Relative
      [] arg[1] = "dir" -> Elsewhere

\* An exec begins: a node for the process, and a log kept until the exec returns.
StoreExecLog(e) ==
    LET base == BuildLogBase(tree, e.cont, e, FALSE)
    IN  /\ tree' = AddActivePid(base[2], e.cont, e.pid, BuildPidNode(base[2], e.cont, e, ExecPath(e.arg)))
        /\ execLogMap' = [execLogMap EXCEPT ![e.pid] = base[1]]
        /\ UNCHANGED <<env, kernel, known, replays, hand, lock, contexts, mon, pushed, copies>>

\* It returns: the kept log, or an empty one, is completed and pushed.
PushExecLog(e) ==
    LET stored == IF execLogMap[e.pid] = None THEN EmptyLog(e) ELSE execLogMap[e.pid]
        updated == UpdateLogBase(tree, e, stored)
    IN  /\ tree' = updated[2] /\ execLogMap' = [execLogMap EXCEPT ![e.pid] = None]
        /\ Push({updated[1]}, e.id)
        /\ UNCHANGED <<env, kernel, known, replays, hand, lock, contexts, mon>>

Handled(ev, argnum) ==
    /\ Taken
    /\ LET e == Head(syscalls) IN OfContainer(e) /\ e.ev = ev /\ e.argnum = argnum

SysExecveEnter == Handled("SysExecve", 2) /\ StoreExecLog(Head(syscalls))
SysExecveReturn == Handled("SysExecve", 0) /\ PushExecLog(Head(syscalls))
SysExecveAtEnter == Handled("SysExecveAt", 4) /\ StoreExecLog(Head(syscalls))
SysExecveAtReturn == Handled("SysExecveAt", 0) /\ PushExecLog(Head(syscalls))

DoExit ==
    /\ Handled("DoExit", 0)
    /\ LET e == Head(syscalls) IN tree' = DeleteActivePid(tree, e.cont, e.pid)
    /\ TreeOnly

SecurityBprmCheck ==
    /\ Handled("BprmCheck", 1)
    /\ LET e == Head(syscalls) IN tree' = UpdateExecPath(tree, e.cont, e.pid, e.arg)
    /\ TreeOnly

\* Any other event is passed on to UpdateLogs, if it has its arguments.
TraceCall ==
    /\ Taken
    /\ LET e == Head(syscalls)
       IN  /\ e.ev \in DOMAIN KernelArgs /\ OfContainer(e) /\ GetArgs(e) # None
           /\ hand' = IF PassedOn(e, GetArgs(e)) THEN e ELSE None
    /\ UNCHANGED <<env, kernel, known, tree, execLogMap, replays, lock, contexts, mon, pushed, copies>>

MonitorLockTaken ==
    /\ hand # None /\ lock = "free" /\ mon.state # "panicked"
    /\ lock' = "trace"
    /\ UNCHANGED <<env, kernel, syscalls, known, tree, execLogMap, replays, hand, contexts, mon, pushed, copies>>

\* The send waits for room with the lock held, and panics on a closed channel.
ContextSent ==
    /\ lock = "trace" /\ mon.state # "panicked"
    /\ \/ /\ mon.state \in {"running", "stopping", "halfclosed"} /\ Len(contexts) < ContextChanSize
          /\ contexts' = Append(contexts, hand)
          /\ hand' = None /\ lock' = "free" /\ UNCHANGED mon
       \/ /\ mon.state = "destroyed"
          /\ mon' = [mon EXCEPT !.state = "panicked"] /\ UNCHANGED <<contexts, hand, lock>>
    /\ UNCHANGED <<env, kernel, syscalls, known, tree, execLogMap, replays, pushed, copies>>

\* A replayed event is sent again only once its container is known.
ReplayReady(e) == e.cont \in known

\* One try of a replay: it goes on after the event has been sent.
Replay(r) ==
    /\ mon.state # "panicked"
    /\ \/ ReplayReady(r.event) /\ Len(syscalls) < SyscallChannelSize /\ syscalls' = Append(syscalls, r.event)
       \/ (~ReplayReady(r.event) \/ Len(syscalls) = SyscallChannelSize) /\ UNCHANGED syscalls
    /\ replays' = (replays \ {r}) \cup {[r EXCEPT !.left = n] : n \in {r.left - 1} \ {0}}
    /\ UNCHANGED <<env, kernel, known, tree, execLogMap, hand, lock, contexts, mon, pushed, copies>>
------------------------------------------------------------------------------
(***************************************************************************)
(* UpdateLogs, CleanUpExitedHostPids, and the monitor's start and end.     *)
(***************************************************************************)
\* Without a name for the process a file or network event is dropped; a ptrace
\* event is named by the traced binary, which is not a program of the process.
Nameless(log) == log.process = NoPath /\ log.op \in {"File", "Network"}

\* The second log of an audited call.
Audited(log) == IF log.ev \in auditedSyscalls /\ log.op # "Syscall" THEN {[log EXCEPT !.op = "Syscall"]} ELSE {}

\* Mutant: UpdateLogs ends with the monitor's Status.
MessageReceivedStatus == contexts # <<>> /\ mon.state = "running"

\* Mutant: UpdateLogs takes MonitorLock to receive.
MessageReceivedLocked == contexts # <<>> /\ lock = "free"

\* UpdateLogs waits for a message; it ignores the closed channel.
MessageReceived == contexts # <<>> /\ mon.state # "panicked"

\* It turns one message into a log.
UpdateLogs ==
    /\ MessageReceived
    /\ contexts' = Tail(contexts)
    /\ LET e == Head(contexts)
           args == GetArgs(e)
           base == BuildLogBase(tree, e.cont, e, TRUE)
           log == [base[1] EXCEPT !.op = Operation(e.ev), !.unread = Unread(e.ev, args)]
       IN  /\ tree' = base[2]
           /\ IF Len(args) # Len(Reads(e.ev)) \/ Nameless(log)
              THEN UNCHANGED <<pushed, copies>>
              ELSE Push({log} \cup Audited(log), e.id)
    /\ UNCHANGED <<env, kernel, syscalls, known, execLogMap, replays, hand, lock, mon>>

\* Nodes that exited more than five seconds ago, which are some of the exited
\* ones, and, at once, nodes without an exit whose pid is not alive.
Cleaned(c, pid) == tree[c][pid].here /\ (tree[c][pid].exited \/ ~Alive(pid))

CleanUpExitedHostPids ==
    /\ mon.state \in {"running", "stopping"}
    /\ \E gone \in SUBSET {n \in ContainerIDs \X Pids : Cleaned(n[1], n[2])} :
        /\ gone # {}
        /\ \A n \in ContainerIDs \X Pids :
            Cleaned(n[1], n[2]) /\ ~tree[n[1]][n[2]].exited => n \in gone
        /\ tree' = [c \in ContainerIDs |-> [pid \in Pids |->
                        IF <<c, pid>> \in gone THEN NoNode ELSE tree[c][pid]]]
        /\ execLogMap' = [pid \in Pids |->
                        IF \E n \in gone : n[2] = pid THEN None ELSE execLogMap[pid]]
    /\ UNCHANGED <<env, kernel, syscalls, known, replays, hand, lock, contexts, mon, pushed, copies>>

\* The programs are loaded, their probes attached (a failed probe leaves a nil
\* link) and the perf reader opened (its failure is only a warning).
InitBPF ==
    /\ mon.state = "off"
    /\ \/ mon' = [state |-> "running", perf |-> TRUE, probes |-> TRUE]
       \/ /\ "init" \in env.faults
          /\ mon' \in {[state |-> "failed", perf |-> FALSE, probes |-> FALSE]}
                      \cup [state : {"running"}, perf : BOOLEAN, probes : BOOLEAN]
    /\ UNCHANGED <<env, kernel, syscalls, known, daemon>>

\* The daemon is told to end.
StopDaemon ==
    /\ "stop" \in env.faults /\ mon.state = "running"
    /\ mon' = [mon EXCEPT !.state = "stopping"]
    /\ UNCHANGED <<env, kernel, syscalls, known, daemon>>

\* Status, reader, programs, ContextChan, links and maps in one critical section;
\* the reader may fail to close, and closing a nil link panics.
DestroySystemMonitor ==
    /\ mon.state = "stopping" /\ lock = "free"
    /\ \/ "init" \in env.faults /\ mon' = [mon EXCEPT !.state = "halfclosed"]
       \/ mon' = [mon EXCEPT !.state = IF mon.probes THEN "destroyed" ELSE "panicked"]
    /\ UNCHANGED <<env, kernel, syscalls, known, daemon>>
------------------------------------------------------------------------------
Init ==
    /\ \E pid \in Pids, c \in ContainerIDs, prog \in Programs :
        life = <<[pid |-> pid, ppid |-> None, parent |-> 0, cont |-> c, ran |-> <<prog>>,
                  failed |-> FALSE]>>
    /\ task = [pid \in Pids |-> IF pid = life[1].pid THEN [Dead EXCEPT !.gen = 1] ELSE Dead]
    /\ sent = <<>> /\ syscalls = <<>>
    /\ known = IF "late" \in env.faults THEN Untracked ELSE Containers
    /\ tree = [c \in ContainerIDs |-> [pid \in Pids |-> NoNode]]
    /\ execLogMap = [pid \in Pids |-> None]
    /\ replays = {} /\ hand = None /\ lock = "free" /\ contexts = <<>>
    /\ mon = [state |-> "off", perf |-> FALSE, probes |-> FALSE]
    /\ pushed = {} /\ copies = [id \in 1 .. MaxEvents |-> 0]

TraceSyscall ==
    \/ TraceDropped \/ TraceUnknown \/ TraceCall \/ DoExit \/ SecurityBprmCheck
    \/ SysExecveEnter \/ SysExecveReturn \/ SysExecveAtEnter \/ SysExecveAtReturn

Processes ==
    \E pid \in Pids :
        \/ \E parent \in Pids : Fork(parent, pid)
        \/ \E call \in env.execs, path \in Programs, form \in env.forms :
            ExecEnter(pid, call, path, form)
        \/ ExecCheck(pid) \/ ExecReturn(pid) \/ ExecFail(pid)
        \/ \E ev \in env.calls, null \in BOOLEAN : Call(pid, ev, null)
        \/ Exit(pid)

Next ==
    \/ Processes \/ TraceSyscall \/ MonitorLockTaken \/ ContextSent
    \/ \E c \in Containers : Register(c)
    \/ \E r \in replays : Replay(r)
    \/ UpdateLogs \/ CleanUpExitedHostPids
    \/ InitBPF \/ StopDaemon \/ DestroySystemMonitor

\* As long as one of the goroutines can run, one of them does; the mutex does
\* not starve the shutdown.
Fairness ==
    /\ WF_vars(TraceSyscall \/ MonitorLockTaken \/ ContextSent \/ UpdateLogs)
    /\ SF_vars(DestroySystemMonitor)

Spec == Init /\ [][Next]_vars /\ Fairness
------------------------------------------------------------------------------
LogOps == {"Process", "File", "Network", "Syscall", ""}

\* The queues stay within their capacities, only TraceSyscall holds the lock
\* between steps, and no exec log is kept for a pid outside Pids.
TypeOK ==
    /\ Len(syscalls) <= SyscallChannelSize /\ Len(contexts) <= ContextChanSize
    /\ lock \in {"free", "trace"} /\ (lock = "trace" => hand # None)
    /\ DOMAIN execLogMap = Pids /\ DOMAIN tree = ContainerIDs
    /\ \A r \in replays : r.left \in 1 .. ReplayTries
    /\ \A l \in pushed : l.op \in LogOps /\ l.cont \in ContainerIDs

PidsOf(g) == {h \in 1 .. Len(life) : life[h].pid = life[g].pid}
Running(g) == IF task[life[g].pid].gen = g THEN {task[life[g].pid].exec} ELSE {}
Ran(g, at) == {life[g].ran[i] : i \in at .. Len(life[g].ran)} \cup Running(g)

\* The process of a log was there when the log was made, no other process had
\* its pid, none of its execs failed, and none of its events was lost or replayed.
Undisturbed(l) ==
    /\ l.live /\ PidsOf(l.gen) = {l.gen} /\ ~life[l.gen].failed
    /\ "lost" \notin env.faults /\ (l.of = Host \/ "late" \notin env.faults)

\* What the tree holds while an exec relative to a descriptor is under way.
Astray(g) ==
    IF \E i \in 1 .. Len(sent) : sent[i].gen = g /\ sent[i].argnum = 4 /\ sent[i].arg[1] = "dir"
    THEN {Elsewhere} ELSE {}

\* A log carries the container of its process and names the program the process
\* ran at the event, ran later or is about to run: the two events of an exec are paired by pid,
\* and the tree is read only when the log is made.  Never a program it did not
\* run, whatever UpdateLogs, TraceSyscall and the clean-up do in between, but for
\* logs of other calls made while an exec relative to a descriptor is under way.
NamedAsRun ==
    \A l \in pushed : Undisturbed(l) =>
        /\ l.cont = l.of
        /\ l.process \in Ran(l.gen, l.at) \cup (IF l.ev \in DOMAIN KernelArgs THEN Astray(l.gen) ELSE {})

\* A log's parent is a program the parent ran, or no program, as long as the pids
\* of both were not used again.
ParentAsRun ==
    \A l \in pushed :
        LET p == life[l.gen].parent
        IN  Undisturbed(l) /\ p # 0 /\ PidsOf(p) = {p} /\ ~life[p].failed =>
                l.parent \in Ran(p, 1) \cup {NoPath, Relative} \cup Astray(p)

\* An event is logged at most once when its container was known in time, and at
\* most ReplayTries times when it was replayed: a replay that has sent its event
\* goes on sending it.
CopiesBounded ==
    \A id \in 1 .. MaxEvents : copies[id] <= IF "late" \in env.faults THEN ReplayTries ELSE 1

\* The kernel programs, the parser and UpdateLogs agree on the type of every
\* argument, but for the flags of mount and umount, which are read as strings
\* and reported as zero.
ArgumentsReported == \A l \in pushed : l.unread # {} => l.ev \in {"SysMount", "SysUmount"}

\* The event is in a channel, in TraceSyscall's hands or waits to be replayed.
InFlight(e) ==
    \/ e \in Range(syscalls) \cup Range(contexts) \cup {hand}
    \/ \E r \in replays : r.event = e

\* No call the kernel reported with all its arguments is lost while its process
\* and the monitor last: the argument counts of TraceSyscall and UpdateLogs agree
\* with the kernel's, and the empty name that drops an event does not occur.
NoCallLost ==
    \A i \in 1 .. Len(sent) :
        LET e == sent[i]
        IN  /\ e.ev \in DOMAIN KernelArgs /\ Len(e.buffer) = e.argnum
            /\ e.cont \notin Untracked /\ (e.cont = Host \/ "late" \notin env.faults)
            /\ "lost" \notin env.faults /\ task[e.pid].gen = e.gen
            /\ mon.state = "running" /\ ~InFlight(e)
            => copies[e.id] > 0

\* Logs name the programs that ran, as process and as parent, and their container
\* (UpdateLogBase, BuildLogBase, GetParentExecPath).
LogsNameWhatRan == NamedAsRun /\ ParentAsRun

\* Every call is logged, once unless it was replayed, with its arguments, and the
\* channels stay within their capacities (TraceSyscall, UpdateLogs).
CallsReported == NoCallLost /\ CopiesBounded /\ ArgumentsReported /\ TypeOK

\* The events that were taken from the kernel are worked off: TraceSyscall, which
\* waits with MonitorLock held, and UpdateLogs do not block each other.
WorkedOff == <>[](mon.state # "running" \/ (syscalls = <<>> /\ hand = None /\ contexts = <<>>))

\* The monitor's shutdown gets MonitorLock, although TraceSyscall may hold it
\* waiting for room in ContextChan: UpdateLogs does not stop before.
ShutdownEnds == (mon.state = "stopping") ~> (mon.state # "stopping")
==============================================================================
