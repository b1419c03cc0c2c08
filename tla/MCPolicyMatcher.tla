-------------------------- MODULE MCPolicyMatcher --------------------------
(***************************************************************************)
(* Rules of every class on a small tree of files, the operations on it     *)
(* that the hooks of PathRules see, and the system monitor's logs of them. *)
(***************************************************************************)
EXTENDS Sequences, FiniteSets

CONSTANTS bash, sh, None

Plain == [cls |-> "process", by |-> "path", path |-> <<"a", "f">>, recursive |-> FALSE, owner |-> FALSE,
          readOnly |-> FALSE, args |-> {}, sources |-> <<>>, action |-> "Block", syscall |-> ""]
File == [Plain EXCEPT !.cls = "file"]
Net(protocol, action) == [Plain EXCEPT !.cls = "network", !.by = "protocol", !.path = <<protocol>>, !.action = action]
Cap(capability, action) == [Plain EXCEPT !.cls = "capabilities", !.by = "capability", !.path = <<capability>>, !.action = action]

A == <<"a">>
AF == <<"a", "f">>
ABF == <<"a", "b", "f">>

MCPolicies ==
  { <<[Plain EXCEPT !.by = "dir", !.path = A, !.recursive = TRUE, !.action = "Allow"]>>,
    <<Plain, [Plain EXCEPT !.by = "name", !.path = <<"f">>, !.action = "Audit"], [File EXCEPT !.by = "pattern", !.path = A]>>,
    <<[Plain EXCEPT !.path = ABF, !.sources = <<sh, bash>>], [File EXCEPT !.path = ABF, !.action = "Allow"]>>,
    <<[File EXCEPT !.action = "Allow"], [Plain EXCEPT !.owner = TRUE, !.action = "Allow"]>>,
    <<[File EXCEPT !.by = "dir", !.path = A, !.readOnly = TRUE], [Plain EXCEPT !.path = ABF, !.action = "Allow"]>>,
    <<[File EXCEPT !.by = "dir", !.path = A, !.recursive = TRUE, !.sources = <<bash>>], Net("ALL", "Allow")>>,
    <<Net("TCP", "Block"), Cap("NET_RAW", "Allow")>>,
    <<Net("STREAM", "Allow"), Cap("NET_RAW", "Block")>>,
    <<[Cap("SYS_ADMIN", "Block") EXCEPT !.sources = <<sh>>],
      [Plain EXCEPT !.cls = "syscall", !.by = "syscall", !.syscall = "SETUID", !.sources = <<[path |-> A, dir |-> TRUE, recursive |-> TRUE]>>],
      [Plain EXCEPT !.cls = "syscall", !.syscall = "UNLINK", !.path = A, !.recursive = TRUE]>>,
    <<[Plain EXCEPT !.cls = "apparmor", !.by = "apparmor"]>> }

Base == [cls |-> "process", path |-> AF, source |-> sh, owner |-> TRUE, args |-> <<"f">>, hook |-> "exec", type |-> "", protocol |-> ""]
Set(base, paths, sources, owners) == {[base EXCEPT !.path = p, !.source = s, !.owner = o] : p \in paths, s \in sources, o \in owners}

MCEvents ==
  Set(Base, {AF, ABF}, {bash, sh}, BOOLEAN)
  \cup Set([Base EXCEPT !.cls = "file", !.hook = "open"], {AF, ABF}, {bash, sh}, {TRUE})
  \cup Set([Base EXCEPT !.cls = "file", !.hook = "write"], {AF, ABF}, {bash, sh}, {TRUE})
  \cup {[Base EXCEPT !.cls = "network", !.hook = "socket", !.path = <<>>, !.type = t, !.protocol = "0", !.source = s] :
          t \in {"STREAM", "DGRAM"}, s \in {bash, sh}}
  \cup Set([Base EXCEPT !.cls = "capabilities", !.hook = "capable"], {<<"NET_RAW">>, <<"SYS_ADMIN">>}, {bash, sh}, {TRUE})

MonLog == [op |-> "Process", resource |-> AF, process |-> AF, parent |-> sh, rdonly |-> FALSE, owner |-> TRUE, result |-> "Passed",
           syscall |-> None, enforcer |-> "", visible |-> TRUE, type |-> "", policy |-> None, tags |-> None, action |-> ""]
\* The monitor's log of the same operation; an open for reading has O_RDONLY.
MCMonitorLogs ==
  {[MonLog EXCEPT !.process = p, !.resource = p, !.parent = s, !.result = r] : p \in {AF, ABF}, s \in {bash, sh}, r \in {"Passed", "Denied", "Failed"}}
  \cup {[MonLog EXCEPT !.op = "File", !.resource = p, !.process = s, !.parent = None, !.result = r, !.rdonly = o, !.visible = v] :
          p \in {AF, ABF}, s \in {bash, sh}, r \in {"Passed", "Denied"}, o \in BOOLEAN, v \in BOOLEAN}
  \cup {[MonLog EXCEPT !.op = "Network", !.resource = {t, "HOPOPT"}, !.process = s, !.parent = None, !.result = r] :
          t \in {"STREAM", "RAW"}, s \in {bash, sh}, r \in {"Passed", "Denied"}}
  \cup {[MonLog EXCEPT !.op = "Syscall", !.syscall = c, !.process = p, !.resource = q, !.action = a] :
          c \in {"SETUID", "UNLINK"}, p \in {AF, ABF}, q \in {AF, ABF}, a \in {"", "Audit"}}

Posture(f, n, c) == [file |-> f, network |-> n, capabilities |-> c]
MCPostures == {Posture("audit", "audit", "audit"), Posture("block", "block", "block"), Posture("allow", "block", "audit")}
MCTagged == {p \in MCPolicies : Len(p) = 2}
MCLonger == {<<bash, sh>>}
=============================================================================
