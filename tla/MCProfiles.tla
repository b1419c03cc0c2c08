----------------------------- MODULE MCProfiles -----------------------------
(***************************************************************************)
(* Rules asked for one after the other, each by a policy of its own, and   *)
(* the AppArmor profile they get.                                          *)
(***************************************************************************)
EXTENDS AppArmorProfile, FiniteSets

VARIABLES asked, posture

File == [cls |-> "file", by |-> "path", entity |-> <<"a", "f">>, recursive |-> FALSE, owner |-> FALSE,
         readOnly |-> FALSE, sources |-> <<>>, action |-> "Block"]
Process == [File EXCEPT !.cls = "process"]
Network == [File EXCEPT !.cls = "network", !.by = "protocol"]
Bash == <<"bin", "bash">>

Forms ==
  { File, [File EXCEPT !.readOnly = TRUE], [File EXCEPT !.owner = TRUE], [File EXCEPT !.owner = TRUE, !.readOnly = TRUE],
    [File EXCEPT !.by = "dir", !.entity = <<"a", "">>],
    [File EXCEPT !.by = "dir", !.entity = <<"a", "">>, !.recursive = TRUE],
    [File EXCEPT !.entity = <<"a", "b", "f">>],
    [File EXCEPT !.by = "pattern", !.entity = <<"a", "*">>],
    Process, [Process EXCEPT !.owner = TRUE], [Process EXCEPT !.entity = Bash],
    [Process EXCEPT !.by = "dir", !.entity = <<"a", "">>],
    [Process EXCEPT !.by = "name", !.entity = <<"f">>],
    [Process EXCEPT !.by = "pattern", !.entity = <<"a", "*">>],
    [Network EXCEPT !.entity = <<"tcp">>], [Network EXCEPT !.entity = <<"icmpv6">>],
    [File EXCEPT !.cls = "capabilities", !.by = "capability", !.entity = <<"net_raw">>] }

\* Allow rules by name or pattern grant nothing to programs (the dispatcher lists paths and
\* directories), and patterns have no sources of their own.
Rules ==
  {r \in UNION {{[f EXCEPT !.action = a, !.sources = s] : a \in {"Allow", "Block"}, s \in {<<>>, <<Bash>>}} : f \in Forms} :
     /\ ~(r.cls = "process" /\ r.action = "Allow" /\ r.by \in {"pattern", "name"})
     /\ r.by = "pattern" => r.sources = <<>>}
  \cup {[Network EXCEPT !.entity = <<"all">>]}

Operations ==
  [cls : {"file"}, path : {<<"a", "f">>, <<"a", "b", "f">>, <<"a", "g">>}, op : {"read", "write"}, owner : BOOLEAN, src : {<<>>, Bash}]
  \cup [cls : {"process"}, path : {<<"a", "f">>, <<"a", "b", "f">>, Bash}, op : {"exec"}, owner : BOOLEAN, src : {<<>>, Bash}]
  \cup [cls : {"network"}, path : {<<"tcp">>, <<"udp">>, <<"icmp">>}, op : {""}, owner : {TRUE}, src : {<<>>, Bash}]
  \cup [cls : {"capabilities"}, path : {<<"net_raw">>, <<"kill">>}, op : {""}, owner : {TRUE}, src : {<<>>, Bash}]

Everywhere(p) == [file |-> p, network |-> p, capabilities |-> p]

MaxAsked == 3

Init == asked = <<>> /\ posture \in {Everywhere("audit"), Everywhere("block")}

\* A third rule only where all are about the same.
Ask ==
  /\ Len(asked) < MaxAsked
  /\ \E r \in Rules :
       /\ Len(asked) = 2 => \A k \in {1, 2} : asked[k].cls = r.cls /\ asked[k].entity[1] = r.entity[1]
       /\ asked' = Append(asked, r)
  /\ UNCHANGED posture

Asked == [k \in DOMAIN asked |-> <<asked[k]>>]

\* The profile decides every operation as the rules mean it: a Block rule for it, or the
\* lack of an Allow rule where the posture is to block.  Rules that name the same thing
\* agree in everything; a program with rules of its own is left out as an object, and is
\* itself only shown to be denied nothing that no rule denies.
ProfileAsMeant ==
  LET body == GenerateProfileBody(Asked, posture)
      rules == RulesOf(Asked)
  IN Uniform(rules) => \A e \in Operations : (e.src = <<>> \/ e.src \in DOMAIN body.FromSource) =>
       \/ e.cls = "process" /\ e.path \in DOMAIN body.FromSource
       \/ IF e.cls = "process" /\ e.src # <<>> THEN Decides(body, e) => Meant(rules, Everywhere("audit"), e)
          ELSE Decides(body, e) = Meant(rules, posture, e)
=============================================================================
