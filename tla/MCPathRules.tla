---------------------------- MODULE MCPathRules ----------------------------
(***************************************************************************)
(* The rules and operations of PathRules for TLC: a tree /a/{f,b/{f,c/f}}  *)
(* with rules on its files and on each of its directories, so that hints,  *)
(* recursive and plain directories meet in every order.                    *)
(***************************************************************************)
EXTENDS PathRules

CONSTANTS bash, sh

Plain == [cls |-> "process", by |-> "path", path |-> <<"a", "f">>, recursive |-> FALSE, owner |-> FALSE,
          readOnly |-> FALSE, args |-> {}, sources |-> <<>>, action |-> "Block"]

Dir(cls, path, recursive, action) ==
  [Plain EXCEPT !.cls = cls, !.by = "dir", !.path = path, !.recursive = recursive, !.action = action]

A == <<"a">>
AB == <<"a", "b">>
ABC == <<"a", "b", "c">>
AF == <<"a", "f">>
ABF == <<"a", "b", "f">>
ABCF == <<"a", "b", "c", "f">>

MCPolicies ==
  { <<Dir("process", A, TRUE, "Allow")>>,
    <<Dir("process", A, FALSE, "Block")>>,
    <<Dir("process", AB, FALSE, "Block"), Dir("file", AB, TRUE, "Allow")>>,
    <<Dir("process", ABC, TRUE, "Block"), [Dir("file", A, FALSE, "Block") EXCEPT !.readOnly = TRUE]>>,
    <<[Plain EXCEPT !.action = "Allow", !.owner = TRUE], [Plain EXCEPT !.cls = "file", !.path = ABF]>>,
    <<[Plain EXCEPT !.path = ABF, !.sources = <<sh, bash>>], [Dir("process", A, TRUE, "Allow") EXCEPT !.sources = <<bash>>]>>,
    <<[Plain EXCEPT !.path = ABCF, !.args = {"x"}], [Plain EXCEPT !.by = "name", !.path = <<"f">>, !.action = "Allow"]>>,
    <<[Plain EXCEPT !.cls = "network", !.by = "protocol", !.path = <<"TCP">>],
      [Plain EXCEPT !.cls = "network", !.by = "protocol", !.path = <<"ALL">>, !.action = "Allow", !.sources = <<bash>>],
      [Plain EXCEPT !.cls = "capabilities", !.by = "capability", !.path = <<"NET_RAW">>, !.action = "Allow"]>>,
    <<[Plain EXCEPT !.cls = "network", !.by = "protocol", !.path = <<"STREAM">>, !.action = "Allow"],
      [Plain EXCEPT !.cls = "network", !.by = "protocol", !.path = <<"ALL">>],
      [Plain EXCEPT !.cls = "capabilities", !.by = "capability", !.path = <<"NET_RAW">>, !.sources = <<sh>>]>>,
    <<[Dir("file", ABC, TRUE, "Block") EXCEPT !.sources = <<bash>>, !.owner = TRUE], [Plain EXCEPT !.action = "Audit"]>> }

\* Two sources, the longer one first.
MCSourcePolicies == { <<[Plain EXCEPT !.sources = <<bash, sh>>]>>, <<[Plain EXCEPT !.sources = <<sh, bash>>]>>,
                      <<[Plain EXCEPT !.sources = <<sh>>]>>, <<[Plain EXCEPT !.path = ABF, !.sources = <<bash, sh>>]>> }

Paths == {A, AF, AB, ABF, ABCF}

MCEvents ==
  [cls : {"process"}, path : Paths, source : {bash, sh, NoSource}, owner : BOOLEAN, args : {<<"f">>}, hook : {"exec"}, type : {""}, protocol : {""}]
  \cup [cls : {"process"}, path : {ABCF}, source : {sh}, owner : {TRUE}, args : {<<"x">>, <<"f", "x">>, <<"f", "x", "y">>, <<"f", "x", "x", "x">>},
        hook : {"exec"}, type : {""}, protocol : {""}]
  \cup [cls : {"file"}, path : Paths, source : {bash, sh}, owner : BOOLEAN, args : {<<>>}, hook : {"path", "open", "write"}, type : {""}, protocol : {""}]
  \cup [cls : {"network"}, path : {<<>>}, source : {bash, NoSource}, owner : {TRUE}, args : {<<>>}, hook : {"socket"},
        type : {"STREAM", "DGRAM"}, protocol : {"0", "TCP", "SCTP"}]
  \cup [cls : {"capabilities"}, path : {<<"NET_RAW">>, <<"SYS_ADMIN">>}, source : {bash, sh, NoSource}, owner : {TRUE}, args : {<<>>},
        hook : {"capable"}, type : {""}, protocol : {""}]

MCLonger == {<<bash, sh>>}
=============================================================================
