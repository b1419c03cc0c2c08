-------------------------- MODULE MCDefaultPosture --------------------------
(* Small instances of DefaultPosture. *)
EXTENDS DefaultPosture

All(file, network) == [sc \in Scopes |-> IF sc = "file" THEN file ELSE network]

\* One namespace is annotated for every scope, with valid and invalid values; the other is
\* never annotated.
FullAnnotations ==
  [n \in Namespaces |-> IF n = "ns1" THEN {All("block", "audit"), All("Block", "typo"),
                                           All("audit", "block")}
                        ELSE {All("none", "none")}]
ValidSettings == {All("audit", "audit"), All("block", "audit")}
=============================================================================
