------------------------------ MODULE Presets ------------------------------
(***************************************************************************)
(* The five presets: built-in rules that a policy turns on by name.  Each  *)
(* has a BPF-LSM program of its own, a table ContainerMap of the           *)
(* containers the runtime handler registered, and a pinned BPF map from    *)
(* namespace keys to the action of the rule.  They share no state, so one  *)
(* preset is followed per behaviour; the five packages are copies of one   *)
(* another with small differences, and the operators that differ have one  *)
(* definition for each.                                                    *)
(*                                                                         *)
(* A preset's tables are a record p: p.ContainerMap[c] is None or the key  *)
(* and the policy name recorded for c, p.BPFContainerMap[k] is None,       *)
(* "Audit" or "Block".                                                     *)
(***************************************************************************)
EXTENDS Integers, Sequences, FiniteSets

CONSTANTS
    ContainerIDs,  \* containers
    Keys,          \* namespace keys (PidNS, MntNS) of containers
    NoKey,         \* the key (0, 0), which is also the host's
    None           \* a missing map entry

ASSUME PresetsAssumption ==
    /\ NoKey \notin Keys
    /\ None \notin ContainerIDs \cup Keys \cup {NoKey, "Audit", "Block"}

PresetNames == {"AnonMapExec", "FilelessExec", "ProtectEnv", "Exec", "ProtectProc"}

EmptyPreset ==
    [ContainerMap |-> [c \in ContainerIDs |-> None],
     BPFContainerMap |-> [k \in Keys \cup {NoKey} |-> None]]

----------------------------------------------------------------------------
(* Registering the preset itself.  A preset whose registration fails is    *)
(* removed from the list, with its program attached when only the reader   *)
(* of its events failed; one that returns nil stays in the list.           *)

RegisterFaults == {"none", "enforcer", "memlock", "load", "attach", "events"}

AnonMapExecRegisterPreset(fault) ==
    [listed |-> fault = "none", attached |-> fault \in {"none", "events"}]

FilelessExecRegisterPreset(fault) ==
    [listed |-> fault = "none", attached |-> fault \in {"none", "events"}]

ProtectEnvRegisterPreset(fault) ==
    [listed |-> fault \in {"none", "memlock"},
     attached |-> fault \in {"none", "events"}]

ExecRegisterPreset(fault) ==
    [listed |-> fault = "none", attached |-> fault \in {"none", "events"}]

ProtectProcRegisterPreset(fault) ==
    [listed |-> fault \in {"none", "memlock"},
     attached |-> fault \in {"none", "events"}]

RegisterPreset(name, fault) ==
    CASE name = "AnonMapExec"  -> AnonMapExecRegisterPreset(fault)
      [] name = "FilelessExec" -> FilelessExecRegisterPreset(fault)
      [] name = "ProtectEnv"   -> ProtectEnvRegisterPreset(fault)
      [] name = "Exec"         -> ExecRegisterPreset(fault)
      [] name = "ProtectProc"  -> ProtectProcRegisterPreset(fault)

----------------------------------------------------------------------------
(* Containers of a preset.                                                 *)

RegisterContainer(p, c, k) ==
    [p EXCEPT !.ContainerMap[c] = [key |-> k, policy |-> None]]

\* Deleting a key that is not there is not an error.
DeleteContainerIDFromMap(p, k) ==
    [p EXCEPT !.BPFContainerMap[k] = None]

AddContainerIDToMap(p, k, action) ==
    [p EXCEPT !.BPFContainerMap[k] = IF action = "Audit" THEN "Audit" ELSE "Block"]

UnregisterContainer(p, c) ==
    IF p.ContainerMap[c] = None THEN p
    ELSE [DeleteContainerIDFromMap(p, p.ContainerMap[c].key)
             EXCEPT !.ContainerMap[c] = None]

\* Mutant: the name of the policy is written only once.
WriteRuleNamedOnce(p, c, ckv, rule) ==
    AddContainerIDToMap(
        [p EXCEPT !.ContainerMap[c] =
            IF ckv.policy = None THEN [ckv EXCEPT !.policy = rule.policy] ELSE ckv],
        ckv.key, rule.action)

\* The entry ckv, read before, goes back with the name of the policy.
WriteRule(p, c, ckv, rule) ==
    AddContainerIDToMap(
        [p EXCEPT !.ContainerMap[c] = [ckv EXCEPT !.policy = rule.policy]],
        ckv.key, rule.action)

\* Mutant: an update without rules is skipped.
ClearRuleSkipped(p, c) == p

\* No policy has a rule of this preset; an unregistered container reads as
\* the zero entry, whose key is (0, 0).
ClearRule(p, c) ==
    DeleteContainerIDFromMap(
        p, IF p.ContainerMap[c] = None THEN NoKey ELSE p.ContainerMap[c].key)

\* The rules of the preset in a list of policies, in the order of the list.
RulesFor(policies) ==
    LET Has(i) == policies[i].action # None
        Pick == [i \in 1 .. Len(policies) |->
                    IF Has(i) THEN << [policy |-> policies[i].name,
                                       action |-> policies[i].action] >>
                    ELSE << >>]
        Flat[i \in 0 .. Len(policies)] ==
            IF i = 0 THEN << >> ELSE Flat[i - 1] \o Pick[i]
    IN  Flat[Len(policies)]
----------------------------------------------------------------------------
(* One step of UpdateSecurityPolicies.  An update u works through a list   *)
(* of containers, and for each through the rules of the preset.            *)
(*   u.cids     containers still to do, the first one is in hand           *)
(*   u.rules    rules still to write for it                                *)
(*   u.all      the rules of the endpoint's policies                       *)
(*   u.ckv      None, or the entry read for the rule in hand               *)
(*   u.alone    every container is an endpoint of its own                  *)

Idle == [cids |-> << >>, rules |-> << >>, all |-> << >>, ckv |-> None,
         alone |-> FALSE]

UpdateOf(cids, rules, alone) ==
    IF cids = << >> THEN Idle
    ELSE [cids |-> cids, rules |-> rules, all |-> rules, ckv |-> None,
          alone |-> alone]

NextContainer(u) == UpdateOf(Tail(u.cids), u.all, u.alone)

\* A container that is not registered ends the update of its endpoint.
NotRegistered(u) == IF u.alone THEN NextContainer(u) ELSE Idle

RuleWritten(u) ==
    IF Len(u.rules) = 1 THEN NextContainer(u)
    ELSE [u EXCEPT !.rules = Tail(@), !.ckv = None]

\* The entry is read under the read lock and the lock is released ...
ReadThenWrite(p, u) ==
    LET c == Head(u.cids) IN
    IF u.rules = << >>
      THEN [preset |-> ClearRule(p, c), update |-> NextContainer(u)]
    ELSE IF u.ckv # None
      THEN [preset |-> WriteRule(p, c, u.ckv, Head(u.rules)),
            update |-> RuleWritten(u)]
    ELSE IF p.ContainerMap[c] = None
      THEN [preset |-> p, update |-> NotRegistered(u)]
    ELSE [preset |-> p, update |-> [u EXCEPT !.ckv = p.ContainerMap[c]]]

\* ... except in AnonMapExec, which holds it until the entry is written.
ReadAndWrite(p, u) ==
    LET c == Head(u.cids) IN
    IF u.rules = << >>
      THEN [preset |-> ClearRule(p, c), update |-> NextContainer(u)]
    ELSE IF p.ContainerMap[c] = None
      THEN [preset |-> p, update |-> NotRegistered(u)]
    ELSE [preset |-> WriteRule(p, c, p.ContainerMap[c], Head(u.rules)),
          update |-> RuleWritten(u)]

\* Mutant: the lock is released in between, as in the other presets.
AnonMapExecUpdateUnlocked(p, u) == ReadThenWrite(p, u)

AnonMapExecUpdate(p, u) == ReadAndWrite(p, u)
FilelessExecUpdate(p, u) == ReadThenWrite(p, u)
ProtectEnvUpdate(p, u) == ReadThenWrite(p, u)
ExecUpdate(p, u) == ReadThenWrite(p, u)
ProtectProcUpdate(p, u) == ReadThenWrite(p, u)

UpdateStep(name, p, u) ==
    CASE name = "AnonMapExec"  -> AnonMapExecUpdate(p, u)
      [] name = "FilelessExec" -> FilelessExecUpdate(p, u)
      [] name = "ProtectEnv"   -> ProtectEnvUpdate(p, u)
      [] name = "Exec"         -> ExecUpdate(p, u)
      [] name = "ProtectProc"  -> ProtectProcUpdate(p, u)

----------------------------------------------------------------------------
(* What the program decides for an operation it watches, and the alert     *)
(* that TraceEvents builds from the event.  c is the container that the    *)
(* monitor finds for the key, or None.                                     *)

Decision(p, k) == p.BPFContainerMap[k]

Alert(p, k, c, operation) ==
    [Operation |-> operation,
     ContainerID |-> c,
     PolicyName |-> IF c # None /\ p.ContainerMap[c] # None
                      THEN p.ContainerMap[c].policy ELSE None,
     Type |-> IF c # None /\ p.ContainerMap[c] # None
                THEN "MatchedPolicy" ELSE None,
     Result |-> IF Decision(p, k) = "Block" THEN "Permission denied" ELSE "Passed"]

AnonMapExecAlert(p, k, c) == Alert(p, k, c, "File")
FilelessExecAlert(p, k, c) == Alert(p, k, c, "Process")
ProtectEnvAlert(p, k, c) == Alert(p, k, c, "File")
ExecAlert(p, k, c) == Alert(p, k, c, "Process")
ProtectProcAlert(p, k, c) == Alert(p, k, c, "File")

AlertFor(name, p, k, c) ==
    CASE name = "AnonMapExec"  -> AnonMapExecAlert(p, k, c)
      [] name = "FilelessExec" -> FilelessExecAlert(p, k, c)
      [] name = "ProtectEnv"   -> ProtectEnvAlert(p, k, c)
      [] name = "Exec"         -> ExecAlert(p, k, c)
      [] name = "ProtectProc"  -> ProtectProcAlert(p, k, c)
=============================================================================
