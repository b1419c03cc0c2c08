----------------------------- MODULE PolicyRules -----------------------------
(***************************************************************************)
(* What a policy's rules say once the daemon has taken the policy in:      *)
(* lists of protocols and capabilities written with commas become rules of *)
(* their own, and a rule without a severity, tags, a message or an action  *)
(* takes its class's (process, file, ...), or else the policy's.  The      *)
(* daemon has this code three times, for policies of Kubernetes, for       *)
(* policies of the node, and for policies of containers without Kubernetes.*)
(*                                                                         *)
(* A specification is [own, process, file, network, capabilities,          *)
(* syscalls]; a class is [own, rules] and a rule [names, own], where own   *)
(* gives each setting its value or Unset.  Paths, directories and patterns *)
(* are treated alike and make one list of rules.                           *)
(***************************************************************************)
EXTENDS Integers, Sequences, SequencesExt

CONSTANT Unset

Settings == {"severity", "tags", "message", "action"}

\* A list is expanded when its first rule has a comma.
ObjCommaCanBeExpanded(rules) == rules # <<>> /\ Len(rules[1].names) > 1

ObjCommaExpandFirstDupOthers(rules) ==
  IF ObjCommaCanBeExpanded(rules)
  THEN FlattenSeq([n \in DOMAIN rules |->
         [k \in DOMAIN rules[n].names |-> [rules[n] EXCEPT !.names = <<rules[n].names[k]>>]]])
  ELSE rules

\* Only the policy's own action is written in one way and has a default.
PolicyAction(action) ==
  CASE action = "allow"            -> "Allow"
    [] action = "audit"            -> "Audit"
    [] action \in {"block", Unset} -> "Block"
    [] OTHER                       -> action

Inherit(class, spec) ==
  [n \in DOMAIN class.rules |->
    [class.rules[n] EXCEPT !.own = [f \in Settings |->
       IF @[f] # Unset THEN @[f] ELSE IF class.own[f] # Unset THEN class.own[f] ELSE spec.own[f]]]]

\* Rules on system calls have no action.
InheritSyscalls(class, spec) ==
  [n \in DOMAIN class.rules |->
    [class.rules[n] EXCEPT !.own = [Inherit(class, spec)[n].own EXCEPT !["action"] = Unset]]]

\* The lists of protocols and of capabilities, and the policy's action.
Expanded(spec) ==
  [spec EXCEPT !.network.rules = ObjCommaExpandFirstDupOthers(@), !.capabilities.rules = ObjCommaExpandFirstDupOthers(@),
               !.own["action"] = PolicyAction(@)]

(***************************************************************************)
(* Policies of Kubernetes.                                                 *)
(***************************************************************************)
ProcessRules(spec)    == Inherit(spec.process, spec)
FileRules(spec)       == Inherit(spec.file, spec)
NetworkRules(spec)    == Inherit(spec.network, spec)
CapabilityRules(spec) == Inherit(spec.capabilities, spec)
SyscallRules(spec)    == InheritSyscalls(spec.syscalls, spec)

CreateSecurityPolicy(written) ==
  LET spec == Expanded(written)
  IN [process |-> ProcessRules(spec), file |-> FileRules(spec), network |-> NetworkRules(spec),
      capabilities |-> CapabilityRules(spec), syscalls |-> SyscallRules(spec)]

(***************************************************************************)
(* Policies of the node: the lowest severity is the default.               *)
(***************************************************************************)
HostDefaults(written) ==
  [Expanded(written) EXCEPT !.own["severity"] = IF @ = Unset THEN 1 ELSE @]

HostProcessRules(spec)    == Inherit(spec.process, spec)
\* Mutant: the settings of the class above.
HostFileRulesOfProcess(spec) == Inherit([spec.file EXCEPT !.own = spec.process.own], spec)
HostFileRules(spec)       == Inherit(spec.file, spec)
HostNetworkRules(spec)    == Inherit(spec.network, spec)
HostCapabilityRules(spec) == Inherit(spec.capabilities, spec)
HostSyscallRules(spec)    == InheritSyscalls(spec.syscalls, spec)

ParseAndUpdateHostSecurityPolicy(written) ==
  LET spec == HostDefaults(written)
  IN [process |-> HostProcessRules(spec), file |-> HostFileRules(spec), network |-> HostNetworkRules(spec),
      capabilities |-> HostCapabilityRules(spec), syscalls |-> HostSyscallRules(spec)]

(***************************************************************************)
(* Policies of containers without Kubernetes: rules on system calls stay   *)
(* as they are written.                                                    *)
(***************************************************************************)
ContainerProcessRules(spec)    == Inherit(spec.process, spec)
ContainerFileRules(spec)       == Inherit(spec.file, spec)
ContainerNetworkRules(spec)    == Inherit(spec.network, spec)
ContainerCapabilityRules(spec) == Inherit(spec.capabilities, spec)

ParseAndUpdateContainerSecurityPolicy(written) ==
  LET spec == Expanded(written)
  IN [process |-> ContainerProcessRules(spec), file |-> ContainerFileRules(spec), network |-> ContainerNetworkRules(spec),
      capabilities |-> ContainerCapabilityRules(spec), syscalls |-> written.syscalls.rules]
=============================================================================
