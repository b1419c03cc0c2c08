----------------------------- MODULE Enforcers -----------------------------
(***************************************************************************)
(* The runtime enforcer: one of the three enforcers, chosen when the       *)
(* daemon starts, and the calls it passes on to it.                        *)
(*                                                                         *)
(* machine says what the daemon meets: the configured order, the names the *)
(* kernel lists, whether the probe of BPF LSM succeeds, whether it runs in *)
(* a Kubernetes cluster and the step of the BPF enforcer that fails.  The  *)
(* AppArmor and the SELinux enforcer are in modules of their own; their    *)
(* set-up is here an outcome ok.                                           *)
(***************************************************************************)
EXTENDS Naturals, Sequences, SequencesExt

CONSTANTS
  Machines,        \* [order, readable, lsms, probe, inCluster, fails]
  Hooks,           \* the hooks of the BPF enforcer that must attach, in order
  PathHooks        \* those it does without

VARIABLES
  machine,
  pc,              \* "new", "selection", "dispatch" or "done"
  lsmOrder, availablelsms, supportedlsm, lsm,
  EnforcerType,    \* "" while there is none
  tried,           \* the enforcers that were tried
  attached,        \* the hooks of the BPF enforcer in the kernel
  pinned           \* its pinned maps

selection == <<machine, lsmOrder, availablelsms, supportedlsm, lsm, tried>>
bpf == <<attached, pinned>>
enforcer == <<selection, pc, EnforcerType, bpf>>

AllLSMs == <<"bpf", "selinux", "apparmor">>

EnforcersInit ==
  /\ machine \in Machines
  /\ pc = "new"
  /\ lsmOrder = <<>> /\ availablelsms = <<>> /\ supportedlsm = {} /\ lsm = ""
  /\ EnforcerType = "" /\ tried = <<>>
  /\ attached = {} /\ pinned = {}

\* BPF LSM is probed for when the list does not name it, or cannot be read.
NewRuntimeEnforcer ==
  LET listed == IF machine.readable THEN machine.lsms ELSE {}
  IN /\ pc = "new"
     /\ supportedlsm' = listed \cup (IF machine.probe THEN {"bpf"} ELSE {})
     /\ lsmOrder' = machine.order
     /\ availablelsms' = AllLSMs
     /\ pc' = "selection"
     /\ UNCHANGED <<machine, lsm, EnforcerType, tried, bpf>>

\* The label lsmselection, with the configured order left to try.
SelectPreferred ==
  /\ pc = "selection" /\ lsmOrder # <<>>
  /\ lsm' = Head(lsmOrder)
  /\ lsmOrder' = Tail(lsmOrder)
  /\ pc' = IF Head(lsmOrder) \in supportedlsm /\ Contains(availablelsms, Head(lsmOrder)) THEN "dispatch" ELSE "selection"
  /\ UNCHANGED <<machine, availablelsms, supportedlsm, EnforcerType, tried, bpf>>

SelectAvailable ==
  /\ pc = "selection" /\ lsmOrder = <<>> /\ availablelsms # <<>>
  /\ lsm' = Head(availablelsms)
  /\ availablelsms' = Tail(availablelsms)
  /\ pc' = IF Head(availablelsms) \in supportedlsm THEN "dispatch" ELSE "selection"
  /\ UNCHANGED <<machine, lsmOrder, supportedlsm, EnforcerType, tried, bpf>>

SelectNone ==
  /\ pc = "selection" /\ lsmOrder = <<>> /\ availablelsms = <<>>
  /\ pc' = "done"
  /\ UNCHANGED <<selection, EnforcerType, bpf>>

Dispatch(name) == pc = "dispatch" /\ lsm = name

Outcome(type, ok) ==
  /\ pc' = IF ok THEN "done" ELSE "selection"
  /\ EnforcerType' = IF ok THEN type ELSE EnforcerType
  /\ tried' = Append(tried, lsm)
  /\ UNCHANGED <<machine, lsmOrder, availablelsms, supportedlsm, lsm>>

\* The label selinux: not tried in a cluster.
TrySELinux(ok) == Dispatch("selinux") /\ ~machine.inCluster /\ Outcome("SELinux", ok) /\ UNCHANGED bpf
SkipSELinux == Dispatch("selinux") /\ machine.inCluster /\ Outcome("SELinux", FALSE) /\ UNCHANGED bpf

\* The label apparmor.
TryAppArmor(ok) == Dispatch("apparmor") /\ Outcome("AppArmor", ok) /\ UNCHANGED bpf
-----------------------------------------------------------------------------
(* The BPF enforcer. *)

OwnMaps == <<"kubearmor_containers", "kubearmor_arguments", "kubearmor_alert_throttle">>
ObjectMaps == {"kubearmor_events", "kubearmor_args_store"}
BPFSteps == <<"memlock">> \o OwnMaps \o <<"objects">> \o Hooks \o <<"events">>

Before(step) ==
  LET i == IF Contains(BPFSteps, step) THEN CHOOSE k \in DOMAIN BPFSteps : BPFSteps[k] = step ELSE Len(BPFSteps) + 1
  IN {BPFSteps[k] : k \in 1 .. (i - 1)}

\* What is there when NewBPFEnforcer returns, having got to the step that fails.
AttachedBy(done, path) == (done \cap ToSet(Hooks)) \cup (IF ToSet(Hooks) \subseteq done THEN path ELSE {})
PinnedBy(done) == (done \cap ToSet(OwnMaps)) \cup (IF "objects" \in done THEN ObjectMaps ELSE {})

\* Mutant: the links are not closed.
KeepLinks(done, hooks, maps) ==
  /\ attached' = hooks
  /\ pinned' = maps \ (ToSet(OwnMaps) \cup ObjectMaps)

\* DestroyBPFEnforcer: the ring buffer is unpinned only if there was a reader.
DestroyBPFEnforcer(done, hooks, maps) ==
  /\ attached' = {}
  /\ pinned' = maps \ (ToSet(OwnMaps) \cup {"kubearmor_args_store"}
                       \cup (IF "events" \in done THEN {"kubearmor_events"} ELSE {}))

\* The label bpf.  Without the limit on locked memory there is nothing to clean up.
TryBPF ==
  LET done == Before(machine.fails)
      ok == machine.fails \notin ToSet(BPFSteps)
  IN /\ Dispatch("bpf") /\ Outcome("BPFLSM", ok)
     /\ \E path \in SUBSET PathHooks :
          IF ok THEN attached' = AttachedBy(done, path) /\ pinned' = PinnedBy(done)
          ELSE IF machine.fails = "memlock" THEN UNCHANGED bpf
          ELSE DestroyBPFEnforcer(done, AttachedBy(done, path), PinnedBy(done))

\* DestroyRuntimeEnforcer, for the BPF enforcer.
CloseBPF ==
  /\ pc = "done" /\ EnforcerType = "BPFLSM"
  /\ DestroyBPFEnforcer(ToSet(BPFSteps), attached, pinned)
  /\ EnforcerType' = "" /\ pc' = "closed"
  /\ UNCHANGED selection

\* The daemon is gone, and what the enforcer did with it: the next one selects again.
Forget ==
  /\ pc' = "new" /\ EnforcerType' = "" /\ tried' = <<>>
  /\ UNCHANGED <<machine, lsmOrder, availablelsms, supportedlsm, lsm, bpf>>

Select == NewRuntimeEnforcer \/ SelectPreferred \/ SelectAvailable \/ SelectNone \/ SkipSELinux \/ TryBPF \/ CloseBPF
-----------------------------------------------------------------------------
(* What is passed on to which enforcer. *)

RegistersProfiles == EnforcerType = "AppArmor"
UpdatesContainers == EnforcerType \in {"BPFLSM", "AppArmor"}
UpdatesHost == EnforcerType \in {"BPFLSM", "AppArmor", "SELinux"}
-----------------------------------------------------------------------------
EnforcersTypeOK ==
  /\ machine \in Machines /\ pc \in {"new", "selection", "dispatch", "done", "closed"}
  /\ EnforcerType \in {"", "BPFLSM", "AppArmor", "SELinux"}
  /\ ToSet(tried) \subseteq ToSet(AllLSMs)
  /\ attached \subseteq ToSet(Hooks) \cup PathHooks

Candidates ==
  LET works(l) == (machine.readable /\ l \in machine.lsms) \/ (machine.probe /\ l = "bpf")
  IN SelectSeq(machine.order, LAMBDA l : works(l) /\ Contains(AllLSMs, l)) \o SelectSeq(AllLSMs, works)

\* The enforcers are tried in the configured order and then in the built-in one, only
\* those the kernel has, until one is set up; no enforcer means that every one was tried.
TriedInOrder ==
  /\ IsPrefix(tried, Candidates)
  /\ (pc = "done" /\ EnforcerType = "") => tried = Candidates

\* A BPF enforcer that could not be set up leaves no hook in the kernel and none of its
\* own maps on disk, so that the enforcer chosen instead decides alone.
OneEnforcer ==
  EnforcerType # "BPFLSM" => attached = {} /\ pinned \cap ToSet(OwnMaps) = {}
=============================================================================
