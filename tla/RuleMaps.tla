------------------------------ MODULE RuleMaps ------------------------------
(***************************************************************************)
(* How the BPF-LSM enforcer keeps the kernel's maps: containers registered *)
(* and unregistered (enforcer/bpflsm/mapHelpers.go), and UpdateContainer-  *)
(* Rules from the moment it holds ContainerMapLock (rulesHandling.go),     *)
(* one map operation at a time, since the hooks read the maps without a    *)
(* lock.  PathRules tells which rules a container gets; here they are any. *)
(*                                                                         *)
(* A list gives every key a mask, 0 for a key it does not hold.  An entry  *)
(* of an inner map has a process and a file mask; a key is absent when     *)
(* both are 0, which no rule's masks are.  The network and capability      *)
(* lists have keys of their own and go through the same loops as the file  *)
(* list; they are left out, as is the arguments map.                       *)
(***************************************************************************)
EXTENDS Naturals, FiniteSets

CONSTANTS
  Containers,   \* container ids
  Namespaces,   \* pid and mount namespace of a container, NsKey
  Keys,         \* InnerKey
  Masks,        \* masks of a rule, and 0
  Postures,     \* values of a whitelist key, and 0 for none
  Handles,      \* inner maps
  Nil,          \* no map
  NoOne,        \* no container
  Capacity      \* max_entries of kubearmor_containers

ASSUME MasksAssumption == 0 \in Masks /\ 0 \in Postures
ASSUME NilAssumption == Nil \notin Handles /\ Nil \notin Namespaces /\ NoOne \notin Containers

VARIABLES
  registered,   \* ids in be.ContainerMap
  nskey,        \* ContainerMap[id].Key
  map,          \* ContainerMap[id].Map
  procList,     \* ContainerMap[id].Rules.ProcessRuleList
  fileList,     \* ContainerMap[id].Rules.FileRuleList
  outer,        \* BPFContainerMap, pinned: it outlives the daemon
  stale,        \* its keys whose entries a daemon before this one made
  procMask,     \* inner maps: the process mask of every key,
  fileMask,     \* the file mask,
  posture,      \* and the whitelist keys
  current,      \* the container whose update holds ContainerMapLock
  phase,        \* where it is
  todo,         \* keys its loop has still to visit
  wantProc,     \* newrules of the last update of every container,
  wantFile,
  wantPosture,
  hadMap,       \* the map, and the lists, before the update in progress
  oldProc,
  oldFile

entry   == <<registered, nskey, map>>
lists   == <<procList, fileList>>
pinned  == <<outer, stale>>
kernel  == <<pinned, procMask, fileMask, posture>>
want    == <<wantProc, wantFile, wantPosture>>
old     == <<hadMap, oldProc, oldFile>>
control == <<current, phase, todo>>
vars    == <<entry, lists, kernel, want, old, control>>

ListNames == {"process", "file"}
Lists     == [Keys -> Masks]
NoRules   == [k \in Keys |-> 0]
NoPosture == [l \in ListNames |-> 0]

Idle == phase = "idle"

Init ==
  /\ registered = {}
  /\ nskey = [c \in Containers |-> Nil]
  /\ map = [c \in Containers |-> Nil]
  /\ procList = [c \in Containers |-> NoRules]
  /\ fileList = [c \in Containers |-> NoRules]
  /\ procMask = [h \in Handles |-> NoRules]
  /\ fileMask = [h \in Handles |-> NoRules]
  /\ posture = [h \in Handles |-> NoPosture]
  /\ current = NoOne /\ phase = "idle" /\ todo = {}
  /\ wantProc = [c \in Containers |-> NoRules]
  /\ wantFile = [c \in Containers |-> NoRules]
  /\ wantPosture = [c \in Containers |-> NoPosture]
  /\ hadMap = Nil /\ oldProc = NoRules /\ oldFile = NoRules
  /\ outer = [n \in Namespaces |-> Nil] /\ stale = {}

\* A container is registered when it starts; the namespaces of running
\* containers differ.
AddContainerIDToMap(c, n) ==
  /\ Idle /\ c \notin registered
  /\ \A d \in registered : nskey[d] # n
  /\ registered' = registered \cup {c}
  /\ nskey' = [nskey EXCEPT ![c] = n]
  /\ map' = [map EXCEPT ![c] = Nil]
  /\ procList' = [procList EXCEPT ![c] = NoRules]
  /\ fileList' = [fileList EXCEPT ![c] = NoRules]
  /\ UNCHANGED <<kernel, want, old, control>>

\* A map is empty when it is made, and freed when it is closed.
Clears(h) ==
  /\ procMask' = [procMask EXCEPT ![h] = NoRules]
  /\ fileMask' = [fileMask EXCEPT ![h] = NoRules]
  /\ posture' = [posture EXCEPT ![h] = NoPosture]

\* A variant of the next definition that leaves the kernel's map in place.
DropsOnlyEntry(c) ==
  /\ map' = [map EXCEPT ![c] = Nil]
  /\ procList' = [procList EXCEPT ![c] = NoRules]
  /\ fileList' = [fileList EXCEPT ![c] = NoRules]
  /\ UNCHANGED kernel

\* DeleteContainerInnerMap, a no-op without a map.
DropsMap(c) ==
  \/ /\ map[c] # Nil
     /\ outer' = [outer EXCEPT ![nskey[c]] = Nil]
     /\ stale' = stale \ {nskey[c]}
     /\ map' = [map EXCEPT ![c] = Nil]
     /\ procList' = [procList EXCEPT ![c] = NoRules]
     /\ fileList' = [fileList EXCEPT ![c] = NoRules]
     /\ Clears(map[c])
  \/ /\ map[c] = Nil
     /\ UNCHANGED <<map, lists, kernel>>

\* newrules of the last update; none for a container that is not registered.
Wants(c, p, f, q) ==
  /\ wantProc' = [wantProc EXCEPT ![c] = p]
  /\ wantFile' = [wantFile EXCEPT ![c] = f]
  /\ wantPosture' = [wantPosture EXCEPT ![c] = q]

DeleteContainerIDFromMap(c) ==
  /\ Idle
  /\ DropsMap(c)
  /\ Wants(c, NoRules, NoRules, NoPosture)
  /\ registered' = registered \ {c}
  /\ nskey' = [nskey EXCEPT ![c] = Nil]
  /\ UNCHANGED <<old, control>>

(***************************************************************************)
(* UpdateContainerRules of a registered container.                         *)
(***************************************************************************)
AllRulesRemoved(c) ==
  /\ Idle /\ c \in registered
  /\ Wants(c, NoRules, NoRules, NoPosture)
  /\ DropsMap(c)
  /\ UNCHANGED <<registered, nskey, old, control>>

\* A list whose posture is set has an Allow rule.
StartsUpdate(c, p, f, q) ==
  /\ Idle /\ c \in registered
  /\ p # NoRules \/ f # NoRules
  /\ p = NoRules => q["process"] = 0
  /\ f = NoRules => q["file"] = 0
  /\ Wants(c, p, f, q)
  /\ current' = c
  /\ phase' = "dropProc"
  /\ todo' = {k \in Keys : procList[c][k] # 0 /\ p[k] = 0}
  /\ hadMap' = map[c] /\ oldProc' = procList[c] /\ oldFile' = fileList[c]

UpdateWithMap(c, p, f, q) ==
  /\ map[c] # Nil
  /\ StartsUpdate(c, p, f, q)
  /\ UNCHANGED <<entry, lists, kernel>>

InUse(h) == (\E c \in Containers : map[c] = h) \/ (\E n \in Namespaces : outer[n] = h)

\* CreateContainerInnerMap; the Put replaces the entry of its key and fails
\* when there is none and the outer map is full.
UpdateCreatesMap(c, p, f, q, h) ==
  /\ map[c] = Nil /\ ~InUse(h)
  /\ StartsUpdate(c, p, f, q)
  /\ map' = [map EXCEPT ![c] = h]
  /\ Clears(h)
  /\ \/ /\ Cardinality({n \in Namespaces : outer[n] # Nil}) < Capacity \/ outer[nskey[c]] # Nil
        /\ outer' = [outer EXCEPT ![nskey[c]] = h]
        /\ stale' = stale \ {nskey[c]}
     \/ /\ Cardinality({n \in Namespaces : outer[n] # Nil}) >= Capacity /\ outer[nskey[c]] = Nil
        /\ UNCHANGED pinned
  /\ UNCHANGED <<registered, nskey, lists>>

Visits(k) == k \in todo /\ todo' = todo \ {k}

\* cmap.Delete(key) on the map of the update in progress.
Deletes(k) ==
  /\ procMask' = [procMask EXCEPT ![map[current]][k] = 0]
  /\ fileMask' = [fileMask EXCEPT ![map[current]][k] = 0]

resolveConflictsProcessRules(k) ==
  /\ phase = "dropProc" /\ Visits(k)
  /\ Deletes(k)
  /\ procList' = [procList EXCEPT ![current][k] = 0]
  /\ UNCHANGED <<entry, fileList, pinned, posture, want, old, current, phase>>

\* A variant of the next definition that drops every file rule.
DropsAllFileRules ==
  /\ phase = "dropProc" /\ todo = {}
  /\ phase' = "dropFile"
  /\ todo' = {k \in Keys : fileList[current][k] # 0}
  /\ UNCHANGED <<entry, lists, kernel, want, old, current>>

ProcConflictsResolved ==
  /\ phase = "dropProc" /\ todo = {}
  /\ phase' = "dropFile"
  /\ todo' = {k \in Keys : fileList[current][k] # 0 /\ wantFile[current][k] = 0}
  /\ UNCHANGED <<entry, lists, kernel, want, old, current>>

\* A variant of the next definition that forgets the kernel's map.
ResolvesBookkeeping(k) ==
  /\ phase = "dropFile" /\ Visits(k)
  /\ fileList' = [fileList EXCEPT ![current][k] = 0]
  /\ UNCHANGED <<entry, procList, kernel, want, old, current, phase>>

resolveConflicts(k) ==
  /\ phase = "dropFile" /\ Visits(k)
  /\ Deletes(k)
  /\ fileList' = [fileList EXCEPT ![current][k] = 0]
  /\ UNCHANGED <<entry, procList, pinned, posture, want, old, current, phase>>

PutsPosture(l) == posture' = [posture EXCEPT ![map[current]][l] = wantPosture[current][l]]

ProcPosture ==
  /\ phase = "dropFile" /\ todo = {}
  /\ phase' = "putProc"
  /\ todo' = {k \in Keys : wantProc[current][k] # 0}
  /\ PutsPosture("process")
  /\ UNCHANGED <<entry, lists, pinned, procMask, fileMask, want, old, current>>

PutProcRule(k) ==
  /\ phase = "putProc" /\ Visits(k)
  /\ procList' = [procList EXCEPT ![current][k] = wantProc[current][k]]
  /\ procMask' = [procMask EXCEPT ![map[current]][k] = wantProc[current][k]]
  /\ fileMask' = [fileMask EXCEPT ![map[current]][k] = 0]
  /\ UNCHANGED <<entry, fileList, pinned, posture, want, old, current, phase>>

FilePosture ==
  /\ phase = "putProc" /\ todo = {}
  /\ phase' = "putFile"
  /\ todo' = {k \in Keys : wantFile[current][k] # 0}
  /\ PutsPosture("file")
  /\ UNCHANGED <<entry, lists, pinned, procMask, fileMask, want, old, current>>

\* The file rule carries the process mask of its key: fuseProcAndFileRules.
PutFileRule(k) ==
  /\ phase = "putFile" /\ Visits(k)
  /\ fileList' = [fileList EXCEPT ![current][k] = wantFile[current][k]]
  /\ procMask' = [procMask EXCEPT ![map[current]][k] = wantProc[current][k]]
  /\ fileMask' = [fileMask EXCEPT ![map[current]][k] = wantFile[current][k]]
  /\ UNCHANGED <<entry, procList, pinned, posture, want, old, current, phase>>

UpdateDone ==
  /\ phase = "putFile" /\ todo = {}
  /\ phase' = "idle" /\ current' = NoOne
  /\ hadMap' = Nil /\ oldProc' = NoRules /\ oldFile' = NoRules
  /\ UNCHANGED <<entry, lists, kernel, want, todo>>

(***************************************************************************)
(* The daemon ends, and starts again knowing no container.  The contents   *)
(* of the maps it leaves are not kept: nothing it does reads them.         *)
(***************************************************************************)
Forgets ==
  /\ registered' = {}
  /\ nskey' = [c \in Containers |-> Nil]
  /\ map' = [c \in Containers |-> Nil]
  /\ procList' = [c \in Containers |-> NoRules]
  /\ fileList' = [c \in Containers |-> NoRules]
  /\ procMask' = [h \in Handles |-> NoRules]
  /\ fileMask' = [h \in Handles |-> NoRules]
  /\ posture' = [h \in Handles |-> NoPosture]
  /\ current' = NoOne /\ phase' = "idle" /\ todo' = {}
  /\ wantProc' = [c \in Containers |-> NoRules]
  /\ wantFile' = [c \in Containers |-> NoRules]
  /\ wantPosture' = [c \in Containers |-> NoPosture]
  /\ hadMap' = Nil /\ oldProc' = NoRules /\ oldFile' = NoRules

\* A crash at any point, with maps pinned in a directory of their own
\* (bpfFsPath): NewBPFEnforcer opens the pinned map as it was left.
Restart ==
  /\ Forgets
  /\ stale' = {n \in Namespaces : outer[n] # Nil}
  /\ UNCHANGED outer

\* A crash with maps in the default directory: main removes their pins before
\* anything else.
InitialCleanUp ==
  /\ Forgets
  /\ outer' = [n \in Namespaces |-> Nil] /\ stale' = {}

\* A clean end unpins the map, under ContainerMapLock.
DestroyBPFEnforcer ==
  /\ Idle
  /\ Forgets
  /\ outer' = [n \in Namespaces |-> Nil] /\ stale' = {}

Next ==
  \/ \E c \in Containers, n \in Namespaces : AddContainerIDToMap(c, n)
  \/ \E c \in Containers : DeleteContainerIDFromMap(c) \/ AllRulesRemoved(c)
  \/ \E c \in Containers, p, f \in Lists, q \in [ListNames -> Postures] :
       UpdateWithMap(c, p, f, q) \/ \E h \in Handles : UpdateCreatesMap(c, p, f, q, h)
  \/ \E k \in Keys : \/ resolveConflictsProcessRules(k) \/ resolveConflicts(k)
                     \/ PutProcRule(k) \/ PutFileRule(k)
  \/ ProcConflictsResolved \/ ProcPosture \/ FilePosture \/ UpdateDone
  \/ Restart \/ InitialCleanUp \/ DestroyBPFEnforcer

Spec == Init /\ [][Next]_vars

\* Variables have the types the code gives them.
TypeOK ==
  /\ registered \subseteq Containers
  /\ nskey \in [Containers -> Namespaces \cup {Nil}]
  /\ map \in [Containers -> Handles \cup {Nil}]
  /\ procList \in [Containers -> Lists] /\ fileList \in [Containers -> Lists]
  /\ outer \in [Namespaces -> Handles \cup {Nil}]
  /\ stale \subseteq Namespaces
  /\ procMask \in [Handles -> Lists] /\ fileMask \in [Handles -> Lists]
  /\ posture \in [Handles -> [ListNames -> Postures]]
  /\ current \in Containers \cup {NoOne}
  /\ phase \in {"idle", "dropProc", "dropFile", "putProc", "putFile"}
  /\ todo \subseteq Keys
  /\ wantProc \in [Containers -> Lists] /\ wantFile \in [Containers -> Lists]
  /\ wantPosture \in [Containers -> [ListNames -> Postures]]
  /\ hadMap \in Handles \cup {Nil} /\ oldProc \in Lists /\ oldFile \in Lists

Holds(h, c) == procMask[h] = wantProc[c] /\ fileMask[h] = wantFile[c] /\ posture[h] = wantPosture[c]

\* Whatever rules a container had before, once UpdateContainerRules returns
\* its inner map holds the rules and postures asked for last and nothing
\* else, and a container without an inner map has no rules.
MapsInSync ==
  Idle => \A c \in registered :
            /\ map[c] # Nil => Holds(map[c], c)
            /\ map[c] = Nil => wantProc[c] = NoRules /\ wantFile[c] = NoRules

\* The hooks find rules only for the namespaces of a registered container,
\* and that container's own: DeleteContainerIDFromMap leaves none behind for
\* the next container with the same namespaces.  What a crashed daemon left
\* stays at most until the container with these namespaces has rules again.
NoLeftovers ==
  \A n \in Namespaces : outer[n] # Nil =>
    \/ \E c \in registered : nskey[c] = n /\ map[c] = outer[n]
    \/ n \in stale /\ \A c \in registered : nskey[c] = n => map[c] = Nil

\* While the lists are exchanged key by key, the hooks never miss a rule that
\* was there before and stays: a process rule whose key enters or leaves the
\* file list may be missed, and so may a file rule whose key is in a process
\* list.
StaysInForce ==
  (~Idle /\ hadMap # Nil) =>
    \A k \in Keys :
      /\ (/\ oldProc[k] # 0 /\ wantProc[current][k] = oldProc[k]
          /\ (oldFile[k] = 0) <=> (wantFile[current][k] = 0))
         => procMask[map[current]][k] = oldProc[k]
      /\ (/\ oldFile[k] # 0 /\ wantFile[current][k] = oldFile[k]
          /\ oldProc[k] = 0 /\ wantProc[current][k] = 0)
         => fileMask[map[current]][k] = oldFile[k]
=============================================================================
