--------------------------- MODULE RuleMapsProofs ---------------------------
(***************************************************************************)
(* Proofs about RuleMaps, for any containers, keys, masks and capacity.    *)
(***************************************************************************)
EXTENDS RuleMaps, TLAPS

\* No two containers share an inner map, and only registered ones have one.
MapsApart ==
  /\ \A c, d \in Containers : map[c] = map[d] /\ map[c] # Nil => c = d
  /\ \A c \in Containers : c \notin registered => map[c] = Nil

\* Registered containers have namespaces of their own.
NamespacesApart ==
  /\ \A c \in registered : nskey[c] \in Namespaces
  /\ \A c, d \in registered : nskey[c] = nskey[d] => c = d

\* The update in progress is that of a registered container with a map.
Working ==
  /\ Idle => current = NoOne
  /\ ~Idle => current \in registered /\ map[current] # Nil

\* A container that is not being updated has the rules it should.
Settled(c) ==
  /\ procList[c] = wantProc[c] /\ fileList[c] = wantFile[c]
  /\ map[c] # Nil => Holds(map[c], c)
  /\ map[c] = Nil => wantProc[c] = NoRules /\ wantFile[c] = NoRules

OthersSettled == \A c \in Containers \ {current} : Settled(c)

\* What the loops have left to do.
TodoInv ==
  /\ phase = "dropProc" => /\ fileList[current] = oldFile
                           /\ \A k \in todo : oldProc[k] # 0 /\ wantProc[current][k] = 0
  /\ phase = "dropFile" => \A k \in todo : oldFile[k] # 0 /\ wantFile[current][k] = 0
  /\ phase = "putProc" => \A k \in todo : wantProc[current][k] # 0
  /\ phase = "putFile" => \A k \in todo : wantFile[current][k] # 0

\* How far a key of the map being updated is.
KeyInv(k) ==
  LET P  == procMask[map[current]][k]
      F  == fileMask[map[current]][k]
      pl == procList[current][k]
      fl == fileList[current][k]
      wp == wantProc[current][k]
      wf == wantFile[current][k]
  IN /\ (P # 0 \/ F # 0) => (pl # 0 \/ fl # 0)
     /\ (wp = 0 /\ ~(phase = "dropProc" /\ k \in todo)) => pl = 0
     /\ (wf = 0 /\ phase # "dropProc" /\ ~(phase = "dropFile" /\ k \in todo)) => fl = 0
     /\ (wp # 0 /\ (phase = "putFile" \/ (phase = "putProc" /\ k \notin todo))) =>
          pl = wp /\ P = wp /\ (wf = 0 => F = 0)
     /\ (wf # 0 /\ phase = "putFile" /\ k \notin todo) => fl = wf /\ F = wf /\ P = wp

PostureInv ==
  /\ phase \in {"putProc", "putFile"} => posture[map[current]]["process"] = wantPosture[current]["process"]
  /\ phase = "putFile" => posture[map[current]]["file"] = wantPosture[current]["file"]

UpdateInv == ~Idle => TodoInv /\ (\A k \in Keys : KeyInv(k)) /\ PostureInv

IInv ==
  /\ TypeOK /\ MapsApart /\ NamespacesApart /\ Working /\ OthersSettled /\ UpdateInv
  /\ NoLeftovers /\ StaysInForce

(***************************************************************************)
(* Types.                                                                  *)
(***************************************************************************)
LEMMA ConstantTypes ==
  /\ NoRules \in Lists
  /\ NoPosture \in [ListNames -> Postures]
  BY MasksAssumption DEF NoRules, NoPosture, Lists

LEMMA TypeInit == Init => TypeOK
  BY ConstantTypes DEF Init, TypeOK

LEMMA TypeStart ==
  ASSUME TypeOK, NEW c \in Containers, NEW p \in Lists, NEW f \in Lists, NEW q \in [ListNames -> Postures],
         UpdateWithMap(c, p, f, q) \/ \E h \in Handles : UpdateCreatesMap(c, p, f, q, h)
  PROVE  TypeOK'
  <1>1. CASE UpdateWithMap(c, p, f, q)
    BY <1>1 DEF TypeOK, UpdateWithMap, StartsUpdate, Wants, entry, lists, kernel, pinned
  <1>2. CASE \E h \in Handles : UpdateCreatesMap(c, p, f, q, h)
    <2>1. PICK h \in Handles : UpdateCreatesMap(c, p, f, q, h)
      BY <1>2
    <2> USE <2>1 DEF TypeOK, UpdateCreatesMap, StartsUpdate, Wants, Clears, lists
    <2>2. outer' \in [Namespaces -> Handles \cup {Nil}] /\ stale' \subseteq Namespaces
      <3>1. CASE outer' = [outer EXCEPT ![nskey[c]] = h] /\ stale' = stale \ {nskey[c]}
        BY <3>1, Zenon
      <3>2. CASE outer' = outer /\ stale' = stale
        BY <3>2
      <3>3. \/ outer' = [outer EXCEPT ![nskey[c]] = h] /\ stale' = stale \ {nskey[c]}
            \/ outer' = outer /\ stale' = stale
        BY <2>1, Zenon DEF UpdateCreatesMap, pinned
      <3> QED BY <3>1, <3>2, <3>3
    <2>3. procMask' \in [Handles -> Lists] /\ fileMask' \in [Handles -> Lists] /\ posture' \in [Handles -> [ListNames -> Postures]]
      BY ConstantTypes
    <2>4. wantProc' \in [Containers -> Lists] /\ wantFile' \in [Containers -> Lists] /\ wantPosture' \in [Containers -> [ListNames -> Postures]]
      OBVIOUS
    <2>5. map' \in [Containers -> Handles \cup {Nil}] /\ hadMap' \in Handles \cup {Nil} /\ oldProc' \in Lists /\ oldFile' \in Lists
      OBVIOUS
    <2> QED BY <2>2, <2>3, <2>4, <2>5
  <1> QED BY <1>1, <1>2

LEMMA TypeEntry ==
  ASSUME TypeOK, NEW c \in Containers,
         (\E n \in Namespaces : AddContainerIDToMap(c, n)) \/ DeleteContainerIDFromMap(c) \/ AllRulesRemoved(c)
  PROVE  TypeOK'
  <1>1. CASE \E n \in Namespaces : AddContainerIDToMap(c, n)
    BY <1>1, ConstantTypes DEF TypeOK, AddContainerIDToMap, kernel, pinned, want, old, control
  <1>2. ASSUME DropsMap(c)
        PROVE  /\ outer' \in [Namespaces -> Handles \cup {Nil}] /\ stale' \subseteq Namespaces
               /\ map' \in [Containers -> Handles \cup {Nil}]
               /\ procList' \in [Containers -> Lists] /\ fileList' \in [Containers -> Lists]
               /\ procMask' \in [Handles -> Lists] /\ fileMask' \in [Handles -> Lists]
               /\ posture' \in [Handles -> [ListNames -> Postures]]
    <2>1. CASE map[c] = Nil
      BY <1>2, <2>1 DEF TypeOK, DropsMap, lists, kernel, pinned
    <2>2. CASE map[c] # Nil
      <3>1. /\ outer' = [outer EXCEPT ![nskey[c]] = Nil]
            /\ stale' = stale \ {nskey[c]}
            /\ map' = [map EXCEPT ![c] = Nil]
            /\ procList' = [procList EXCEPT ![c] = NoRules]
            /\ fileList' = [fileList EXCEPT ![c] = NoRules]
            /\ Clears(map[c])
        BY <1>2, <2>2, Zenon DEF DropsMap
      <3>2. outer' \in [Namespaces -> Handles \cup {Nil}] /\ stale' \subseteq Namespaces /\ map' \in [Containers -> Handles \cup {Nil}]
        BY <3>1, Zenon DEF TypeOK
      <3> QED BY <3>1, <3>2, ConstantTypes, Zenon DEF TypeOK, Clears
    <2> QED BY <2>1, <2>2
  <1>3. CASE DeleteContainerIDFromMap(c)
    BY <1>2, <1>3, ConstantTypes DEF TypeOK, DeleteContainerIDFromMap, Wants, old, control
  <1>4. CASE AllRulesRemoved(c)
    BY <1>2, <1>4, ConstantTypes DEF TypeOK, AllRulesRemoved, Wants, old, control
  <1> QED BY <1>1, <1>3, <1>4

LEMMA TypeLoop ==
  ASSUME TypeOK, Working, NEW k \in Keys,
         \/ resolveConflictsProcessRules(k) \/ resolveConflicts(k) \/ PutProcRule(k) \/ PutFileRule(k)
  PROVE  TypeOK'
  <1>0. ~Idle
    BY DEF resolveConflictsProcessRules, resolveConflicts, PutProcRule, PutFileRule, Idle
  <1>1. current \in Containers /\ map[current] \in Handles
    BY <1>0 DEF TypeOK, Working
  <1>2. wantProc[current][k] \in Masks /\ wantFile[current][k] \in Masks
    BY <1>1 DEF TypeOK, Lists
  <1> USE <1>1, <1>2, MasksAssumption DEF TypeOK, Visits, Deletes, entry, pinned, want, old, Lists
  <1>3. CASE resolveConflictsProcessRules(k)
    BY <1>3 DEF resolveConflictsProcessRules
  <1>4. CASE resolveConflicts(k)
    BY <1>4 DEF resolveConflicts
  <1>5. CASE PutProcRule(k)
    BY <1>5 DEF PutProcRule
  <1>6. CASE PutFileRule(k)
    BY <1>6 DEF PutFileRule
  <1> QED BY <1>3, <1>4, <1>5, <1>6, SMTT(40)

LEMMA TypePhase ==
  ASSUME TypeOK, Working, ProcConflictsResolved \/ ProcPosture \/ FilePosture \/ UpdateDone
  PROVE  TypeOK'
  <1>0. current \in Containers /\ map[current] \in Handles
    BY DEF TypeOK, Working, Idle, ProcConflictsResolved, ProcPosture, FilePosture, UpdateDone
  <1>1. CASE ProcConflictsResolved
    BY <1>1 DEF TypeOK, ProcConflictsResolved, entry, lists, kernel, pinned, want, old
  <1>2. CASE ProcPosture
    BY <1>0, <1>2 DEF TypeOK, ProcPosture, PutsPosture, ListNames, entry, pinned, lists, want, old
  <1>3. CASE FilePosture
    BY <1>0, <1>3 DEF TypeOK, FilePosture, PutsPosture, ListNames, entry, pinned, lists, want, old
  <1>4. CASE UpdateDone
    BY <1>4, ConstantTypes DEF TypeOK, UpdateDone, entry, lists, kernel, pinned, want
  <1> QED BY <1>1, <1>2, <1>3, <1>4

(***************************************************************************)
(* One key visited.                                                        *)
(***************************************************************************)
\* A loop's step changes the key k of the current container's map and lists.
Touches(k, a, b) ==
  /\ UNCHANGED <<entry, pinned, posture, want, old, current, phase>>
  /\ Visits(k)
  /\ procMask' = [procMask EXCEPT ![map[current]][k] = a]
  /\ fileMask' = [fileMask EXCEPT ![map[current]][k] = b]

LEMMA LoopFrame ==
  ASSUME IInv, ~Idle, NEW k \in Keys, NEW a, NEW b, Touches(k, a, b),
         \A c \in Containers \ {current} : procList'[c] = procList[c] /\ fileList'[c] = fileList[c]
  PROVE  MapsApart' /\ NamespacesApart' /\ Working' /\ OthersSettled' /\ NoLeftovers' /\ PostureInv'
  <1>1. /\ map' = map /\ registered' = registered /\ nskey' = nskey /\ outer' = outer /\ stale' = stale /\ posture' = posture
        /\ current' = current /\ phase' = phase
        /\ wantProc' = wantProc /\ wantFile' = wantFile /\ wantPosture' = wantPosture
    BY DEF Touches, entry, pinned, want
  <1>2. MapsApart' /\ NamespacesApart' /\ Working' /\ NoLeftovers'
    BY <1>1 DEF IInv, MapsApart, NamespacesApart, Working, NoLeftovers, Idle
  <1>3. PostureInv'
    BY <1>1 DEF IInv, UpdateInv, PostureInv, Idle
  <1>4. ASSUME NEW c \in Containers \ {current} PROVE Settled(c)'
    <2>1. Settled(c)
      BY DEF IInv, OthersSettled
    <2>2. map[c] # Nil => map[c] # map[current] /\ map[c] \in Handles
      BY DEF IInv, Working, MapsApart, TypeOK
    <2>3. map[c] # Nil => procMask'[map[c]] = procMask[map[c]] /\ fileMask'[map[c]] = fileMask[map[c]]
      BY <2>2 DEF Touches, IInv, TypeOK
    <2> QED BY <1>1, <2>1, <2>3 DEF Settled, Holds
  <1>5. OthersSettled'
    BY <1>1, <1>4 DEF OthersSettled
  <1> QED BY <1>2, <1>3, <1>5

LEMMA LoopMasks ==
  ASSUME IInv, ~Idle, NEW k \in Keys, NEW a, NEW b, Touches(k, a, b), NEW j \in Keys
  PROVE  /\ j # k => /\ procMask'[map'[current']][j] = procMask[map[current]][j]
                     /\ fileMask'[map'[current']][j] = fileMask[map[current]][j]
         /\ j = k => /\ procMask'[map'[current']][j] = a
                     /\ fileMask'[map'[current']][j] = b
         /\ todo' = todo \ {k} /\ phase' = phase /\ current' = current
         /\ wantProc' = wantProc /\ wantFile' = wantFile
         /\ hadMap' = hadMap /\ oldProc' = oldProc /\ oldFile' = oldFile
  <1>1. current \in Containers /\ map[current] \in Handles
    BY DEF IInv, TypeOK, Working
  <1>2. procMask[map[current]] \in Lists /\ fileMask[map[current]] \in Lists
    BY <1>1 DEF IInv, TypeOK
  <1>3. map'[current'] = map[current]
    BY DEF Touches, entry
  <1> QED BY <1>1, <1>2, <1>3 DEF Touches, Visits, want, old, IInv, TypeOK, Lists

LEMMA DropProcStep ==
  ASSUME IInv, NEW k \in Keys, resolveConflictsProcessRules(k)
  PROVE  IInv'
  <1> USE DEF resolveConflictsProcessRules
  <1>1. ~Idle /\ Touches(k, 0, 0) /\ phase = "dropProc" /\ k \in todo
    BY DEF Idle, Touches, Deletes, Visits
  <1>2. current \in Containers /\ procList[current] \in Lists
    BY <1>1 DEF IInv, TypeOK, Working
  <1>3. /\ fileList' = fileList
        /\ \A c \in Containers \ {current} : procList'[c] = procList[c]
        /\ procList'[current][k] = 0
        /\ \A j \in Keys \ {k} : procList'[current][j] = procList[current][j]
    BY <1>2 DEF IInv, TypeOK, Lists
  <1>4. TypeOK'
    BY TypeLoop, Zenon DEF IInv
  <1>5. MapsApart' /\ NamespacesApart' /\ Working' /\ OthersSettled' /\ NoLeftovers' /\ PostureInv'
    BY <1>1, <1>3, LoopFrame
  <1>6. ASSUME NEW j \in Keys PROVE KeyInv(j)'
    <2>1. KeyInv(j)
      BY <1>1 DEF IInv, UpdateInv
    <2> QED BY <1>1, <1>3, <2>1, LoopMasks DEF KeyInv
  <1>7. TodoInv'
    BY <1>1, <1>3, LoopMasks DEF IInv, UpdateInv, TodoInv
  <1>8. StaysInForce'
    <2>1. ASSUME NEW j \in Keys, hadMap # Nil
          PROVE  /\ (/\ oldProc[j] # 0 /\ wantProc[current][j] = oldProc[j]
                     /\ (oldFile[j] = 0) <=> (wantFile[current][j] = 0))
                    => procMask'[map'[current']][j] = oldProc[j]
                 /\ (/\ oldFile[j] # 0 /\ wantFile[current][j] = oldFile[j]
                     /\ oldProc[j] = 0 /\ wantProc[current][j] = 0)
                    => fileMask'[map'[current']][j] = oldFile[j]
      BY <1>1, <2>1, LoopMasks DEF IInv, UpdateInv, TodoInv, StaysInForce
    <2> QED BY <1>1, <2>1, LoopMasks, SMTT(40) DEF StaysInForce
  <1> QED BY <1>4, <1>5, <1>6, <1>7, <1>8 DEF IInv, UpdateInv

LEMMA DropFileStep ==
  ASSUME IInv, NEW k \in Keys, resolveConflicts(k)
  PROVE  IInv'
  <1> USE DEF resolveConflicts
  <1>1. ~Idle /\ Touches(k, 0, 0) /\ phase = "dropFile" /\ k \in todo
    BY DEF Idle, Touches, Deletes, Visits
  <1>2. current \in Containers /\ fileList[current] \in Lists
    BY <1>1 DEF IInv, TypeOK, Working
  <1>3. /\ procList' = procList
        /\ \A c \in Containers \ {current} : fileList'[c] = fileList[c]
        /\ fileList'[current][k] = 0
        /\ \A j \in Keys \ {k} : fileList'[current][j] = fileList[current][j]
    BY <1>2 DEF IInv, TypeOK, Lists
  <1>4. TypeOK'
    BY TypeLoop, Zenon DEF IInv
  <1>5. MapsApart' /\ NamespacesApart' /\ Working' /\ OthersSettled' /\ NoLeftovers' /\ PostureInv'
    BY <1>1, <1>3, LoopFrame
  <1>6. ASSUME NEW j \in Keys PROVE KeyInv(j)'
    <2>1. KeyInv(j)
      BY <1>1 DEF IInv, UpdateInv
    <2> QED BY <1>1, <1>3, <2>1, LoopMasks DEF KeyInv
  <1>7. TodoInv'
    BY <1>1, <1>3, LoopMasks DEF IInv, UpdateInv, TodoInv
  <1>8. StaysInForce'
    <2>1. ASSUME NEW j \in Keys, hadMap # Nil
          PROVE  /\ (/\ oldProc[j] # 0 /\ wantProc[current][j] = oldProc[j]
                     /\ (oldFile[j] = 0) <=> (wantFile[current][j] = 0))
                    => procMask'[map'[current']][j] = oldProc[j]
                 /\ (/\ oldFile[j] # 0 /\ wantFile[current][j] = oldFile[j]
                     /\ oldProc[j] = 0 /\ wantProc[current][j] = 0)
                    => fileMask'[map'[current']][j] = oldFile[j]
      BY <1>1, <2>1, LoopMasks DEF IInv, UpdateInv, TodoInv, StaysInForce
    <2> QED BY <1>1, <2>1, LoopMasks, SMTT(40) DEF StaysInForce
  <1> QED BY <1>4, <1>5, <1>6, <1>7, <1>8 DEF IInv, UpdateInv

LEMMA PutProcStep ==
  ASSUME IInv, NEW k \in Keys, PutProcRule(k)
  PROVE  IInv'
  <1> USE DEF PutProcRule
  <1>1. ~Idle /\ Touches(k, wantProc[current][k], 0) /\ phase = "putProc" /\ k \in todo
    BY DEF Idle, Touches, Deletes, Visits
  <1>2. current \in Containers /\ procList[current] \in Lists
    BY <1>1 DEF IInv, TypeOK, Working
  <1>3. /\ fileList' = fileList
        /\ \A c \in Containers \ {current} : procList'[c] = procList[c]
        /\ procList'[current][k] = wantProc[current][k]
        /\ \A j \in Keys \ {k} : procList'[current][j] = procList[current][j]
    BY <1>2 DEF IInv, TypeOK, Lists
  <1>4. TypeOK'
    BY TypeLoop, Zenon DEF IInv
  <1>5. MapsApart' /\ NamespacesApart' /\ Working' /\ OthersSettled' /\ NoLeftovers' /\ PostureInv'
    BY <1>1, <1>3, LoopFrame, SMTT(40)
  <1>6. ASSUME NEW j \in Keys PROVE KeyInv(j)'
    <2>1. KeyInv(j)
      BY <1>1 DEF IInv, UpdateInv
    <2> QED BY <1>1, <1>3, <2>1, LoopMasks DEF KeyInv
  <1>7. TodoInv'
    BY <1>1, <1>3, LoopMasks, SMTT(40) DEF IInv, UpdateInv, TodoInv
  <1>8. StaysInForce'
    <2>1. ASSUME NEW j \in Keys, hadMap # Nil
          PROVE  /\ (/\ oldProc[j] # 0 /\ wantProc[current][j] = oldProc[j]
                     /\ (oldFile[j] = 0) <=> (wantFile[current][j] = 0))
                    => procMask'[map'[current']][j] = oldProc[j]
                 /\ (/\ oldFile[j] # 0 /\ wantFile[current][j] = oldFile[j]
                     /\ oldProc[j] = 0 /\ wantProc[current][j] = 0)
                    => fileMask'[map'[current']][j] = oldFile[j]
      BY <1>1, <2>1, LoopMasks DEF IInv, UpdateInv, TodoInv, StaysInForce
    <2> QED BY <1>1, <2>1, LoopMasks, SMTT(40) DEF StaysInForce
  <1> QED BY <1>4, <1>5, <1>6, <1>7, <1>8 DEF IInv, UpdateInv

LEMMA PutFileStep ==
  ASSUME IInv, NEW k \in Keys, PutFileRule(k)
  PROVE  IInv'
  <1> USE DEF PutFileRule
  <1>1. ~Idle /\ Touches(k, wantProc[current][k], wantFile[current][k]) /\ phase = "putFile" /\ k \in todo
    BY DEF Idle, Touches, Deletes, Visits
  <1>2. current \in Containers /\ fileList[current] \in Lists
    BY <1>1 DEF IInv, TypeOK, Working
  <1>3. /\ procList' = procList
        /\ \A c \in Containers \ {current} : fileList'[c] = fileList[c]
        /\ fileList'[current][k] = wantFile[current][k]
        /\ \A j \in Keys \ {k} : fileList'[current][j] = fileList[current][j]
    BY <1>2 DEF IInv, TypeOK, Lists
  <1>4. TypeOK'
    BY TypeLoop, Zenon DEF IInv
  <1>5. MapsApart' /\ NamespacesApart' /\ Working' /\ OthersSettled' /\ NoLeftovers' /\ PostureInv'
    BY <1>1, <1>3, LoopFrame, SMTT(40)
  <1>6. ASSUME NEW j \in Keys PROVE KeyInv(j)'
    <2>1. KeyInv(j)
      BY <1>1 DEF IInv, UpdateInv
    <2> QED BY <1>1, <1>3, <2>1, LoopMasks, SMTT(40) DEF KeyInv
  <1>7. TodoInv'
    BY <1>1, <1>3, LoopMasks, SMTT(40) DEF IInv, UpdateInv, TodoInv
  <1>8. StaysInForce'
    <2>1. ASSUME NEW j \in Keys, hadMap # Nil
          PROVE  /\ (/\ oldProc[j] # 0 /\ wantProc[current][j] = oldProc[j]
                     /\ (oldFile[j] = 0) <=> (wantFile[current][j] = 0))
                    => procMask'[map'[current']][j] = oldProc[j]
                 /\ (/\ oldFile[j] # 0 /\ wantFile[current][j] = oldFile[j]
                     /\ oldProc[j] = 0 /\ wantProc[current][j] = 0)
                    => fileMask'[map'[current']][j] = oldFile[j]
      BY <1>1, <2>1, LoopMasks, SMTT(40) DEF IInv, UpdateInv, TodoInv, StaysInForce
    <2> QED BY <1>1, <2>1, LoopMasks, SMTT(40) DEF StaysInForce
  <1> QED BY <1>4, <1>5, <1>6, <1>7, <1>8 DEF IInv, UpdateInv

(***************************************************************************)
(* From one loop to the next.                                              *)
(***************************************************************************)
LEMMA PhaseFrame ==
  ASSUME IInv, ~Idle, phase' # "idle",
         UNCHANGED <<entry, lists, pinned, procMask, fileMask, want, old, current>>,
         \A h \in Handles \ {map[current]} : posture'[h] = posture[h]
  PROVE  MapsApart' /\ NamespacesApart' /\ Working' /\ OthersSettled' /\ NoLeftovers' /\ StaysInForce'
  <1>1. /\ map' = map /\ registered' = registered /\ nskey' = nskey /\ outer' = outer /\ stale' = stale
        /\ procList' = procList /\ fileList' = fileList /\ procMask' = procMask /\ fileMask' = fileMask
        /\ current' = current /\ wantProc' = wantProc /\ wantFile' = wantFile /\ wantPosture' = wantPosture
        /\ hadMap' = hadMap /\ oldProc' = oldProc /\ oldFile' = oldFile
    BY DEF entry, lists, pinned, want, old
  <1>2. MapsApart' /\ NamespacesApart' /\ Working' /\ NoLeftovers'
    BY <1>1, ZenonT(40) DEF IInv, MapsApart, NamespacesApart, Working, NoLeftovers, Idle
  <1>3. ASSUME NEW c \in Containers \ {current} PROVE Settled(c)'
    <2>1. Settled(c)
      BY DEF IInv, OthersSettled
    <2>2. map[c] # Nil => map[c] \in Handles \ {map[current]}
      BY DEF IInv, Working, MapsApart, TypeOK
    <2> QED BY <1>1, <2>1, <2>2, ZenonT(40) DEF Settled, Holds
  <1>4. StaysInForce'
    BY <1>1, ZenonT(40) DEF IInv, StaysInForce, Idle
  <1> QED BY <1>1, <1>2, <1>3, <1>4, Zenon DEF OthersSettled

LEMMA ProcResolvedStep ==
  ASSUME IInv, ProcConflictsResolved
  PROVE  IInv'
  <1> USE DEF ProcConflictsResolved
  <1>1. ~Idle /\ phase = "dropProc" /\ phase' = "dropFile" /\ todo = {}
    BY DEF Idle
  <1>2. MapsApart' /\ NamespacesApart' /\ Working' /\ OthersSettled' /\ NoLeftovers' /\ StaysInForce'
    BY <1>1, PhaseFrame, ZenonT(40) DEF kernel, pinned
  <1>3. TypeOK'
    BY TypePhase DEF IInv
  <1>4. TodoInv'
    BY <1>1 DEF IInv, UpdateInv, TodoInv, lists, want, old
  <1>5. ASSUME NEW j \in Keys PROVE KeyInv(j)'
    <2>1. KeyInv(j)
      BY <1>1 DEF IInv, UpdateInv
    <2> QED BY <1>1, <2>1 DEF KeyInv, entry, lists, kernel, pinned, want
  <1>6. PostureInv'
    BY <1>1 DEF PostureInv
  <1> QED BY <1>2, <1>3, <1>4, <1>5, <1>6, ZenonT(40) DEF IInv, UpdateInv

LEMMA ProcPostureStep ==
  ASSUME IInv, ProcPosture
  PROVE  IInv'
  <1> USE DEF ProcPosture
  <1>1. ~Idle /\ phase = "dropFile" /\ phase' = "putProc" /\ todo = {}
    BY DEF Idle
  <1>2. current \in Containers /\ map[current] \in Handles
    BY <1>1 DEF IInv, TypeOK, Working
  <1>3. /\ \A h \in Handles \ {map[current]} : posture'[h] = posture[h]
        /\ posture'[map[current]]["process"] = wantPosture[current]["process"]
    BY <1>2, SMTT(40) DEF IInv, TypeOK, PutsPosture, ListNames
  <1>4. MapsApart' /\ NamespacesApart' /\ Working' /\ OthersSettled' /\ NoLeftovers' /\ StaysInForce'
    BY <1>1, <1>3, PhaseFrame
  <1>5. TypeOK'
    BY TypePhase, ZenonT(40) DEF IInv
  <1>6. TodoInv'
    BY <1>1 DEF IInv, UpdateInv, TodoInv, want
  <1>7. ASSUME NEW j \in Keys PROVE KeyInv(j)'
    <2>1. KeyInv(j)
      BY <1>1 DEF IInv, UpdateInv
    <2> QED BY <1>1, <2>1 DEF KeyInv, entry, lists, want
  <1>8. PostureInv'
    BY <1>1, <1>3 DEF PostureInv, entry, want
  <1> QED BY <1>4, <1>5, <1>6, <1>7, <1>8 DEF IInv, UpdateInv

LEMMA FilePostureStep ==
  ASSUME IInv, FilePosture
  PROVE  IInv'
  <1> USE DEF FilePosture
  <1>1. ~Idle /\ phase = "putProc" /\ phase' = "putFile" /\ todo = {}
    BY DEF Idle
  <1>2. current \in Containers /\ map[current] \in Handles
    BY <1>1 DEF IInv, TypeOK, Working
  <1>3. /\ \A h \in Handles \ {map[current]} : posture'[h] = posture[h]
        /\ posture'[map[current]]["file"] = wantPosture[current]["file"]
        /\ posture'[map[current]]["process"] = posture[map[current]]["process"]
    BY <1>2 DEF IInv, TypeOK, PutsPosture, ListNames
  <1>4. MapsApart' /\ NamespacesApart' /\ Working' /\ OthersSettled' /\ NoLeftovers' /\ StaysInForce'
    BY <1>1, <1>3, PhaseFrame
  <1>5. TypeOK'
    BY TypePhase DEF IInv
  <1>6. TodoInv'
    BY <1>1 DEF IInv, UpdateInv, TodoInv, want
  <1>7. ASSUME NEW j \in Keys PROVE KeyInv(j)'
    <2>1. KeyInv(j)
      BY <1>1 DEF IInv, UpdateInv
    <2> QED BY <1>1, <2>1 DEF KeyInv, entry, lists, want
  <1>8. PostureInv'
    BY <1>1, <1>3, Zenon DEF IInv, UpdateInv, PostureInv, entry, want
  <1> QED BY <1>4, <1>5, <1>6, <1>7, <1>8, Zenon DEF IInv, UpdateInv

LEMMA UpdateDoneStep ==
  ASSUME IInv, UpdateDone
  PROVE  IInv'
  <1> USE DEF UpdateDone
  <1>1. ~Idle /\ phase = "putFile" /\ Idle' /\ todo = {} /\ current' = NoOne
    BY DEF Idle
  <1>2. TypeOK'
    BY TypePhase DEF IInv
  <1>3. current \in Containers /\ map[current] \in Handles /\ map[current] # Nil
    BY <1>1 DEF IInv, TypeOK, Working
  <1>4. ASSUME NEW j \in Keys
        PROVE  /\ procList[current][j] = wantProc[current][j]
               /\ fileList[current][j] = wantFile[current][j]
               /\ procMask[map[current]][j] = wantProc[current][j]
               /\ fileMask[map[current]][j] = wantFile[current][j]
    <2>1. KeyInv(j)
      BY <1>1 DEF IInv, UpdateInv
    <2> QED BY <1>1, <2>1 DEF KeyInv
  <1>5. /\ procList[current] = wantProc[current] /\ fileList[current] = wantFile[current]
        /\ procMask[map[current]] = wantProc[current] /\ fileMask[map[current]] = wantFile[current]
    BY <1>3, <1>4 DEF IInv, TypeOK, Lists
  <1>6. posture[map[current]] = wantPosture[current]
    BY <1>1, <1>3 DEF IInv, TypeOK, UpdateInv, PostureInv, ListNames
  <1>7. \A c \in Containers : Settled(c)
    BY <1>3, <1>5, <1>6 DEF IInv, OthersSettled, Settled, Holds
  <1>8. OthersSettled'
    BY <1>7, SMTT(40) DEF OthersSettled, Settled, Holds, entry, lists, kernel, pinned, want
  <1>9. MapsApart' /\ NamespacesApart' /\ Working' /\ NoLeftovers' /\ StaysInForce' /\ UpdateInv'
    BY <1>1 DEF IInv, MapsApart, NamespacesApart, Working, NoLeftovers, StaysInForce, UpdateInv, entry, kernel, pinned
  <1> QED BY <1>2, <1>8, <1>9 DEF IInv

(***************************************************************************)
(* Registration, and the start of an update.                               *)
(***************************************************************************)
LEMMA InitInv == Init => IInv
  <1> SUFFICES ASSUME Init PROVE IInv
    OBVIOUS
  <1>1. TypeOK
    BY TypeInit
  <1>2. MapsApart /\ NamespacesApart /\ Working /\ NoLeftovers /\ StaysInForce /\ UpdateInv
    BY DEF Init, MapsApart, NamespacesApart, Working, NoLeftovers, StaysInForce, UpdateInv, Idle
  <1>3. OthersSettled
    BY DEF Init, OthersSettled, Settled
  <1> QED BY <1>1, <1>2, <1>3 DEF IInv

LEMMA RegisterStep ==
  ASSUME IInv, NEW c \in Containers, NEW n \in Namespaces, AddContainerIDToMap(c, n)
  PROVE  IInv'
  <1> USE DEF AddContainerIDToMap
  <1>1. Idle /\ Idle' /\ current = NoOne /\ current' = NoOne
    BY DEF IInv, Working, Idle, control
  <1>2. TypeOK'
    BY TypeEntry, Zenon DEF IInv
  <1>3. map[c] = Nil /\ map' = map
    BY DEF IInv, TypeOK, MapsApart
  <1>4. \A d \in Containers : Settled(d)
    BY <1>1, NilAssumption DEF IInv, OthersSettled
  <1>5. procList' = procList /\ fileList' = fileList
    <2>1. procList[c] = NoRules /\ fileList[c] = NoRules
      BY <1>3, <1>4 DEF Settled
    <2> QED BY <2>1, SMTT(40) DEF IInv, TypeOK
  <1>6. OthersSettled'
    BY <1>3, <1>4, <1>5, ZenonT(40) DEF OthersSettled, Settled, Holds, kernel, pinned, want
  <1>7. \A d \in registered : nskey'[d] = nskey[d]
    BY DEF IInv, TypeOK
  <1>8. nskey'[c] = n
    BY DEF IInv, TypeOK
  <1>9. MapsApart' /\ NamespacesApart' /\ Working'
    BY <1>1, <1>3, <1>7, <1>8 DEF IInv, MapsApart, NamespacesApart, Working
  <1>10. NoLeftovers'
    BY <1>3, <1>7 DEF IInv, NoLeftovers, kernel, pinned
  <1>11. StaysInForce' /\ UpdateInv'
    BY <1>1 DEF StaysInForce, UpdateInv
  <1> QED BY <1>2, <1>6, <1>9, <1>10, <1>11, ZenonT(40) DEF IInv

\* What DeleteContainerInnerMap leaves of the other containers, of their
\* maps, and of the outer map.
OthersKept(c) ==
  \A d \in Containers \ {c} : map'[d] = map[d] /\ procList'[d] = procList[d] /\ fileList'[d] = fileList[d]

TheirMapsKept(c) ==
  \A d \in Containers \ {c} : map[d] # Nil => /\ procMask'[map[d]] = procMask[map[d]]
                                              /\ fileMask'[map[d]] = fileMask[map[d]]
                                              /\ posture'[map[d]] = posture[map[d]]

OuterKept(c) ==
  \A n \in Namespaces : outer'[n] # Nil =>
    outer'[n] = outer[n] /\ (map[c] # Nil => n # nskey[c]) /\ (n \in stale => n \in stale')

LEMMA DropsMapFacts ==
  ASSUME IInv, NEW c \in Containers, DropsMap(c)
  PROVE  /\ map'[c] = Nil /\ procList'[c] = NoRules /\ fileList'[c] = NoRules
         /\ OthersKept(c) /\ TheirMapsKept(c) /\ OuterKept(c)
  <1>1. CASE map[c] = Nil
    <2>1. UNCHANGED <<map, lists, kernel>>
      BY <1>1, Zenon DEF DropsMap
    <2>2. current # c
      BY <1>1, NilAssumption DEF IInv, Working
    <2>3. procList[c] = NoRules /\ fileList[c] = NoRules
      BY <1>1, <2>2 DEF IInv, OthersSettled, Settled
    <2> QED BY <1>1, <2>1, <2>3 DEF lists, kernel, pinned, OthersKept, TheirMapsKept, OuterKept
  <1>2. CASE map[c] # Nil
    <2>1. /\ outer' = [outer EXCEPT ![nskey[c]] = Nil]
          /\ stale' = stale \ {nskey[c]}
          /\ map' = [map EXCEPT ![c] = Nil]
          /\ procList' = [procList EXCEPT ![c] = NoRules]
          /\ fileList' = [fileList EXCEPT ![c] = NoRules]
          /\ Clears(map[c])
      BY <1>2, Zenon DEF DropsMap
    <2>2. \A d \in Containers \ {c} : map[d] # Nil => map[d] # map[c] /\ map[d] \in Handles
      BY <1>2 DEF IInv, TypeOK, MapsApart
    <2>3. OuterKept(c)
      BY <2>1, SMTT(40) DEF IInv, TypeOK, OuterKept
    <2>4. TheirMapsKept(c)
      BY <2>1, <2>2 DEF IInv, TypeOK, Clears, TheirMapsKept
    <2>5. map'[c] = Nil /\ procList'[c] = NoRules /\ fileList'[c] = NoRules /\ OthersKept(c)
      BY <2>1 DEF IInv, TypeOK, OthersKept
    <2> QED BY <2>3, <2>4, <2>5
  <1> QED BY <1>1, <1>2

\* A container loses its map, and perhaps its registration.
LEMMA DropFrame ==
  ASSUME IInv, NEW c \in Containers, Idle, TypeOK', DropsMap(c), Wants(c, NoRules, NoRules, NoPosture),
         UNCHANGED <<old, control>>,
         registered' \in {registered, registered \ {c}},
         \A d \in registered' : nskey'[d] = nskey[d]
  PROVE  IInv'
  <1>1. Idle' /\ current = NoOne /\ current' = NoOne
    BY DEF IInv, Working, Idle, control
  <1>2. /\ map'[c] = Nil /\ procList'[c] = NoRules /\ fileList'[c] = NoRules
        /\ OthersKept(c) /\ TheirMapsKept(c) /\ OuterKept(c)
    BY DropsMapFacts
  <1>3. /\ wantProc'[c] = NoRules /\ wantFile'[c] = NoRules
        /\ \A d \in Containers \ {c} : /\ wantProc'[d] = wantProc[d] /\ wantFile'[d] = wantFile[d]
                                       /\ wantPosture'[d] = wantPosture[d]
    BY DEF Wants, IInv, TypeOK
  <1>4. ASSUME NEW d \in Containers PROVE Settled(d)'
    <2>1. CASE d = c
      BY <1>2, <1>3, <2>1, ZenonT(40) DEF Settled
    <2>2. CASE d # c
      <3>1. Settled(d)
        BY <1>1, NilAssumption DEF IInv, OthersSettled
      <3>2. /\ map'[d] = map[d] /\ procList'[d] = procList[d] /\ fileList'[d] = fileList[d]
            /\ wantProc'[d] = wantProc[d] /\ wantFile'[d] = wantFile[d] /\ wantPosture'[d] = wantPosture[d]
        BY <1>2, <1>3, <2>2, Zenon DEF OthersKept
      <3>3. map[d] # Nil => Holds(map[d], d)'
        <4> SUFFICES ASSUME map[d] # Nil PROVE Holds(map[d], d)'
          OBVIOUS
        <4>1. /\ procMask'[map[d]] = procMask[map[d]] /\ fileMask'[map[d]] = fileMask[map[d]]
              /\ posture'[map[d]] = posture[map[d]]
          BY <1>2, <2>2 DEF TheirMapsKept
        <4> QED BY <3>1, <3>2, <4>1 DEF Settled, Holds
      <3> QED BY <3>1, <3>2, <3>3, ZenonT(40) DEF Settled
    <2> QED BY <2>1, <2>2
  <1>5. MapsApart'
    <2>1. \A d \in Containers : map'[d] # Nil => d # c /\ map'[d] = map[d]
      BY <1>2, Zenon DEF OthersKept
    <2>2. MapsApart
      BY DEF IInv
    <2>3. \A d \in Containers : d \notin registered' => map'[d] = Nil
      BY <2>1, <2>2, <1>2, SMTT(40) DEF MapsApart
    <2> QED BY <2>1, <2>2, <2>3 DEF MapsApart
  <1>6. NamespacesApart'
    BY DEF IInv, NamespacesApart
  <1>7. NoLeftovers'
    <2> SUFFICES ASSUME NEW n \in Namespaces, outer'[n] # Nil
                 PROVE  \/ \E d \in registered' : nskey'[d] = n /\ map'[d] = outer'[n]
                        \/ n \in stale' /\ \A d \in registered' : nskey'[d] = n => map'[d] = Nil
      BY DEF NoLeftovers
    <2>1. outer'[n] = outer[n] /\ (map[c] # Nil => n # nskey[c]) /\ (n \in stale => n \in stale')
      BY <1>2 DEF OuterKept
    <2>2. registered \subseteq Containers
      BY DEF IInv, TypeOK
    <2>3. CASE \E d \in registered : nskey[d] = n /\ map[d] = outer[n]
      <3>1. PICK d \in registered : nskey[d] = n /\ map[d] = outer[n]
        BY <2>3, Zenon
      <3>2. d # c
        BY <2>1, <3>1, Zenon
      <3>3. map'[d] = map[d] /\ d \in registered'
        BY <1>2, <2>2, <3>2, ZenonT(40) DEF OthersKept
      <3> QED BY <2>1, <3>1, <3>3, Zenon
    <2>4. CASE n \in stale /\ \A d \in registered : nskey[d] = n => map[d] = Nil
      <3>1. ASSUME NEW d \in registered', nskey'[d] = n PROVE map'[d] = Nil
        <4>1. d \in registered /\ nskey[d] = n
          BY <3>1, ZenonT(40)
        <4> QED BY <1>2, <2>2, <2>4, <4>1, ZenonT(40) DEF OthersKept
      <3> QED BY <2>1, <2>4, <3>1, ZenonT(40)
    <2> QED BY <2>1, <2>3, <2>4 DEF IInv, NoLeftovers
  <1>8. Working' /\ StaysInForce' /\ UpdateInv' /\ OthersSettled'
    BY <1>1, <1>4, ZenonT(40) DEF Working, StaysInForce, UpdateInv, OthersSettled
  <1> QED BY <1>5, <1>6, <1>7, <1>8 DEF IInv

LEMMA UnregisterStep ==
  ASSUME IInv, NEW c \in Containers, DeleteContainerIDFromMap(c)
  PROVE  IInv'
  <1>1. TypeOK'
    BY TypeEntry DEF IInv
  <1>2. \A d \in registered' : nskey'[d] = nskey[d]
    BY DEF IInv, TypeOK, DeleteContainerIDFromMap
  <1> QED BY <1>1, <1>2, DropFrame DEF DeleteContainerIDFromMap

LEMMA RulesRemovedStep ==
  ASSUME IInv, NEW c \in Containers, AllRulesRemoved(c)
  PROVE  IInv'
  <1>1. TypeOK'
    BY TypeEntry DEF IInv
  <1> QED BY <1>1, DropFrame DEF AllRulesRemoved

\* The daemon starts again.
LEMMA EndStep ==
  ASSUME IInv, Restart \/ InitialCleanUp \/ DestroyBPFEnforcer
  PROVE  IInv'
  <1>1. Forgets
    BY DEF Restart, InitialCleanUp, DestroyBPFEnforcer
  <1>2. outer' \in [Namespaces -> Handles \cup {Nil}] /\ stale' \subseteq Namespaces
    <2>1. CASE Restart
      BY <2>1 DEF Restart, IInv, TypeOK
    <2>2. CASE InitialCleanUp \/ DestroyBPFEnforcer
      BY <2>2 DEF InitialCleanUp, DestroyBPFEnforcer
    <2> QED BY <2>1, <2>2
  <1>3. TypeOK'
    BY <1>1, <1>2, ConstantTypes DEF Forgets, TypeOK
  <1>4. MapsApart' /\ NamespacesApart' /\ Working' /\ StaysInForce' /\ UpdateInv'
    BY <1>1 DEF Forgets, MapsApart, NamespacesApart, Working, StaysInForce, UpdateInv, Idle
  <1>5. OthersSettled'
    BY <1>1 DEF Forgets, OthersSettled, Settled
  <1>6. \A n \in Namespaces : outer'[n] # Nil => n \in stale'
    <2>1. CASE Restart
      BY <2>1 DEF Restart
    <2>2. CASE InitialCleanUp \/ DestroyBPFEnforcer
      BY <2>2, SMTT(40) DEF InitialCleanUp, DestroyBPFEnforcer
    <2> QED BY <2>1, <2>2
  <1>7. NoLeftovers'
    BY <1>1, <1>6 DEF Forgets, NoLeftovers
  <1> QED BY <1>3, <1>4, <1>5, <1>7 DEF IInv

\* Where an update begins, its map and its lists agree.
LEMMA StartedInv ==
  ASSUME IInv, TypeOK', NEW c \in Containers, NEW p \in Lists, NEW f \in Lists, NEW q \in [ListNames -> Postures],
         StartsUpdate(c, p, f, q), UNCHANGED lists, map'[c] # Nil,
         procMask'[map'[c]] = procList[c], fileMask'[map'[c]] = fileList[c]
  PROVE  UpdateInv' /\ StaysInForce'
  <1> USE DEF StartsUpdate
  <1>1. /\ current' = c /\ phase' = "dropProc" /\ ~Idle'
        /\ wantProc'[c] = p /\ wantFile'[c] = f
        /\ procList' = procList /\ fileList' = fileList
    BY DEF Wants, IInv, TypeOK, lists, Idle
  <1>2. TodoInv' /\ PostureInv'
    BY <1>1 DEF TodoInv, PostureInv
  <1>3. ASSUME NEW k \in Keys PROVE KeyInv(k)'
    BY <1>1, ZenonT(40) DEF KeyInv
  <1>4. StaysInForce'
    BY <1>1 DEF StaysInForce
  <1> QED BY <1>2, <1>3, <1>4, ZenonT(40) DEF UpdateInv

LEMMA UpdateStep ==
  ASSUME IInv, NEW c \in Containers, NEW p \in Lists, NEW f \in Lists, NEW q \in [ListNames -> Postures],
         UpdateWithMap(c, p, f, q)
  PROVE  IInv'
  <1>0. map[c] # Nil /\ StartsUpdate(c, p, f, q) /\ UNCHANGED <<entry, lists, kernel>>
    BY SMTT(40) DEF UpdateWithMap
  <1>1. Idle /\ ~Idle' /\ current = NoOne /\ current' = c /\ c \in registered
    BY <1>0, ZenonT(40) DEF StartsUpdate, IInv, Working, Idle
  <1>2. TypeOK'
    BY TypeStart DEF IInv
  <1>3. \A d \in Containers : Settled(d)
    BY <1>1, NilAssumption DEF IInv, OthersSettled
  <1>4. OthersSettled'
    <2>1. \A d \in Containers \ {c} : /\ wantProc'[d] = wantProc[d] /\ wantFile'[d] = wantFile[d]
                                     /\ wantPosture'[d] = wantPosture[d]
      BY <1>0 DEF StartsUpdate, Wants, IInv, TypeOK
    <2> QED BY <1>0, <1>1, <1>3, <2>1, ZenonT(40) DEF OthersSettled, Settled, Holds, entry, lists, kernel
  <1>5. MapsApart' /\ NamespacesApart' /\ Working' /\ NoLeftovers'
    BY <1>0, <1>1, ZenonT(40) DEF IInv, MapsApart, NamespacesApart, Working, NoLeftovers, entry, kernel, pinned
  <1>6. UpdateInv' /\ StaysInForce'
    <2>1. map'[c] # Nil /\ procMask'[map'[c]] = procList[c] /\ fileMask'[map'[c]] = fileList[c]
      BY <1>0, <1>3, ZenonT(40) DEF Settled, Holds, entry, kernel
    <2> QED BY <1>0, <1>2, <2>1, StartedInv, Zenon
  <1> QED BY <1>2, <1>4, <1>5, <1>6 DEF IInv

LEMMA CreateStep ==
  ASSUME IInv, NEW c \in Containers, NEW p \in Lists, NEW f \in Lists, NEW q \in [ListNames -> Postures],
         NEW h \in Handles, UpdateCreatesMap(c, p, f, q, h)
  PROVE  IInv'
  <1>0. /\ map[c] = Nil /\ ~InUse(h) /\ StartsUpdate(c, p, f, q) /\ Clears(h)
        /\ map' = [map EXCEPT ![c] = h]
        /\ registered' = registered /\ nskey' = nskey /\ UNCHANGED lists
    BY Zenon DEF UpdateCreatesMap
  <1>1. Idle /\ ~Idle' /\ current = NoOne /\ current' = c /\ c \in registered
    BY <1>0, Zenon DEF StartsUpdate, IInv, Working, Idle
  <1>2. TypeOK'
    BY TypeStart DEF IInv
  <1>3. \A d \in Containers : Settled(d)
    BY <1>1, NilAssumption DEF IInv, OthersSettled
  <1>4. /\ map'[c] = h /\ h # Nil
        /\ \A d \in Containers \ {c} : map'[d] = map[d] /\ map[d] # h
    BY <1>0, NilAssumption DEF IInv, TypeOK, InUse
  <1>5. /\ procMask'[h] = NoRules /\ fileMask'[h] = NoRules
        /\ \A g \in Handles \ {h} : /\ procMask'[g] = procMask[g] /\ fileMask'[g] = fileMask[g]
                                    /\ posture'[g] = posture[g]
    BY <1>0, SMTT(40) DEF Clears, IInv, TypeOK
  <1>6. \A d \in Containers \ {c} : /\ wantProc'[d] = wantProc[d] /\ wantFile'[d] = wantFile[d]
                                   /\ wantPosture'[d] = wantPosture[d]
    BY <1>0 DEF StartsUpdate, Wants, IInv, TypeOK
  <1>7. ASSUME NEW d \in Containers \ {c} PROVE Settled(d)'
    <2>1. map[d] # Nil => map[d] \in Handles \ {h}
      BY <1>4 DEF IInv, TypeOK
    <2>2. Settled(d) /\ procList' = procList /\ fileList' = fileList /\ map'[d] = map[d]
      BY <1>0, <1>3, <1>4, SMTT(40) DEF lists
    <2>3. map[d] # Nil => Holds(map[d], d)'
      BY <1>5, <1>6, <2>1, <2>2 DEF Settled, Holds
    <2> QED BY <1>6, <2>2, <2>3, Zenon DEF Settled
  <1>8. MapsApart' /\ NamespacesApart' /\ Working'
    <2>1. MapsApart'
      BY <1>0, <1>1, <1>4 DEF IInv, MapsApart
    <2>2. NamespacesApart'
      BY <1>0 DEF IInv, NamespacesApart
    <2>3. Working'
      BY <1>0, <1>1, <1>4 DEF Working
    <2> QED BY <2>1, <2>2, <2>3
  <1>9. NoLeftovers'
    <2> SUFFICES ASSUME NEW n \in Namespaces, outer'[n] # Nil
                 PROVE  \/ \E d \in registered : nskey[d] = n /\ map'[d] = outer'[n]
                        \/ n \in stale' /\ \A d \in registered : nskey[d] = n => map'[d] = Nil
      BY <1>0, ZenonT(40) DEF NoLeftovers
    <2>1. CASE outer'[n] = h /\ n = nskey[c]
      BY <1>1, <1>4, <2>1
    <2>2. CASE outer'[n] = outer[n] /\ n # nskey[c] /\ (n \in stale => n \in stale')
      <3>1. registered \subseteq Containers
        BY Zenon DEF IInv, TypeOK
      <3>2. \A d \in registered : nskey[d] = n => map'[d] = map[d]
        BY <1>4, <2>2, <3>1, Zenon
      <3>3. \/ \E d \in registered : nskey[d] = n /\ map[d] = outer[n]
            \/ n \in stale /\ \A d \in registered : nskey[d] = n => map[d] = Nil
        BY <2>2, Zenon DEF IInv, NoLeftovers
      <3> QED BY <2>2, <3>2, <3>3, Zenon
    <2>3. \/ outer' = [outer EXCEPT ![nskey[c]] = h] /\ stale' = stale \ {nskey[c]}
          \/ outer' = outer /\ stale' = stale /\ outer[nskey[c]] = Nil
      BY Zenon DEF UpdateCreatesMap, pinned
    <2>4. CASE outer' = [outer EXCEPT ![nskey[c]] = h] /\ stale' = stale \ {nskey[c]}
      BY <2>1, <2>2, <2>4, SMTT(40) DEF IInv, TypeOK
    <2>5. CASE outer' = outer /\ stale' = stale /\ outer[nskey[c]] = Nil
      <3>1. n # nskey[c]
        BY <2>5
      <3> QED BY <2>2, <2>5, <3>1, SMTT(40)
    <2> QED BY <2>3, <2>4, <2>5, Zenon
  <1>10. UpdateInv' /\ StaysInForce'
    <2>0. map[c] = Nil /\ Settled(c)
      BY <1>0, <1>3, ZenonT(40)
    <2>1. procList[c] = NoRules /\ fileList[c] = NoRules
      BY <2>0, ZenonT(40) DEF Settled
    <2>2. map'[c] # Nil /\ procMask'[map'[c]] = procList[c] /\ fileMask'[map'[c]] = fileList[c]
      BY <1>4, <1>5, <2>1, ZenonT(40)
    <2> QED BY <1>0, <1>2, <2>2, StartedInv, ZenonT(40)
  <1> QED BY <1>1, <1>2, <1>7, <1>8, <1>9, <1>10 DEF IInv, OthersSettled

LEMMA InvStep == IInv /\ [Next]_vars => IInv'
  <1> SUFFICES ASSUME IInv, [Next]_vars PROVE IInv'
    OBVIOUS
  <1>1. CASE Next
    BY <1>1, RegisterStep, UnregisterStep, RulesRemovedStep, UpdateStep, CreateStep,
       DropProcStep, DropFileStep, PutProcStep, PutFileStep,
       ProcResolvedStep, ProcPostureStep, FilePostureStep, UpdateDoneStep, EndStep DEF Next
  <1>2. CASE UNCHANGED vars
    <2> USE <1>2 DEF vars, entry, lists, kernel, pinned, want, old, control, IInv
    <2>1. TypeOK'
      BY DEF TypeOK
    <2>2. MapsApart' /\ NamespacesApart' /\ Working' /\ NoLeftovers'
      BY DEF MapsApart, NamespacesApart, Working, NoLeftovers, Idle
    <2>3. OthersSettled'
      BY ZenonT(40) DEF OthersSettled, Settled, Holds
    <2>4. StaysInForce'
      BY DEF StaysInForce, Idle
    <2>5. UpdateInv'
      BY ZenonT(40) DEF UpdateInv, TodoInv, KeyInv, PostureInv, Idle
    <2> QED BY <2>1, <2>2, <2>3, <2>4, <2>5
  <1> QED BY <1>1, <1>2

\* The inductive invariant holds in every reachable state.
THEOREM Invariance == Spec => []IInv
  BY InitInv, InvStep, PTL DEF Spec

\* The variables of the enforcer and of its maps keep their types.
THEOREM TypeCorrect == Spec => []TypeOK
  <1>1. IInv => TypeOK
    BY DEF IInv
  <1> QED BY Invariance, <1>1, PTL

\* After every update of UpdateContainerRules the inner map of the container
\* holds exactly the rules and postures asked for, for any rule lists.
THEOREM RulesInKernel == Spec => []MapsInSync
  <1>1. IInv => MapsInSync
    BY NilAssumption DEF IInv, TypeOK, Working, OthersSettled, Settled, MapsInSync
  <1> QED BY Invariance, <1>1, PTL

\* No rules stay in the kernel for the namespaces of a container that was
\* unregistered.
THEOREM NothingLeftBehind == Spec => []NoLeftovers
  <1>1. IInv => NoLeftovers
    BY DEF IInv
  <1> QED BY Invariance, <1>1, PTL

\* Rules that stay are found by the hooks at every step of an update.
THEOREM UpdatesKeepRules == Spec => []StaysInForce
  <1>1. IInv => StaysInForce
    BY DEF IInv
  <1> QED BY Invariance, <1>1, PTL
=============================================================================
