---------------------------- MODULE RemoveDiskProofs ----------------------------
(***************************************************************************)
(* Proofs about RemoveDisk, for every number of volumes and of mount       *)
(* points on each.                                                         *)
(***************************************************************************)
EXTENDS RemoveDisk, TLAPS

-----------------------------------------------------------------------------
(***************************************************************************)
(* The inductive invariant.                                                *)
(***************************************************************************)
Preparing == {"lock", "dismount", "unmount"}
Holding == Preparing \cup {"delete", "check", "restore"}

\* Nothing is touched before DiskDeletion has opened the volumes.
Untouched ==
  /\ pc \in Holding => opened # "none"
  /\ pc \in {"letter", "match", "resolve", "find", "open"} => opened = "none" /\ at = 1
  /\ pc \notin {"unmount", "delete", "check", "restore", "absent", "end"} =>
       \A v \in Volumes : removed[v] = 0
  /\ restoreFailed => pc \in {"restore", "end"}
  /\ pc # "end" => result = "none"

\* A mount point that is missing was removed by this CLI, which remembers it, and during
\* the restoration is still ahead unless an error is recorded.
MissingIsRemembered ==
  /\ \A d \in Disks : d # opened => points[d] = AllPoints
  /\ \A v \in Volumes : \A k \in 1..MountCount[v] :
       opened # "none" /\ <<v, k>> \notin points[opened] =>
         /\ k <= removed[v]
         /\ pc = "restore" => v > at \/ (v = at /\ k > index) \/ restoreFailed
         /\ result # "failed"

\* What was removed is gone until the restoration.
RemovedIsMissing ==
  pc \in Preparing \cup {"delete"} =>
    \A v \in Volumes : \A k \in 1..MountCount[v] :
      k <= removed[v] => <<v, k>> \notin points[opened]

\* A lock keeps applications out, and is kept until the volume has been restored.
Locks ==
  /\ locked \cap busy = {}
  /\ pc \notin {"restore", "absent", "end"} => locked = everLocked
  /\ pc = "restore" =>
       \A v \in everLocked : v > at \/ (v = at /\ index < removed[v]) => v \in locked

\* How far the preparation has come.
Phase ==
  /\ ~force /\ pc = "lock" => \A v \in Volumes : v < at => v \in locked
  /\ ~force /\ pc \in {"dismount", "unmount", "delete"} => locked = Volumes
  /\ pc = "dismount" => \A v \in Volumes : v < at => v \in dismounted
  /\ pc \in {"unmount", "delete"} => dismounted = Volumes
  /\ pc = "unmount" => \A v \in Volumes : v < at => removed[v] = MountCount[v]
  /\ pc = "delete" => \A v \in Volumes : removed[v] = MountCount[v]
  /\ ~force => lost = {}

\* While the named disk is online nobody has taken its place: the allocation and the volumes
\* of this call are its own.
OwnDisk ==
  device["mine"] = "online" =>
    device["other"] = "absent" /\ physical # "other" /\ opened # "other" /\ id = "mine"

\* An unresolved delete leaves the preparation in place.
LateIsQuiet == late => opened # "none" /\ dismounted = Volumes /\ points[opened] = {}

\* An unresolved delete ends the call without a restoration.
Unfinished ==
  /\ late => failure = "unresolved"
  /\ failure = "unresolved" => pc \in {"check", "end"}

Inv ==
  /\ TypeOK
  /\ Untouched
  /\ MissingIsRemembered
  /\ RemovedIsMissing
  /\ Locks
  /\ Phase
  /\ Unfinished
  /\ OwnDisk
  /\ LateIsQuiet

-----------------------------------------------------------------------------
(***************************************************************************)
(* Types and steps.                                                        *)
(***************************************************************************)
\* The mount points are those of the volumes.
LEMMA PointsOfVolumes ==
  ASSUME NEW v \in Volumes, NEW k \in 1..MountCount[v]
  PROVE  <<v, k>> \in AllPoints
  BY DEF AllPoints

\* A disk that misses none of them has them all.
LEMMA AllPresent ==
  ASSUME NEW s \in SUBSET AllPoints, \A v \in Volumes : \A k \in 1..MountCount[v] : <<v, k>> \in s
  PROVE  s = AllPoints
  BY DEF AllPoints

\* A disk that has none of them has nothing.
LEMMA NonePresent ==
  ASSUME NEW s \in SUBSET AllPoints,
         \A v \in Volumes : \A k \in 1..MountCount[v] : <<v, k>> \notin s
  PROVE  s = {}
  BY DEF AllPoints

\* The phases follow each other.
LEMMA PhaseOrder ==
  ASSUME EndPhase
  PROVE  \/ pc = "lock" /\ pc' = "dismount"
         \/ pc = "dismount" /\ pc' = "unmount"
         \/ pc = "unmount" /\ pc' = "delete"
  BY DEF EndPhase, FirstVolume, Go, PhaseAfter

LookUp == ResolveLetter \/ MatchLun \/ ResolveIdentity \/ WaitForPhysicalDisk \/ OpenVolumes

\* A look-up goes on or ends the call; it touches nothing.
LEMMA LookUpStep ==
  ASSUME LookUp
  PROVE  /\ UNCHANGED <<env, Held, at, index, failure>>
         /\ \/ pc = "letter" /\ pc' = "match" /\ UNCHANGED <<id, opened, result, locked>>
            \/ pc = "match" /\ pc' = "resolve" /\ id' \in Disks /\ UNCHANGED <<opened, result, locked>>
            \/ pc = "resolve" /\ pc' = "find" /\ UNCHANGED <<id, opened, result, locked>>
            \/ pc = "find" /\ pc' = "open" /\ UNCHANGED <<id, opened, result, locked>>
            \/ /\ pc = "open" /\ pc' = "lock" /\ opened' = physical /\ physical # "none"
               /\ UNCHANGED <<id, result, locked>>
            \/ /\ pc \in {"letter", "match", "resolve", "find", "open"}
               /\ End("failed") /\ UNCHANGED <<id, opened>>
<1>1. CASE ResolveLetter
  BY <1>1 DEF ResolveLetter, Go
<1>2. CASE MatchLun
  BY <1>2 DEF MatchLun, Go, LunOccupants
<1>3. CASE ResolveIdentity
  BY <1>3 DEF ResolveIdentity, Go
<1>4. CASE WaitForPhysicalDisk
  BY <1>4 DEF WaitForPhysicalDisk, Go
<1>5. CASE OpenVolumes
  BY <1>5 DEF OpenVolumes, Go
<1> QED
  BY <1>1, <1>2, <1>3, <1>4, <1>5 DEF LookUp

Others ==
  \/ \E v \in Volumes : ApplicationOpens(v) \/ ApplicationCloses(v)
  \/ OtherClientDeletes \/ LateDelete \/ OtherClientCreates \/ PlugAndPlay

\* The others leave the CLI alone, but for the end of a late delete, and open no file on a
\* locked volume.
LEMMA OthersStep ==
  ASSUME TypeOK, Others \/ UNCHANGED vars
  PROVE  /\ UNCHANGED <<force, id, opened, pc, at, index, locked, dismounted, points, removed,
                        failure, restoreFailed, result, everLocked, lost>>
         /\ late' \in {late, FALSE}
         /\ device' \in [Disks -> {"absent", "online", "stopping", "gone"}]
         /\ physical' \in Disks \cup {"none"} /\ busy' \subseteq Volumes
         /\ locked \cap busy = {} => locked' \cap busy' = {}
<1>1. ASSUME NEW v \in Volumes, ApplicationOpens(v) \/ ApplicationCloses(v)
      PROVE  /\ UNCHANGED <<device, physical, Cli>> /\ busy' \subseteq Volumes
             /\ locked \cap busy = {} => locked \cap busy' = {}
  BY <1>1 DEF ApplicationOpens, ApplicationCloses, TypeOK
<1>2. CASE OtherClientDeletes \/ OtherClientCreates
  BY <1>2 DEF OtherClientDeletes, OtherClientCreates, Cli, TypeOK
<1>3. CASE LateDelete
  BY <1>3 DEF LateDelete, TypeOK
<1>4. CASE PlugAndPlay
  BY <1>4 DEF PlugAndPlay, Cli, TypeOK
<1>5. CASE UNCHANGED vars
  BY <1>5 DEF vars, TypeOK
<1>6. CASE \E v \in Volumes : ApplicationOpens(v) \/ ApplicationCloses(v)
  BY <1>1, <1>6 DEF Cli, TypeOK
<1> QED
  BY <1>2, <1>3, <1>4, <1>5, <1>6 DEF Others

\* The steps, by kind.
LEMMA StepKinds ==
  ASSUME [Next]_vars
  PROVE  \/ LookUp \/ LockVolume \/ DismountVolume \/ RemoveMountPoint \/ NextVolume
         \/ EndPhase \/ DeleteConfirmed \/ DeleteFails \/ Check \/ WaitForAbsence
         \/ RestoreMountPoint \/ Restored \/ Others \/ UNCHANGED vars
  BY DEF Next, CliStep, LookUp, Others

\* Every step keeps the types: no volume and no mount point is counted that is not there.
LEMMA TypeStep ==
  ASSUME RemoveAssumption, Inv, [Next]_vars
  PROVE  TypeOK'
<1> USE DEF RemoveAssumption, Inv
<1>1. CASE LookUp
  BY <1>1, LookUpStep DEF env, Held, TypeOK, End, Results
<1>0. /\ 1 \in 1..(VolumeCount + 1)
      /\ at \in Volumes => at + 1 \in 1..(VolumeCount + 1)
  BY DEF TypeOK, Volumes
<1>2. CASE LockVolume
  <2>1. /\ at' \in 1..(VolumeCount + 1) /\ index' \in Nat
        /\ pc' \in {"lock", "restore"} /\ failure' \in {failure, "prepare"}
    BY <1>0, <1>2 DEF LockVolume, Advance, Unprepared, FirstVolume, Go, TypeOK
  <2>2. locked' \subseteq Volumes /\ everLocked' \subseteq Volumes
    BY <1>2 DEF LockVolume, Unprepared, FirstVolume, Go, TypeOK
  <2> QED
    BY <1>2, <2>1, <2>2 DEF LockVolume, Advance, Unprepared, FirstVolume, Go, env, TypeOK
<1>3. CASE DismountVolume
  <2>1. /\ at' \in 1..(VolumeCount + 1) /\ index' \in Nat
        /\ pc' \in {"dismount", "restore"} /\ failure' \in {failure, "prepare"}
    BY <1>0, <1>3 DEF DismountVolume, Advance, Unprepared, FirstVolume, Go, TypeOK
  <2>2. dismounted' \subseteq Volumes /\ lost' \subseteq Volumes
    BY <1>3 DEF DismountVolume, TypeOK
  <2> QED
    BY <1>3, <2>1, <2>2 DEF DismountVolume, Advance, Unprepared, FirstVolume, Go, env, TypeOK
<1>4. CASE RemoveMountPoint
  <2>1. /\ at' \in 1..(VolumeCount + 1) /\ index' \in Nat
        /\ pc' \in {"unmount", "restore"} /\ failure' \in {failure, "prepare"}
        /\ points' \in [Disks -> SUBSET AllPoints]
    BY <1>0, <1>4 DEF RemoveMountPoint, Unprepared, FirstVolume, Go, TypeOK
  <2>2. removed' \in [Volumes -> Nat] /\ \A v \in Volumes : removed'[v] <= MountCount[v]
    BY <1>4 DEF RemoveMountPoint, RemovedAfter, TypeOK
  <2> QED
    BY <1>4, <2>1, <2>2 DEF RemoveMountPoint, Unprepared, FirstVolume, Go, env, TypeOK
<1>5. CASE NextVolume
  BY <1>5 DEF NextVolume, env, Held, TypeOK, Volumes
<1>6. CASE EndPhase
  BY <1>6, PhaseOrder DEF EndPhase, FirstVolume, Go, env, Held, TypeOK
<1>7. CASE DeleteConfirmed
  BY <1>7 DEF DeleteConfirmed, Held, TypeOK
<1>8. CASE DeleteFails
  BY <1>8 DEF DeleteFails, Go, env, TypeOK
<1>9. CASE Check
  BY <1>9 DEF Check, FirstVolume, Go, End, env, Held, TypeOK, Results
<1>10. CASE WaitForAbsence
  BY <1>10 DEF WaitForAbsence, End, env, Held, TypeOK, Results
<1>11. CASE RestoreMountPoint
  <2>1. index + 1 \in 1..MountCount[at] /\ <<at, index + 1>> \in AllPoints
    <3>1. index + 1 \in 1..MountCount[at] /\ at \in Volumes
      BY <1>11 DEF RestoreMountPoint, TypeOK
    <3> QED
      BY <3>1, PointsOfVolumes
  <2>2. PICK mounted \in BOOLEAN, unlocked \in BOOLEAN :
          /\ points' = [points EXCEPT ![opened] =
                          IF mounted THEN @ \cup {<<at, index + 1>>} ELSE @]
          /\ locked' = IF unlocked THEN locked \ {at} ELSE locked
          /\ restoreFailed' = (restoreFailed \/ ~mounted \/ (ReleaseLock /\ ~unlocked))
    BY <1>11 DEF RestoreMountPoint, Reachable, ReleaseLock
  <2>3. points' \in [Disks -> SUBSET AllPoints]
    BY <2>1, <2>2 DEF TypeOK
  <2>4. locked' \subseteq Volumes /\ restoreFailed' \in BOOLEAN
    BY <2>2 DEF TypeOK
  <2> QED
    BY <1>11, <2>3, <2>4 DEF RestoreMountPoint, env, TypeOK
<1>12. CASE Restored
  BY <1>12 DEF Restored, End, env, Held, TypeOK, Results
<1>13. CASE Others \/ UNCHANGED vars
  <2>1. /\ UNCHANGED <<force, id, opened, pc, at, index, locked, dismounted, points, removed,
                       failure, restoreFailed, result, everLocked, lost>>
        /\ late' \in BOOLEAN /\ device' \in [Disks -> {"absent", "online", "stopping", "gone"}]
        /\ physical' \in Disks \cup {"none"} /\ busy' \subseteq Volumes
    BY <1>13, OthersStep DEF TypeOK
  <2> QED
    BY <2>1 DEF TypeOK
<1> QED
  BY <1>1, <1>2, <1>3, <1>4, <1>5, <1>6, <1>7, <1>8, <1>9, <1>10, <1>11, <1>12, <1>13, StepKinds

-----------------------------------------------------------------------------
(***************************************************************************)
(* The other parts, action by action.                                      *)
(***************************************************************************)
\* Volumes, mount points and counts are numbers, before and after a step.
LEMMA Numbers ==
  ASSUME RemoveAssumption, Inv, [Next]_vars
  PROVE  /\ VolumeCount \in Nat /\ at \in Nat /\ index \in Nat /\ at' \in Nat /\ index' \in Nat
         /\ \A v \in Volumes : v \in Nat /\ 0 < v /\ v <= VolumeCount
         /\ \A v \in Volumes : MountCount[v] \in Nat /\ removed[v] \in Nat /\ removed'[v] \in Nat
         /\ TypeOK /\ TypeOK'
<1>1. TypeOK /\ TypeOK'
  BY TypeStep DEF Inv
<1>2. /\ VolumeCount \in Nat /\ MountCount \in [Volumes -> Nat]
      /\ \A v \in Volumes : v \in Nat /\ 0 < v /\ v <= VolumeCount
  BY DEF RemoveAssumption, Volumes
<1> QED
  BY <1>1, <1>2 DEF TypeOK

\* What putting one mount point back does.
LEMMA RestoreStep ==
  ASSUME TypeOK, opened # "none", RestoreMountPoint
  PROVE  /\ \A d \in Disks \ {opened} : points'[d] = points[d]
         /\ points[opened] \subseteq points'[opened]
         /\ restoreFailed' \in BOOLEAN /\ (restoreFailed => restoreFailed')
         /\ <<at, index + 1>> \in points'[opened] \/ restoreFailed'
         /\ locked' \subseteq locked
         /\ \A v \in locked : v \in locked' \/ (v = at /\ index + 1 = removed[at])
<1>1. PICK mounted \in BOOLEAN, unlocked \in {ReleaseLock, FALSE} :
        /\ points' = [points EXCEPT ![opened] =
                        IF mounted THEN @ \cup {<<at, index + 1>>} ELSE @]
        /\ locked' = IF unlocked THEN locked \ {at} ELSE locked
        /\ restoreFailed' = (restoreFailed \/ ~mounted \/ (ReleaseLock /\ ~unlocked))
  BY DEF RestoreMountPoint, Reachable
<1>2. unlocked => index + 1 = removed[at]
  BY <1>1 DEF ReleaseLock
<1>3. /\ \A d \in Disks \ {opened} : points'[d] = points[d]
      /\ points[opened] \subseteq points'[opened]
      /\ mounted => <<at, index + 1>> \in points'[opened]
  BY <1>1 DEF TypeOK
<1>4. ReleaseLock \in BOOLEAN /\ unlocked \in BOOLEAN
  BY <1>1 DEF ReleaseLock
<1>5. /\ restoreFailed' \in BOOLEAN /\ (restoreFailed => restoreFailed')
      /\ mounted \/ restoreFailed'
  BY <1>1, <1>4 DEF TypeOK
<1> QED
  BY <1>1, <1>2, <1>3, <1>5

\* Before the volumes are opened nothing is touched.
LEMMA UntouchedStep ==
  ASSUME RemoveAssumption, Inv, [Next]_vars
  PROVE  Untouched'
<1> USE Numbers DEF Inv
<1>1. CASE LookUp
  BY <1>1, LookUpStep DEF TypeOK, Untouched, Untouched, End, Held, env, Preparing, Holding
<1>2. CASE LockVolume
  BY <1>2 DEF TypeOK, Untouched, Untouched, LockVolume, LockMayBeSkipped, Advance, Unprepared, FirstVolume, Go, env, Preparing, Holding
<1>3. CASE DismountVolume
  BY <1>3 DEF TypeOK, Untouched, Untouched, DismountVolume, Advance, Unprepared, FirstVolume, Go, env, Preparing, Holding
<1>4. CASE RemoveMountPoint
  BY <1>4 DEF TypeOK, Untouched, Untouched, RemoveMountPoint, RemovedAfter, Unprepared, FirstVolume, Go, env, Preparing, Holding
<1>5. CASE NextVolume
  BY <1>5 DEF TypeOK, Untouched, Untouched, NextVolume, env, Held, Preparing, Holding
<1>6. CASE EndPhase
  BY <1>6, PhaseOrder DEF TypeOK, Untouched, Untouched, EndPhase, FirstVolume, Go, env, Held, Preparing, Holding
<1>7. CASE DeleteConfirmed
  BY <1>7 DEF TypeOK, Untouched, Untouched, DeleteConfirmed, Held, Preparing, Holding
<1>8. CASE DeleteFails
  BY <1>8 DEF TypeOK, Untouched, Untouched, DeleteFails, Go, env, Preparing, Holding
<1>9. CASE Check
  BY <1>9 DEF TypeOK, Untouched, Untouched, Check, StillOnline, FirstVolume, Go, End, env, Held, Preparing, Holding
<1>10. CASE WaitForAbsence
  BY <1>10 DEF TypeOK, Untouched, Untouched, WaitForAbsence, End, env, Held, Preparing, Holding
<1>11. CASE RestoreMountPoint
  BY <1>11, RestoreStep DEF TypeOK, Untouched, Untouched, RestoreMountPoint, env, Preparing, Holding
<1>12. CASE Restored
  BY <1>12 DEF TypeOK, Untouched, Untouched, Restored, End, env, Held, Preparing, Holding
<1>13. CASE Others \/ UNCHANGED vars
  BY <1>13, OthersStep DEF TypeOK, Untouched, Preparing, Holding
<1> QED
  BY <1>1, <1>2, <1>3, <1>4, <1>5, <1>6, <1>7, <1>8, <1>9, <1>10, <1>11, <1>12, <1>13, StepKinds

\* Every mount point that is missing is remembered until it is back.
LEMMA MissingIsRememberedStep ==
  ASSUME RemoveAssumption, Inv, [Next]_vars
  PROVE  MissingIsRemembered'
<1> USE Numbers DEF Inv
<1>1. CASE LookUp
  <2>1. UNCHANGED <<points, removed>> /\ opened = "none" /\ \A d \in Disks : points[d] = AllPoints
    BY <1>1, LookUpStep DEF Held, Disks, Untouched, MissingIsRemembered
  <2> QED
    BY <2>1, PointsOfVolumes DEF MissingIsRemembered, TypeOK
<1>2. CASE LockVolume
  BY <1>2 DEF TypeOK, MissingIsRemembered, Untouched, LockVolume, LockMayBeSkipped, Advance, Unprepared, FirstVolume, Go, env, Preparing, Holding
<1>3. CASE DismountVolume
  BY <1>3 DEF TypeOK, MissingIsRemembered, Untouched, DismountVolume, Advance, Unprepared, FirstVolume, Go, env, Preparing, Holding
<1>4. CASE RemoveMountPoint
  BY <1>4 DEF TypeOK, MissingIsRemembered, Untouched, RemoveMountPoint, RemovedAfter, Unprepared, FirstVolume, Go, env, Preparing, Holding
<1>5. CASE NextVolume
  BY <1>5 DEF TypeOK, MissingIsRemembered, Untouched, NextVolume, env, Held, Preparing, Holding
<1>6. CASE EndPhase
  BY <1>6, PhaseOrder DEF TypeOK, MissingIsRemembered, Untouched, EndPhase, FirstVolume, Go, env, Held, Preparing, Holding
<1>7. CASE DeleteConfirmed
  BY <1>7 DEF TypeOK, MissingIsRemembered, Untouched, DeleteConfirmed, Held, Preparing, Holding
<1>8. CASE DeleteFails
  BY <1>8 DEF TypeOK, MissingIsRemembered, Untouched, DeleteFails, Go, env, Preparing, Holding
<1>9. CASE Check
  BY <1>9 DEF TypeOK, MissingIsRemembered, Untouched, Check, StillOnline, FirstVolume, Go, End, env, Held, Preparing, Holding
<1>10. CASE WaitForAbsence
  BY <1>10 DEF TypeOK, MissingIsRemembered, Untouched, WaitForAbsence, End, env, Held, Preparing, Holding
<1>11. CASE RestoreMountPoint
  <2>1. /\ opened # "none" /\ pc = "restore" /\ index' = index + 1 /\ result # "failed"
        /\ UNCHANGED <<opened, pc, at, removed, result>>
    BY <1>11 DEF RestoreMountPoint, Untouched, Holding
  <2>2. \A d \in Disks : d # opened' => points'[d] = AllPoints
    BY <1>11, <2>1, RestoreStep DEF MissingIsRemembered
  <2>3. ASSUME NEW v \in Volumes, NEW k \in 1..MountCount[v], <<v, k>> \notin points'[opened]
        PROVE  k <= removed[v] /\ (v > at \/ (v = at /\ k > index + 1) \/ restoreFailed')
    <3>1. <<v, k>> \notin points[opened]
      BY <1>11, <2>1, <2>3, RestoreStep
    <3>2. k <= removed[v] /\ (v > at \/ (v = at /\ k > index) \/ restoreFailed)
      BY <2>1, <3>1 DEF MissingIsRemembered
    <3>3. v = at /\ k = index + 1 => restoreFailed'
      BY <1>11, <2>1, <2>3, RestoreStep
    <3>4. restoreFailed => restoreFailed'
      BY <1>11, <2>1, RestoreStep
    <3> QED
      BY <3>2, <3>3, <3>4
  <2> QED
    BY <2>1, <2>2, <2>3 DEF MissingIsRemembered
<1>12. CASE Restored
  BY <1>12 DEF TypeOK, MissingIsRemembered, Untouched, Restored, End, env, Held, Preparing, Holding
<1>13. CASE Others \/ UNCHANGED vars
  BY <1>13, OthersStep DEF TypeOK, MissingIsRemembered, Preparing, Holding
<1> QED
  BY <1>1, <1>2, <1>3, <1>4, <1>5, <1>6, <1>7, <1>8, <1>9, <1>10, <1>11, <1>12, <1>13, StepKinds

\* What has been removed stays away until the restoration.
LEMMA RemovedIsMissingStep ==
  ASSUME RemoveAssumption, Inv, [Next]_vars
  PROVE  RemovedIsMissing'
<1> USE Numbers DEF Inv
<1>1. CASE LookUp
  BY <1>1, LookUpStep DEF TypeOK, RemovedIsMissing, Untouched, End, Held, env, Preparing, Holding
<1>2. CASE LockVolume
  BY <1>2 DEF TypeOK, RemovedIsMissing, Untouched, LockVolume, LockMayBeSkipped, Advance, Unprepared, FirstVolume, Go, env, Preparing, Holding
<1>3. CASE DismountVolume
  BY <1>3 DEF TypeOK, RemovedIsMissing, Untouched, DismountVolume, Advance, Unprepared, FirstVolume, Go, env, Preparing, Holding
<1>4. CASE RemoveMountPoint
  BY <1>4 DEF TypeOK, RemovedIsMissing, Untouched, RemoveMountPoint, RemovedAfter, Unprepared, FirstVolume, Go, env, Preparing, Holding
<1>5. CASE NextVolume
  BY <1>5 DEF TypeOK, RemovedIsMissing, Untouched, NextVolume, env, Held, Preparing, Holding
<1>6. CASE EndPhase
  BY <1>6, PhaseOrder DEF TypeOK, RemovedIsMissing, Untouched, EndPhase, FirstVolume, Go, env, Held, Preparing, Holding
<1>7. CASE DeleteConfirmed
  BY <1>7 DEF TypeOK, RemovedIsMissing, Untouched, DeleteConfirmed, Held, Preparing, Holding
<1>8. CASE DeleteFails
  BY <1>8 DEF TypeOK, RemovedIsMissing, Untouched, DeleteFails, Go, env, Preparing, Holding
<1>9. CASE Check
  BY <1>9 DEF TypeOK, RemovedIsMissing, Untouched, Check, StillOnline, FirstVolume, Go, End, env, Held, Preparing, Holding
<1>10. CASE WaitForAbsence
  BY <1>10 DEF TypeOK, RemovedIsMissing, Untouched, WaitForAbsence, End, env, Held, Preparing, Holding
<1>11. CASE RestoreMountPoint
  BY <1>11, RestoreStep DEF TypeOK, RemovedIsMissing, Untouched, RestoreMountPoint, env, Preparing, Holding
<1>12. CASE Restored
  BY <1>12 DEF TypeOK, RemovedIsMissing, Untouched, Restored, End, env, Held, Preparing, Holding
<1>13. CASE Others \/ UNCHANGED vars
  BY <1>13, OthersStep DEF TypeOK, RemovedIsMissing, Preparing, Holding
<1> QED
  BY <1>1, <1>2, <1>3, <1>4, <1>5, <1>6, <1>7, <1>8, <1>9, <1>10, <1>11, <1>12, <1>13, StepKinds

\* A lock is kept, and keeps applications out, until its volume is restored.
LEMMA LocksStep ==
  ASSUME RemoveAssumption, Inv, [Next]_vars
  PROVE  Locks'
<1> USE Numbers DEF Inv
<1>1. CASE LookUp
  BY <1>1, LookUpStep DEF TypeOK, Locks, Untouched, End, Held, env, Preparing, Holding
<1>2. CASE LockVolume
  BY <1>2 DEF TypeOK, Locks, Untouched, LockVolume, LockMayBeSkipped, Advance, Unprepared, FirstVolume, Go, env, Preparing, Holding
<1>3. CASE DismountVolume
  BY <1>3 DEF TypeOK, Locks, Untouched, DismountVolume, Advance, Unprepared, FirstVolume, Go, env, Preparing, Holding
<1>4. CASE RemoveMountPoint
  BY <1>4 DEF TypeOK, Locks, Untouched, RemoveMountPoint, RemovedAfter, Unprepared, FirstVolume, Go, env, Preparing, Holding
<1>5. CASE NextVolume
  BY <1>5 DEF TypeOK, Locks, Untouched, NextVolume, env, Held, Preparing, Holding
<1>6. CASE EndPhase
  BY <1>6, PhaseOrder DEF TypeOK, Locks, Untouched, EndPhase, FirstVolume, Go, env, Held, Preparing, Holding
<1>7. CASE DeleteConfirmed
  BY <1>7 DEF TypeOK, Locks, Untouched, DeleteConfirmed, Held, Preparing, Holding
<1>8. CASE DeleteFails
  BY <1>8 DEF TypeOK, Locks, Untouched, DeleteFails, Go, env, Preparing, Holding
<1>9. CASE Check
  BY <1>9 DEF TypeOK, Locks, Untouched, Check, StillOnline, FirstVolume, Go, End, env, Held, Preparing, Holding
<1>10. CASE WaitForAbsence
  BY <1>10 DEF TypeOK, Locks, Untouched, WaitForAbsence, End, env, Held, Preparing, Holding
<1>11. CASE RestoreMountPoint
  <2>1. /\ opened # "none" /\ pc = "restore" /\ index' = index + 1
        /\ UNCHANGED <<pc, at, removed, busy, everLocked>>
    BY <1>11 DEF RestoreMountPoint, Untouched, Holding, env
  <2>2. /\ locked' \subseteq locked
        /\ \A v \in locked : v \in locked' \/ (v = at /\ index + 1 = removed[at])
    BY <1>11, <2>1, RestoreStep
  <2>3. \A v \in everLocked : v \in Volumes
    BY DEF TypeOK
  <2> QED
    BY <2>1, <2>2, <2>3 DEF Locks
<1>12. CASE Restored
  BY <1>12 DEF TypeOK, Locks, Untouched, Restored, End, env, Held, Preparing, Holding
<1>13. CASE Others \/ UNCHANGED vars
  BY <1>13, OthersStep DEF TypeOK, Locks, Preparing, Holding
<1> QED
  BY <1>1, <1>2, <1>3, <1>4, <1>5, <1>6, <1>7, <1>8, <1>9, <1>10, <1>11, <1>12, <1>13, StepKinds

\* The phases are complete when they end.
LEMMA PhaseStep ==
  ASSUME RemoveAssumption, Inv, [Next]_vars
  PROVE  Phase'
<1> USE Numbers DEF Inv
<1>1. CASE LookUp
  BY <1>1, LookUpStep DEF TypeOK, Phase, Untouched, End, Held, env, Preparing, Holding
<1>2. CASE LockVolume
  BY <1>2 DEF TypeOK, Phase, Untouched, LockVolume, LockMayBeSkipped, Advance, Unprepared, FirstVolume, Go, env, Preparing, Holding
<1>3. CASE DismountVolume
  <2>1. ~force => lost' = {}
    BY <1>3 DEF DismountVolume, Phase, Locks, TypeOK
  <2>2. /\ pc = "dismount" /\ UNCHANGED <<force, removed>> /\ (pc' = "dismount" => UNCHANGED locked)
        /\ \/ pc' = "dismount" /\ at' = at + 1 /\ dismounted' = dismounted \cup {at}
           \/ pc' = "restore"
    BY <1>3 DEF DismountVolume, Advance, Unprepared, FirstVolume, Go
  <2>3. \A v \in Volumes : v < at + 1 => v < at \/ v = at
    OBVIOUS
  <2> QED
    BY <2>1, <2>2, <2>3 DEF Phase
<1>4. CASE RemoveMountPoint
  BY <1>4 DEF TypeOK, Phase, Untouched, RemoveMountPoint, RemovedAfter, Unprepared, FirstVolume, Go, env, Preparing, Holding
<1>5. CASE NextVolume
  BY <1>5 DEF TypeOK, Phase, Untouched, NextVolume, env, Held, Preparing, Holding
<1>6. CASE EndPhase
  <2>1. /\ at > VolumeCount /\ at' = 1
        /\ UNCHANGED <<force, dismounted, removed, lost, locked, index>>
    BY <1>6 DEF EndPhase, FirstVolume, Go, env, Held
  <2>2. \A v \in Volumes : v < at
    BY <2>1
  <2>6. \A v \in Volumes : ~(v < at')
    BY <2>1
  <2>3. CASE pc = "lock" /\ pc' = "dismount"
    <3>1. ~force => locked = Volumes
      BY <2>2, <2>3 DEF Phase, TypeOK
    <3> QED
      BY <2>1, <2>3, <2>6, <3>1 DEF Phase
  <2>4. CASE pc = "dismount" /\ pc' = "unmount"
    <3>1. dismounted = Volumes
      BY <2>2, <2>4 DEF Phase, TypeOK
    <3> QED
      BY <2>1, <2>4, <2>6, <3>1 DEF Phase
  <2>5. CASE pc = "unmount" /\ pc' = "delete"
    BY <2>1, <2>2, <2>5 DEF Phase
  <2> QED
    BY <1>6, <2>3, <2>4, <2>5, PhaseOrder
<1>7. CASE DeleteConfirmed
  BY <1>7 DEF TypeOK, Phase, Untouched, DeleteConfirmed, Held, Preparing, Holding
<1>8. CASE DeleteFails
  BY <1>8 DEF TypeOK, Phase, Untouched, DeleteFails, Go, env, Preparing, Holding
<1>9. CASE Check
  BY <1>9 DEF TypeOK, Phase, Untouched, Check, StillOnline, FirstVolume, Go, End, env, Held, Preparing, Holding
<1>10. CASE WaitForAbsence
  BY <1>10 DEF TypeOK, Phase, Untouched, WaitForAbsence, End, env, Held, Preparing, Holding
<1>11. CASE RestoreMountPoint
  BY <1>11, RestoreStep DEF TypeOK, Phase, Untouched, RestoreMountPoint, env, Preparing, Holding
<1>12. CASE Restored
  BY <1>12 DEF TypeOK, Phase, Untouched, Restored, End, env, Held, Preparing, Holding
<1>13. CASE Others \/ UNCHANGED vars
  BY <1>13, OthersStep DEF TypeOK, Phase, Preparing, Holding
<1> QED
  BY <1>1, <1>2, <1>3, <1>4, <1>5, <1>6, <1>7, <1>8, <1>9, <1>10, <1>11, <1>12, <1>13, StepKinds

\* An unresolved delete is followed by no restoration.
LEMMA UnfinishedStep ==
  ASSUME RemoveAssumption, Inv, [Next]_vars
  PROVE  Unfinished'
<1> USE Numbers DEF Inv
<1>1. CASE LookUp
  BY <1>1, LookUpStep DEF TypeOK, Unfinished, Untouched, End, Held, env, Preparing, Holding
<1>2. CASE LockVolume
  BY <1>2 DEF TypeOK, Unfinished, Untouched, LockVolume, LockMayBeSkipped, Advance, Unprepared, FirstVolume, Go, env, Preparing, Holding
<1>3. CASE DismountVolume
  BY <1>3 DEF TypeOK, Unfinished, Untouched, DismountVolume, Advance, Unprepared, FirstVolume, Go, env, Preparing, Holding
<1>4. CASE RemoveMountPoint
  BY <1>4 DEF TypeOK, Unfinished, Untouched, RemoveMountPoint, RemovedAfter, Unprepared, FirstVolume, Go, env, Preparing, Holding
<1>5. CASE NextVolume
  BY <1>5 DEF TypeOK, Unfinished, Untouched, NextVolume, env, Held, Preparing, Holding
<1>6. CASE EndPhase
  BY <1>6, PhaseOrder DEF TypeOK, Unfinished, Untouched, EndPhase, FirstVolume, Go, env, Held, Preparing, Holding
<1>7. CASE DeleteConfirmed
  BY <1>7 DEF TypeOK, Unfinished, Untouched, DeleteConfirmed, Held, Preparing, Holding
<1>8. CASE DeleteFails
  BY <1>8 DEF TypeOK, Unfinished, Untouched, DeleteFails, Go, env, Preparing, Holding
<1>9. CASE Check
  BY <1>9 DEF TypeOK, Unfinished, Untouched, Check, StillOnline, FirstVolume, Go, End, env, Held, Preparing, Holding
<1>10. CASE WaitForAbsence
  BY <1>10 DEF TypeOK, Unfinished, Untouched, WaitForAbsence, End, env, Held, Preparing, Holding
<1>11. CASE RestoreMountPoint
  BY <1>11, RestoreStep DEF TypeOK, Unfinished, Untouched, RestoreMountPoint, env, Preparing, Holding
<1>12. CASE Restored
  BY <1>12 DEF TypeOK, Unfinished, Untouched, Restored, End, env, Held, Preparing, Holding
<1>13. CASE Others \/ UNCHANGED vars
  BY <1>13, OthersStep DEF TypeOK, Unfinished, Preparing, Holding
<1> QED
  BY <1>1, <1>2, <1>3, <1>4, <1>5, <1>6, <1>7, <1>8, <1>9, <1>10, <1>11, <1>12, <1>13, StepKinds

\* Only a look-up chooses an allocation or a disk, and only the driver changes allocations.
LEMMA ChoiceStep ==
  ASSUME [Next]_vars
  PROVE  \/ LookUp \/ DeleteConfirmed \/ Others
         \/ UNCHANGED <<device, physical, id, opened>>
<1> USE DEF env
<1>1. LockVolume \/ DismountVolume \/ RemoveMountPoint => UNCHANGED <<device, physical, id, opened>>
  BY DEF LockVolume, DismountVolume, RemoveMountPoint
<1>2. NextVolume \/ EndPhase \/ DeleteFails \/ Check => UNCHANGED <<device, physical, id, opened>>
  BY DEF NextVolume, EndPhase, DeleteFails, Check
<1>3. WaitForAbsence \/ RestoreMountPoint \/ Restored => UNCHANGED <<device, physical, id, opened>>
  BY DEF WaitForAbsence, RestoreMountPoint, Restored
<1> QED
  BY <1>1, <1>2, <1>3, StepKinds DEF vars

\* Nobody takes the place of the named disk before it is gone.
LEMMA OwnDiskStep ==
  ASSUME Inv, [Next]_vars
  PROVE  OwnDisk'
<1>0. TypeOK /\ OwnDisk
  BY DEF Inv
<1> USE DEF Disks
<1>1. CASE LookUp
  <2>1. UNCHANGED <<device, physical>> /\ opened' \in {opened, physical}
    BY <1>1, LookUpStep DEF env, End
  <2>2. device["mine"] = "online" => id' = "mine"
    <3>1. id' = id \/ (MatchLun /\ device[id'] \in {"online", "stopping"})
      BY <1>1 DEF LookUp, ResolveLetter, MatchLun, ResolveIdentity, WaitForPhysicalDisk,
         OpenVolumes, LunOccupants
    <3>2. id' \in Disks
      BY <1>0, <1>1, LookUpStep DEF TypeOK
    <3> QED
      BY <1>0, <3>1, <3>2 DEF OwnDisk
  <2> QED
    BY <1>0, <2>1, <2>2 DEF OwnDisk
<1>2. CASE DeleteConfirmed
  BY <1>0, <1>2 DEF DeleteConfirmed, OwnDisk, TypeOK
<1>3. CASE Others
  <2>1. CASE OtherClientDeletes
    BY <1>0, <2>1 DEF OtherClientDeletes, Cli, OwnDisk, TypeOK
  <2>2. CASE LateDelete \/ OtherClientCreates
    BY <1>0, <2>2 DEF LateDelete, OtherClientCreates, Cli, OwnDisk, TypeOK
  <2>3. CASE PlugAndPlay
    BY <1>0, <2>3 DEF PlugAndPlay, Cli, OwnDisk, TypeOK
  <2>4. CASE \E v \in Volumes : ApplicationOpens(v) \/ ApplicationCloses(v)
    BY <1>0, <2>4 DEF ApplicationOpens, ApplicationCloses, Cli, OwnDisk
  <2> QED
    BY <1>3, <2>1, <2>2, <2>3, <2>4 DEF Others
<1>4. CASE UNCHANGED <<device, physical, id, opened>>
  BY <1>0, <1>4 DEF OwnDisk
<1> QED
  BY <1>1, <1>2, <1>3, <1>4, ChoiceStep

\* When the driver is asked to delete, the disk that was opened is quiet.
LEMMA QuietAtDelete ==
  ASSUME RemoveAssumption, Inv, pc = "delete"
  PROVE  opened # "none" /\ dismounted = Volumes /\ points[opened] = {}
<1>1. opened # "none" /\ points[opened] \in SUBSET AllPoints
  BY DEF Inv, TypeOK, Untouched, Holding
<1>2. \A v \in Volumes : \A k \in 1..MountCount[v] : k <= removed[v]
  BY DEF Inv, Phase, TypeOK
<1>3. \A v \in Volumes : \A k \in 1..MountCount[v] : <<v, k>> \notin points[opened]
  BY <1>2 DEF Inv, RemovedIsMissing
<1> QED
  BY <1>1, <1>3, NonePresent DEF Inv, Phase

\* A delete that may still be carried out leaves the disk quiet.
LEMMA LateIsQuietStep ==
  ASSUME RemoveAssumption, Inv, [Next]_vars
  PROVE  LateIsQuiet'
<1>0. TypeOK /\ Unfinished /\ LateIsQuiet
  BY DEF Inv
<1>1. CASE DeleteFails
  BY <1>0, <1>1, QuietAtDelete DEF DeleteFails, LateIsQuiet
<1>2. CASE Others \/ UNCHANGED vars
  BY <1>0, <1>2, OthersStep DEF TypeOK, LateIsQuiet
<1>3. CASE ~(DeleteFails \/ Others \/ UNCHANGED vars)
  <2> SUFFICES ASSUME late'
               PROVE  LateIsQuiet'
    BY DEF LateIsQuiet
  <2>1. UNCHANGED late
    BY <1>3, LookUpStep, StepKinds DEF LockVolume, DismountVolume, RemoveMountPoint,
       NextVolume, EndPhase, DeleteConfirmed, Check, WaitForAbsence, RestoreMountPoint,
       Restored, Held
  <2>2. pc \in {"check", "end"} /\ failure = "unresolved"
    BY <1>0, <2>1 DEF Unfinished
  <2>3. CASE Check
    BY <1>0, <2>1, <2>3 DEF Check, Held, LateIsQuiet
  <2>4. ~Check => FALSE
    BY <1>3, <2>2, LookUpStep, PhaseOrder, StepKinds DEF LockVolume, DismountVolume,
       RemoveMountPoint, NextVolume, DeleteConfirmed, WaitForAbsence, RestoreMountPoint,
       Restored
  <2> QED
    BY <2>3, <2>4
<1> QED
  BY <1>1, <1>2, <1>3

\* The invariant holds initially.
LEMMA InvInit ==
  ASSUME RemoveAssumption, Init
  PROVE  Inv
<1>1. /\ VolumeCount \in Nat /\ MountCount \in [Volumes -> Nat]
      /\ 1 \in 1..(VolumeCount + 1)
  BY DEF RemoveAssumption
<1>2. TypeOK
  <2>1. /\ removed \in [Volumes -> Nat] /\ points \in [Disks -> SUBSET AllPoints]
        /\ \A v \in Volumes : removed[v] = 0 /\ removed[v] <= MountCount[v]
    BY <1>1 DEF Init
  <2>2. device \in [Disks -> {"absent", "online", "stopping", "gone"}]
    BY DEF Init
  <2> QED
    BY <1>1, <2>1, <2>2 DEF Init, TypeOK, Disks, Results
<1>3. Untouched /\ Locks /\ Phase /\ Unfinished /\ OwnDisk /\ LateIsQuiet
  BY DEF Init, OwnDisk, LateIsQuiet, Disks, Untouched, Locks, Phase, Unfinished, Holding, Preparing
<1>4. MissingIsRemembered /\ RemovedIsMissing
  BY DEF Init, MissingIsRemembered, RemovedIsMissing, Preparing
<1> QED
  BY <1>2, <1>3, <1>4 DEF Inv

\* Every step keeps it.
LEMMA InvStep ==
  ASSUME RemoveAssumption, Inv, [Next]_vars
  PROVE  Inv'
  BY TypeStep, UntouchedStep, MissingIsRememberedStep, RemovedIsMissingStep, LocksStep,
     PhaseStep, UnfinishedStep, OwnDiskStep, LateIsQuietStep DEF Inv

\* The invariant of delete_allocation holds in every reachable state.
THEOREM RemoveInvariant ==
  ASSUME RemoveAssumption
  PROVE  Spec => []Inv
<1>1. Init => Inv
  BY InvInit
<1>2. Inv /\ [Next]_vars => Inv'
  BY InvStep
<1> QED
  BY <1>1, <1>2, PTL DEF Spec

-----------------------------------------------------------------------------
(***************************************************************************)
(* The theorems.                                                           *)
(***************************************************************************)
\* delete_allocation is careful, whatever the number of volumes and of their mount points:
\* an ordinary failure has put every mount point back, without /force no volume is
\* dismounted under an open file and one busy volume stops the whole preparation, and a
\* volume that was locked stays locked until its mount points are back.
THEOREM DeletesAreCareful ==
  ASSUME RemoveAssumption
  PROVE  Spec => []DeleteIsCareful
<1>1. Inv => FailedDeleteChangesNothing
  <2> SUFFICES ASSUME Inv, result = "failed", NEW d \in Disks
               PROVE  points[d] = AllPoints
    BY DEF FailedDeleteChangesNothing
  <2>1. CASE d = opened
    <3>1. \A v \in Volumes : \A k \in 1..MountCount[v] : <<v, k>> \in points[d]
      BY <2>1 DEF Inv, MissingIsRemembered, Disks
    <3>2. points[d] \in SUBSET AllPoints
      BY DEF Inv, TypeOK
    <3> QED
      BY <3>1, <3>2, AllPresent
  <2>2. CASE d # opened
    BY <2>2 DEF Inv, MissingIsRemembered
  <2> QED
    BY <2>1, <2>2
<1>2. Inv => OpenFilesAreSafe
  BY DEF Inv, OpenFilesAreSafe, Phase, Locks, TypeOK
<1>3. Inv => LockedUntilRestored
  BY DEF Inv, LockedUntilRestored, Locks
<1>4. Inv => DeleteIsCareful
  BY <1>1, <1>2, <1>3 DEF Inv, DeleteIsCareful
<1> QED
  BY <1>4, RemoveInvariant, PTL

\* The disk that the user names is deleted by this CLI, at once or late, only when it is
\* the disk that was dismounted and none of its mount points is there; and nothing is
\* mounted again on a disk whose delete was or may yet be carried out.
THEOREM DeletesAreOrdered ==
  ASSUME RemoveAssumption
  PROVE  Spec => DeleteOrder
<1> DEFINE NoRestore == \A d \in Disks :
             ~(points'[d] \subseteq points[d]) => ~late /\ failure # "unresolved"
           Quiet == device["mine"] = "online" /\ device'["mine"] = "gone" =>
             opened = "mine" /\ dismounted = Volumes /\ points["mine"] = {}
<1>1. Inv /\ [Next]_vars => [NoRestore]_vars
  <2> SUFFICES ASSUME Inv, [Next]_vars, NEW d \in Disks, ~(points'[d] \subseteq points[d])
               PROVE  ~late /\ failure # "unresolved"
    OBVIOUS
  <2>1. ~(LookUp \/ Others \/ UNCHANGED vars)
    BY LookUpStep, OthersStep DEF Inv, Held
  <2>2. ~RemoveMountPoint
    BY DEF RemoveMountPoint, Inv, TypeOK
  <2>3. RestoreMountPoint
    BY <2>1, <2>2, StepKinds DEF LockVolume, DismountVolume, NextVolume, EndPhase, DeleteConfirmed,
       DeleteFails, Check, WaitForAbsence, Restored, Held
  <2> QED
    BY <2>3 DEF RestoreMountPoint, Inv, Unfinished
<1>2. Inv /\ [Next]_vars => [Quiet]_vars
  <2> SUFFICES ASSUME Inv, [Next]_vars, device["mine"] = "online", device'["mine"] = "gone"
               PROVE  opened = "mine" /\ dismounted = Volumes /\ points["mine"] = {}
    OBVIOUS
  <2>1. device["other"] = "absent" /\ opened # "other"
    BY DEF Inv, OwnDisk
  <2>2. DeleteConfirmed \/ LateDelete
    <3>1. ~LookUp
      BY LookUpStep DEF env
    <3>2. Others => LateDelete
      BY <2>1 DEF Others, ApplicationOpens, ApplicationCloses, OtherClientDeletes,
         OtherClientCreates, PlugAndPlay, Inv, TypeOK, Disks
    <3> QED
      BY <3>1, <3>2, ChoiceStep
  <2>3. pc = "delete" \/ late
    BY <2>2 DEF DeleteConfirmed, LateDelete
  <2>4. opened # "none" /\ dismounted = Volumes /\ points[opened] = {}
    BY <2>3, QuietAtDelete DEF Inv, LateIsQuiet
  <2>5. opened = "mine"
    BY <2>1, <2>4 DEF Inv, TypeOK, Disks
  <2> QED
    BY <2>4, <2>5
<1> QED
  BY <1>1, <1>2, RemoveInvariant, PTL DEF Spec, DeleteOrder, NoRestoreUnderDelete, DeletesOnlyQuiet

=============================================================================
