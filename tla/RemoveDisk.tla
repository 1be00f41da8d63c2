------------------------------- MODULE RemoveDisk -------------------------------
(***************************************************************************)
(* The delete flow of the CLI (disk/removal.rs, disk/deletion.rs, volume/): *)
(* find the allocation and its Windows disk, lock, dismount and unmount its *)
(* volumes, delete it through the driver, and undo when that is refused;   *)
(* beside applications that open files, other clients of the driver, and   *)
(* the plug-and-play manager.  The driver's delete is MutationCall: done,   *)
(* rejected, or unresolved and possibly done later.                        *)
(*                                                                         *)
(* Disk "mine" is the one the user names; "other" is what another client   *)
(* may create at the same LUN once "mine" is gone.  A definition may follow *)
(* a wrong form of itself, named for the mistake and used by no action.    *)
(***************************************************************************)
EXTENDS Naturals

CONSTANTS
  VolumeCount,     \* volumes on a disk
  MountCount       \* mount points of each volume

Volumes == 1..VolumeCount
Disks == {"mine", "other"}

\* What the instances of this module assume.
RemoveAssumption == VolumeCount \in Nat /\ MountCount \in [Volumes -> Nat]

VARIABLES
  device,          \* the driver's allocations
  physical,        \* the Windows disk at the SCSI location of the LUN
  busy,            \* volumes on which applications hold files
  force,           \* /force
  id,              \* the allocation whose device ID is being deleted
  opened,          \* the disk whose volumes DiskDeletion holds
  pc, at, index,   \* the step, the volume, and restore_removed_mount's index
  locked,          \* Volume::locked
  dismounted,
  points,          \* mount points the mount manager has, per disk
  removed,         \* how many removed_mount_points each volume has
  failure,         \* the error kept so far
  restoreFailed,
  late,            \* the driver may still carry out an unresolved delete
  result,
  everLocked, lost \* observers: locks obtained; volumes dismounted under open files

env == <<device, physical, busy>>
vars == <<device, physical, busy, force, id, opened, pc, at, index, locked, dismounted,
          points, removed, failure, restoreFailed, late, result, everLocked, lost>>

AllPoints == UNION {{<<v, k>> : k \in 1..MountCount[v]} : v \in Volumes}

Results == {"none", "ok", "failed", "restoreFailed", "unconfirmed", "unresolved",
            "lingering"}

\* The state is well formed; a Volume never counts more removed mount points than it has
\* (removed_mount_points indexes mount_points).
TypeOK ==
  /\ device \in [Disks -> {"absent", "online", "stopping", "gone"}]
  /\ physical \in Disks \cup {"none"} /\ opened \in Disks \cup {"none"} /\ id \in Disks
  /\ busy \subseteq Volumes /\ locked \subseteq Volumes /\ dismounted \subseteq Volumes
  /\ everLocked \subseteq Volumes /\ lost \subseteq Volumes
  /\ force \in BOOLEAN /\ restoreFailed \in BOOLEAN /\ late \in BOOLEAN
  /\ pc \in {"letter", "match", "resolve", "find", "open", "lock", "dismount", "unmount",
             "delete", "check", "restore", "absent", "end"}
  /\ at \in 1..(VolumeCount + 1) /\ index \in Nat
  /\ points \in [Disks -> SUBSET AllPoints]
  /\ removed \in [Volumes -> Nat]
  /\ \A v \in Volumes : removed[v] <= MountCount[v]
  /\ failure \in {"none", "prepare", "rejected", "unresolved"}
  /\ result \in Results

Init ==
  /\ device = [d \in Disks |-> IF d = "mine" THEN "online" ELSE "absent"]
  /\ physical = "mine" /\ busy \in SUBSET Volumes
  /\ force \in BOOLEAN
  /\ pc \in {"letter", "resolve"}    \* /del /letter, or /del /adapter /id
  /\ id = "mine" /\ opened = "none" /\ at = 1 /\ index = 0
  /\ locked = {} /\ dismounted = {}
  /\ points = [d \in Disks |-> AllPoints]
  /\ removed = [v \in Volumes |-> 0]
  /\ failure = "none" /\ restoreFailed = FALSE /\ late = FALSE /\ result = "none"
  /\ everLocked = {} /\ lost = {}

\* Returning drops DiskDeletion, which closes the handles and so the locks.
End(r) == pc' = "end" /\ result' = r /\ locked' = {}
Go(next) == pc' = next /\ UNCHANGED <<result, locked>>
FirstVolume(next) == Go(next) /\ at' = 1

Held == <<force, dismounted, points, removed, restoreFailed, late, everLocked, lost>>

-----------------------------------------------------------------------------
(***************************************************************************)
(* delete_disk, delete_by_identity and the first half of delete_allocation: *)
(* every look-up may fail, and then nothing has been touched.              *)
(***************************************************************************)
LunOccupants == {d \in Disks : device[d] \in {"online", "stopping"}}

\* The letter gives a volume, the volume a disk, the disk a SCSI address.
ResolveLetter ==
  /\ pc = "letter"
  /\ \/ physical = "mine" /\ Go("match")
     \/ End("failed")
  /\ UNCHANGED <<env, Held, id, opened, at, index, failure>>

\* The address is looked up in the driver's inventory.
MatchLun ==
  /\ pc = "match"
  /\ \/ \E d \in LunOccupants : id' = d /\ Go("resolve")
     \/ End("failed") /\ UNCHANGED id
  /\ UNCHANGED <<env, Held, opened, at, index, failure>>

\* The instance is known, and the device is there and not stopping.
ResolveIdentity ==
  /\ pc = "resolve"
  /\ \/ device[id] = "online" /\ Go("find")
     \/ End("failed")
  /\ UNCHANGED <<env, Held, id, opened, at, index, failure>>

WaitForPhysicalDisk ==
  /\ pc = "find"
  /\ \/ physical # "none" /\ Go("open")
     \/ End("failed")
  /\ UNCHANGED <<env, Held, id, opened, at, index, failure>>

\* DiskDeletion::open: the volumes of the disk number, if all can be opened and
\* the number, which may meanwhile mean another disk, is still at the location.
OpenVolumes ==
  /\ pc = "open"
  /\ \/ physical # "none" /\ opened' = physical /\ Go("lock")
     \/ End("failed") /\ UNCHANGED opened
  /\ UNCHANGED <<env, Held, id, at, index, failure>>

-----------------------------------------------------------------------------
(***************************************************************************)
(* Preparation: all locks, then all dismounts, then all mount points.      *)
(***************************************************************************)
Reachable == physical = opened

Unprepared ==
  /\ failure' = "prepare" /\ FirstVolume("restore") /\ index' = 0

Advance == at' = at + 1 /\ UNCHANGED <<pc, result, failure, index>>

LockMayBeSkipped == force

LockVolume ==
  /\ pc = "lock" /\ at \in Volumes
  /\ \/ /\ Reachable /\ at \notin busy
        /\ locked' = locked \cup {at} /\ everLocked' = everLocked \cup {at}
        /\ Advance
     \/ /\ LockMayBeSkipped
        /\ Advance
        /\ UNCHANGED <<locked, everLocked>>
     \/ /\ ~LockMayBeSkipped
        /\ Unprepared
        /\ UNCHANGED everLocked
  /\ UNCHANGED <<env, id, opened, force, dismounted, points, removed, restoreFailed, late,
                 lost>>

DismountVolume ==
  /\ pc = "dismount" /\ at \in Volumes
  /\ \/ /\ Reachable
        /\ dismounted' = dismounted \cup {at}
        /\ lost' = lost \cup ({at} \cap busy)
        /\ Advance
        /\ UNCHANGED locked
     \/ Unprepared /\ UNCHANGED <<dismounted, lost>>
  /\ UNCHANGED <<env, id, opened, force, points, removed, restoreFailed, late, everLocked>>

RemovedUnrecorded(v) == removed[v]
RemovedAfter(v) == removed[v] + 1

\* Mount points go in order, and the ones that went are remembered.
RemoveMountPoint ==
  /\ pc = "unmount" /\ at \in Volumes /\ removed[at] < MountCount[at]
  /\ \/ /\ points' = [points EXCEPT ![opened] = @ \ {<<at, removed[at] + 1>>}]
        /\ removed' = [removed EXCEPT ![at] = RemovedAfter(at)]
        /\ UNCHANGED <<pc, result, locked, at, failure, index>>
     \/ Unprepared /\ UNCHANGED <<points, removed>>
  /\ UNCHANGED <<env, id, opened, force, dismounted, restoreFailed, late, everLocked, lost>>

NextVolume ==
  /\ \/ pc = "unmount" /\ at \in Volumes /\ removed[at] = MountCount[at]
     \/ pc = "restore" /\ at \in Volumes /\ index = removed[at]
  /\ at' = at + 1 /\ index' = 0
  /\ UNCHANGED <<env, Held, id, opened, pc, result, locked, failure>>

PhaseAfter == [lock |-> "dismount", dismount |-> "unmount", unmount |-> "delete"]

EndPhase ==
  /\ pc \in {"lock", "dismount", "unmount"} /\ at > VolumeCount
  /\ FirstVolume(PhaseAfter[pc])
  /\ UNCHANGED <<env, Held, id, opened, index, failure>>

-----------------------------------------------------------------------------
(***************************************************************************)
(* Adapter::delete_by_id, and what its error permits.                      *)
(***************************************************************************)
DeleteConfirmed ==
  /\ pc = "delete" /\ device[id] = "online"
  /\ device' = [device EXCEPT ![id] = "gone"]
  /\ pc' = "absent" /\ locked' = {}          \* drop(deletion)
  /\ UNCHANGED <<physical, busy, Held, id, opened, at, index, failure, result>>

DeleteFails ==
  /\ pc = "delete"
  /\ \/ failure' = "rejected" /\ UNCHANGED late
     \/ failure' = "unresolved" /\ late' = TRUE
  /\ Go("check")
  /\ UNCHANGED <<env, id, opened, at, index, force, dismounted, points, removed,
                 restoreFailed, everLocked, lost>>

StillOnlineByInventory == device[id] = "online"
\* A transport failure is not a rejection.
StillOnline == failure # "unresolved" /\ device[id] = "online"

Check ==
  /\ pc = "check"
  /\ \/ StillOnline /\ FirstVolume("restore") /\ index' = 0
     \/ End(IF failure = "unresolved" THEN "unresolved" ELSE "unconfirmed")
        /\ UNCHANGED <<at, index>>
  /\ UNCHANGED <<env, Held, id, opened, failure>>

\* wait_for_physical_disk_absent, and with a letter the wait for it to go too.
WaitForAbsence ==
  /\ pc = "absent"
  /\ \/ physical # opened /\ End("ok")
     \/ End("lingering")
  /\ UNCHANGED <<env, Held, id, opened, at, index, failure>>

-----------------------------------------------------------------------------
(***************************************************************************)
(* DiskDeletion::restore: every removed mount point of every volume is      *)
(* tried; the volume's own lock is released with the last of them.         *)
(***************************************************************************)
ReleaseLock == index + 1 = removed[at] /\ at \in locked

RestoreMountPoint ==
  /\ pc = "restore" /\ at \in Volumes /\ index < removed[at]
  /\ \E mounted \in {Reachable, FALSE}, unlocked \in {ReleaseLock, FALSE} :
       /\ points' = [points EXCEPT ![opened] =
                       IF mounted THEN @ \cup {<<at, index + 1>>} ELSE @]
       /\ locked' = IF unlocked THEN locked \ {at} ELSE locked
       /\ restoreFailed' = (restoreFailed \/ ~mounted \/ (ReleaseLock /\ ~unlocked))
  /\ index' = index + 1
  /\ UNCHANGED <<env, id, opened, pc, at, failure, result, force, dismounted, removed, late,
                 everLocked, lost>>

Restored ==
  /\ pc = "restore" /\ at > VolumeCount
  /\ End(IF restoreFailed THEN "restoreFailed" ELSE "failed")
  /\ UNCHANGED <<env, Held, id, opened, at, index, failure>>

CliStep ==
  \/ ResolveLetter \/ MatchLun \/ ResolveIdentity \/ WaitForPhysicalDisk \/ OpenVolumes
  \/ LockVolume \/ DismountVolume \/ RemoveMountPoint \/ NextVolume \/ EndPhase
  \/ DeleteConfirmed \/ DeleteFails \/ Check \/ WaitForAbsence
  \/ RestoreMountPoint \/ Restored

-----------------------------------------------------------------------------
(***************************************************************************)
(* Everybody else.  A lock keeps applications out of a volume.             *)
(***************************************************************************)
Cli == <<force, id, opened, pc, at, index, locked, dismounted, points, removed, failure,
         restoreFailed, late, result, everLocked, lost>>

ApplicationOpens(v) ==
  /\ v \notin locked /\ v \notin busy
  /\ busy' = busy \cup {v}
  /\ UNCHANGED <<device, physical, Cli>>

ApplicationCloses(v) ==
  /\ v \in busy
  /\ busy' = busy \ {v}
  /\ UNCHANGED <<device, physical, Cli>>

OtherClientDeletes ==
  /\ \/ device["mine"] = "online" /\ device' = [device EXCEPT !["mine"] = "stopping"]
     \/ device["mine"] = "stopping" /\ device' = [device EXCEPT !["mine"] = "gone"]
  /\ UNCHANGED <<physical, busy, Cli>>

LateDelete ==
  /\ late /\ device[id] = "online"
  /\ device' = [device EXCEPT ![id] = "gone"] /\ late' = FALSE
  /\ UNCHANGED <<physical, busy, force, id, opened, pc, at, index, locked, dismounted, points,
                 removed, failure, restoreFailed, result, everLocked, lost>>

OtherClientCreates ==
  /\ device["mine"] = "gone" /\ device["other"] = "absent"
  /\ device' = [device EXCEPT !["other"] = "online"]
  /\ UNCHANGED <<physical, busy, Cli>>

PlugAndPlay ==
  /\ \/ physical # "none" /\ device[physical] = "gone" /\ physical' = "none"
     \/ physical = "none" /\ \E d \in Disks : device[d] = "online" /\ physical' = d
  /\ UNCHANGED <<device, busy, Cli>>

Next ==
  \/ CliStep
  \/ \E v \in Volumes : ApplicationOpens(v) \/ ApplicationCloses(v)
  \/ OtherClientDeletes \/ LateDelete \/ OtherClientCreates \/ PlugAndPlay

Spec == Init /\ [][Next]_vars

-----------------------------------------------------------------------------
(***************************************************************************)
(* Properties.                                                             *)
(***************************************************************************)

\* A delete that returns an ordinary error, one that speaks neither of a failed
\* restoration nor of an unconfirmed or unresolved removal, leaves every mount
\* point as it was, whichever volume and step it failed at.
FailedDeleteChangesNothing ==
  result = "failed" => \A d \in Disks : points[d] = AllPoints

\* Without /force no application loses files: no volume is dismounted under an
\* open file, and one busy volume keeps all the others mounted too.
OpenFilesAreSafe ==
  ~force => /\ lost = {}
            /\ pc \in {"dismount", "unmount", "delete"} => busy = {}

\* Mount points are never put back onto a disk that this CLI's own delete has
\* removed or may still remove.
NoRestoreUnderDelete ==
  [][\A d \in Disks :
       ~(points'[d] \subseteq points[d]) => ~late /\ failure # "unresolved"]_vars

\* While a volume that this CLI locked waits for mount points to be restored, it
\* stays locked; and no lock is given back that was never obtained.
LockedUntilRestored ==
  pc = "restore" /\ at \in everLocked /\ index < removed[at] => at \in locked

\* The disk that the user names is deleted by this CLI, at once or by a delete that is
\* carried out late, only when it is the disk whose volumes have all been dismounted, and
\* while none of its mount points is back.  (Another client's delete goes through
\* "stopping".)  A newcomer at its LUN may be deleted without: see OnlyNamedDiskTouched.
DeletesOnlyQuiet ==
  [][device["mine"] = "online" /\ device'["mine"] = "gone" =>
       opened = "mine" /\ dismounted = Volumes /\ points["mine"] = {}]_vars

\* README.md: delete by ID locks and dismounts the volumes on that disk.
OnlyNamedDiskTouched ==
  points["other"] = AllPoints /\ device["other"] # "gone"

\* Whichever step of delete_allocation fails at whichever volume, nobody loses files
\* without /force, and what was prepared is undone in order.
DeleteIsCareful ==
  TypeOK /\ FailedDeleteChangesNothing /\ OpenFilesAreSafe /\ LockedUntilRestored

\* The delete of the named disk comes after the preparation of that disk, and no undo after
\* a delete that was or may yet be carried out.
DeleteOrder == NoRestoreUnderDelete /\ DeletesOnlyQuiet

=============================================================================
