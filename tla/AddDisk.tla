--------------------------------- MODULE AddDisk ---------------------------------
(***************************************************************************)
(* The add flow of the CLI (disk/creation.rs, disk/provisioning.rs): find  *)
(* or install the adapter, create an allocation, wait for its Windows disk, *)
(* partition, letter, format and verify it, or roll the allocation back;    *)
(* and the exit code (driver.rs, main.rs) its error becomes.  Beside it     *)
(* other volumes take and leave the drive letter, other clients delete,    *)
(* applications open files, and disks arrive and depart.  Creating and      *)
(* deleting are MutationCall, the rollback's delete is RemoveDisk: both may *)
(* succeed, fail, or stay unresolved and be carried out later.             *)
(*                                                                         *)
(* A definition may follow a wrong form of itself, named for the mistake   *)
(* and used by no action.                                                  *)
(***************************************************************************)
EXTENDS Naturals

CONSTANT
  MaxRetries       \* bound of the model: lock refusals before the deadline

\* What the instances of this module assume.
AddAssumption == MaxRetries \in Nat

VARIABLES
  media,           \* MediaKind
  adapter,         \* an adapter is installed
  device,          \* the allocation of this add
  physical,        \* Windows shows its disk
  layout,          \* what WMI reports of it
  attached,        \* whether it is offline or read-only
  letter,          \* who has the requested drive letter
  busy,            \* an application holds files on the new volume
  volume,          \* the MSFT_Volume object that wait_for_volume returned
  formatted,       \* volumes that were formatted
  pc, retries,
  error,           \* the anyhow::Error: what downcasts find in it
  said,            \* what its context says about the allocation
  exit,            \* the process exit code, 9 while running
  late, unknown,   \* observers: mutations that may still happen; unresolved ones
  strayed          \* observer: the letter has left the volume the add gave it to

world == <<adapter, device, physical, layout, attached, letter, busy, strayed>>
vars == <<media, world, volume, formatted, pc, retries, error, said, exit, late, unknown>>

\* direct: the chain holds an UnresolvedOutcome.  viaCause: the outermost
\* RecoveryFailure has a cause that is itself unresolved.
Error == [direct : BOOLEAN, viaCause : BOOLEAN]
Plain == [direct |-> FALSE, viaCause |-> FALSE]
Unresolved == [direct |-> TRUE, viaCause |-> FALSE]

IsUnresolvedDirectly(e) == e.direct
IsUnresolved(e) == e.direct \/ e.viaCause
RecoveryFailed(primary, cause) == [primary EXCEPT !.viaCause = IsUnresolved(cause)]

Steps == <<"letter", "adapter", "capabilities", "create", "letterAgain", "find", "verify",
           "letterOnceMore", "getDisk", "attach", "partition", "assign", "volume",
           "revalidate", "format", "letterUp", "verifyMounted">>

\* The state is well formed; the rollback of creation.rs never waits past its deadline.
TypeOK ==
  /\ media \in {"Fixed", "Removable"} /\ adapter \in BOOLEAN
  /\ device \in {"absent", "online", "gone"} /\ physical \in BOOLEAN
  /\ layout \in {"raw", "empty", "whole", "odd"}
  /\ attached \in {"offline", "readonly", "ready"}
  /\ letter \in {"none", "mine", "foreign"} /\ busy \in BOOLEAN
  /\ volume \in {"none", "mine", "foreign"} /\ formatted \subseteq {"mine", "foreign"}
  /\ pc \in {Steps[i] : i \in DOMAIN Steps} \cup {"rollback", "end"}
  /\ retries \in 0..MaxRetries
  /\ error \in Error /\ said \in {"nothing", "rolledBack", "rollbackFailed"}
  /\ exit \in {0, 1, 3, 9}
  /\ late \subseteq {"create", "delete"} /\ unknown \in BOOLEAN
  /\ strayed \in BOOLEAN

Init ==
  /\ media \in {"Fixed", "Removable"} /\ adapter \in BOOLEAN
  /\ device = "absent" /\ physical = FALSE /\ layout = "raw" /\ attached = "ready"
  /\ letter \in {"none", "foreign"} /\ busy = FALSE
  /\ volume = "none" /\ formatted = {}
  /\ pc = "letter" /\ retries = MaxRetries
  /\ error = Plain /\ said = "nothing" /\ exit = 9
  /\ late = {} /\ unknown = FALSE /\ strayed = FALSE

-----------------------------------------------------------------------------
(***************************************************************************)
(* Where a step leads.  The exit code is decided by error_exit_code.       *)
(***************************************************************************)
ExitCode(e) == IF IsUnresolved(e) THEN 3 ELSE 1

Keep == UNCHANGED <<retries, error, said, exit, late, unknown>>
Move(next) == pc' = next /\ Keep

Exits(e, text) ==
  /\ pc' = "end" /\ error' = e /\ said' = text /\ exit' = ExitCode(e)

\* Before the create an error ends the add, afterwards it starts the rollback.
Created == pc \notin {"letter", "adapter", "capabilities", "create"}
Fail ==
  IF Created THEN Move("rollback")
  ELSE Exits(Plain, "nothing") /\ UNCHANGED <<retries, late, unknown>>

\* A look-up or a check: it may pass when its condition holds, and may fail.
Test(from, to, condition) ==
  /\ pc = from
  /\ (condition /\ Move(to)) \/ Fail
  /\ UNCHANGED <<media, world, volume, formatted>>

-----------------------------------------------------------------------------
(***************************************************************************)
(* add_disk up to the allocation.                                          *)
(***************************************************************************)
EnsureLetterAvailable ==
  \/ Test("letter", "adapter", letter = "none")
  \/ Test("letterAgain", "find", letter = "none")
  \/ Test("letterOnceMore", "getDisk", letter = "none")

\* ensure_adapter: the installation, if needed, and the wait for the adapter.
EnsureAdapter ==
  /\ pc = "adapter"
  /\ \/ adapter' = TRUE /\ Move("capabilities")
     \/ adapter' \in {adapter, TRUE} /\ Fail
  /\ UNCHANGED <<media, device, physical, layout, attached, letter, busy, strayed, volume,
                 formatted>>

QueryCapabilities == Test("capabilities", "create", adapter)

CreateDisk ==
  /\ pc = "create"
  /\ \/ device' = "online" /\ Move("letterAgain")
     \/ UNCHANGED device /\ Fail
     \/ /\ device' \in {device, "online"}
        /\ late' = IF device' = device THEN {"create"} ELSE {}
        /\ unknown' = TRUE
        /\ Exits(Unresolved, "nothing") /\ UNCHANGED retries
  /\ UNCHANGED <<media, adapter, physical, layout, attached, letter, busy, strayed, volume,
                 formatted>>

-----------------------------------------------------------------------------
(***************************************************************************)
(* initialize_created_disk and initialize_and_format.  A WMI call that     *)
(* fails may have done its work, or a part of it.                          *)
(***************************************************************************)
FindDisk == Test("find", "verify", physical)
VerifyLocation ==
  \/ Test("verify", "letterOnceMore", physical)
  \/ Test("revalidate", "format", physical)

\* No boot or system disk, and the requested size.
GetDisk == Test("getDisk", "attach", physical)

\* online_disk and set_disk_read_only, each only when needed.
Attach ==
  /\ pc = "attach"
  /\ \/ physical /\ attached' = "ready" /\ Move("partition")
     \/ attached' \in {attached} \cup (IF physical THEN {"ready"} ELSE {}) /\ Fail
  /\ UNCHANGED <<media, adapter, device, physical, layout, letter, busy, strayed, volume,
                 formatted>>

\* WMI refuses a letter that another volume has.
LetterTaken == letter = "foreign"

\* A RAW disk is initialized and partitioned with the letter; removable media
\* may come with one partition that spans it; anything else is refused.
Partitionable == physical /\ (layout = "raw" \/ (media = "Removable" /\ layout = "empty"))

PreparePartition ==
  /\ pc = "partition"
  /\ \/ /\ Partitionable /\ ~LetterTaken
        /\ layout' = "whole" /\ letter' = "mine" /\ strayed' = FALSE
        /\ Move("volume")
     \/ /\ physical /\ media = "Removable" /\ layout = "whole"
        /\ Move("assign")
        /\ UNCHANGED <<layout, letter, strayed>>
     \/ /\ \/ UNCHANGED <<layout, letter>>
           \/ Partitionable /\ layout' \in {"empty", "whole"} /\ UNCHANGED letter
           \/ Partitionable /\ ~LetterTaken /\ layout' = "whole" /\ letter' = "mine"
        /\ Fail /\ UNCHANGED strayed
  /\ UNCHANGED <<media, adapter, device, physical, attached, busy, volume, formatted>>

\* check_storage_method: every return value but 0 is an error.
Assigned == physical /\ ~LetterTaken

AssignDriveLetter ==
  /\ pc = "assign"
  /\ \/ /\ Assigned
        /\ letter' = "mine" /\ strayed' = FALSE
        /\ Move("volume")
     \/ /\ letter' \in {letter} \cup (IF Assigned THEN {"mine"} ELSE {})
        /\ Fail /\ UNCHANGED strayed
  /\ UNCHANGED <<media, adapter, device, physical, layout, attached, busy, volume, formatted>>

\* The volume to format is the one that has the letter.
WaitForVolume ==
  /\ pc = "volume"
  /\ \/ letter # "none" /\ volume' = letter /\ Move("revalidate")
     \/ UNCHANGED volume /\ Fail
  /\ UNCHANGED <<media, world, formatted>>

\* A format that fails may have begun.
FormatVolume ==
  /\ pc = "format"
  /\ \/ (volume = "mine" => physical) /\ formatted' = formatted \cup {volume}
        /\ Move("letterUp")
     \/ formatted' \in {formatted, formatted \cup {volume}} /\ Fail
  /\ UNCHANGED <<media, world, volume>>

WaitForDriveState == Test("letterUp", "verifyMounted", letter # "none")

VerifyMountedByLetter == letter # "none"
\* verify_mounted_drive: the letter leads to the disk number, that to the location.
VerifyMounted == letter = "mine" /\ physical

VerifyMountedDrive ==
  /\ pc = "verifyMounted"
  /\ \/ /\ VerifyMounted
        /\ pc' = "end" /\ exit' = 0
        /\ UNCHANGED <<retries, error, said, late, unknown>>
     \/ Fail
  /\ UNCHANGED <<media, world, volume, formatted>>

-----------------------------------------------------------------------------
(***************************************************************************)
(* rollback_created_disk: delete_allocation without force, repeated while a *)
(* volume refuses to be locked and the deadline has not passed.            *)
(***************************************************************************)
RolledBack ==
  /\ pc = "rollback" /\ device = "online" /\ physical /\ ~busy
  /\ device' = "gone" /\ UNCHANGED strayed
  /\ \/ physical' = FALSE /\ letter' = (IF letter = "mine" THEN "none" ELSE letter)
        /\ Exits(error, "rolledBack")
     \/ UNCHANGED <<physical, letter>>           \* still shown after 30 seconds
        /\ Exits(RecoveryFailed(error, Plain), "rollbackFailed")
  /\ UNCHANGED <<media, adapter, layout, attached, busy, volume, formatted, retries, late,
                 unknown>>

RetryRollback ==
  /\ pc = "rollback" /\ retries > 0
  /\ retries' = retries - 1
  /\ UNCHANGED <<media, world, volume, formatted, pc, error, said, exit, late, unknown>>

RollbackReported(e) == Exits(RecoveryFailed(error, e), "rollbackFailed")

RollbackFails ==
  /\ pc = "rollback"
  /\ \/ RollbackReported(Plain) /\ UNCHANGED <<late, unknown>>
     \/ /\ physical
        /\ RollbackReported(Unresolved) /\ late' = {"delete"} /\ unknown' = TRUE
  /\ UNCHANGED <<media, world, volume, formatted, retries>>

Rollback == RolledBack \/ RetryRollback \/ RollbackFails

CliStep ==
  \/ EnsureLetterAvailable \/ EnsureAdapter \/ QueryCapabilities \/ CreateDisk \/ FindDisk
  \/ VerifyLocation \/ GetDisk \/ Attach \/ PreparePartition \/ AssignDriveLetter
  \/ WaitForVolume \/ FormatVolume \/ WaitForDriveState \/ VerifyMountedDrive \/ Rollback

-----------------------------------------------------------------------------
(***************************************************************************)
(* Windows and everybody else.                                             *)
(***************************************************************************)
cli == <<media, volume, formatted, pc, retries, error, said, exit, unknown>>

Strays == strayed' = (strayed \/ (letter = "mine" /\ letter' # "mine"))

DiskArrives ==
  /\ device = "online" /\ ~physical
  /\ physical' = TRUE
  /\ layout' \in (IF media = "Fixed" THEN {"raw", "odd"} ELSE {"raw", "empty", "whole", "odd"})
  /\ attached' \in {"offline", "readonly", "ready"}
  /\ letter' \in {letter} \cup (IF layout' = "whole" /\ letter = "none" THEN {"mine"} ELSE {})
  /\ UNCHANGED <<adapter, device, busy, strayed, cli, late>>

DiskDeparts ==
  /\ device = "gone" /\ physical
  /\ physical' = FALSE /\ letter' = (IF letter = "mine" THEN "none" ELSE letter)
  /\ Strays
  /\ UNCHANGED <<adapter, device, layout, attached, busy, cli, late>>

OtherClientDeletes ==
  /\ device = "online" /\ device' = "gone"
  /\ UNCHANGED <<adapter, physical, layout, attached, letter, busy, strayed, cli, late>>

LateMutation ==
  /\ \/ "create" \in late /\ device = "absent" /\ device' = "online" /\ late' = {}
     \/ "delete" \in late /\ device = "online" /\ device' = "gone" /\ late' = {}
  /\ UNCHANGED <<adapter, physical, layout, attached, letter, busy, strayed, cli>>

\* Another program moves the letter: to or from other volumes, away from the new
\* one and back to it.
LetterChanges ==
  /\ letter' \in {"none", "foreign", "mine"} \ {letter}
  /\ letter' = "mine" => physical /\ layout = "whole"
  /\ Strays
  /\ UNCHANGED <<adapter, device, physical, layout, attached, busy, cli, late>>

ApplicationOpensOrCloses ==
  /\ letter = "mine" \/ busy
  /\ busy' = ~busy
  /\ UNCHANGED <<adapter, device, physical, layout, attached, letter, strayed, cli, late>>

Next ==
  \/ CliStep
  \/ DiskArrives \/ DiskDeparts \/ OtherClientDeletes \/ LateMutation \/ LetterChanges
  \/ ApplicationOpensOrCloses

Spec == Init /\ [][Next]_vars

\* Every wait of the CLI has a deadline, so the process keeps moving.
FairSpec == Spec /\ WF_vars(CliStep)

-----------------------------------------------------------------------------
(***************************************************************************)
(* Properties.                                                             *)
(***************************************************************************)

\* README.md's promise about exit codes, through the nested errors of a rollback
\* that itself failed: 3 is returned exactly when a create or a delete of this
\* run has an unknown outcome, so that nothing can happen after a 0 or a 1.
ExitCodeTruthful ==
  /\ exit # 9 => (exit = 3 <=> unknown)
  /\ exit \in {0, 1} => late = {}

\* No allocation is left behind unmentioned: after an ordinary failure the disk
\* is online only if the error says that the rollback failed too, and an error
\* that says rolled back means that the disk is gone.
NoSilentLeak ==
  /\ exit = 1 /\ device = "online" => said = "rollbackFailed"
  /\ said = "rolledBack" => device = "gone"

\* When add reports success, the letter leads to its own disk, although letters and
\* disks may have come and gone since; and if the letter has stayed where the add put
\* it, the volume there has been formatted.  wait_for_volume looks the volume up by its
\* letter, so a letter that was elsewhere at that moment and is back at the check
\* yields a success with the new volume unformatted: see FormatsOnlyOwnVolume.
SuccessIsUsable ==
  [][exit # 0 /\ exit' = 0 =>
       letter = "mine" /\ physical /\ ("mine" \in formatted \/ strayed)]_vars

\* docs/architecture.md: drive letters must not be treated as disk identity.  The
\* volume that is formatted is the one of the new disk.
FormatsOnlyOwnVolume == formatted \subseteq {"mine"}

\* The add ends, also when a volume refuses to be locked for ever.
AddEnds == <>(pc = "end")

\* Whichever step of add_disk fails, and whatever its rollback comes to, the exit code
\* and the error say what became of the disk.
AddIsHonest == TypeOK /\ ExitCodeTruthful /\ NoSilentLeak

=============================================================================
