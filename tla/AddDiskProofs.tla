------------------------------ MODULE AddDiskProofs ------------------------------
(***************************************************************************)
(* Proofs about AddDisk, for every number of retries of the rollback.      *)
(***************************************************************************)
EXTENDS AddDisk, TLAPS

-----------------------------------------------------------------------------
(***************************************************************************)
(* The inductive invariant.                                                *)
(***************************************************************************)
Before == {"letter", "adapter", "capabilities", "create"}
Looked == {"revalidate", "format", "letterUp", "verifyMounted"}

\* Until it ends the add has no error and nothing is unresolved; then it has an exit code.
Running ==
  /\ pc # "end" => /\ exit = 9 /\ error = Plain /\ said = "nothing"
                   /\ late = {} /\ unknown = FALSE
  /\ pc = "end" => exit # 9

\* Before the create there is no allocation, and an add that failed without a word about a
\* rollback has never made one.
NothingCreated ==
  /\ pc \in Before => device = "absent"
  /\ exit = 1 /\ said = "nothing" => device = "absent"

\* While the letter has stayed where the add put it, it leads to the new disk, and so does
\* the volume that was looked up by it.
LetterKept ==
  /\ pc \in Looked \cup {"volume"} /\ ~strayed => letter = "mine"
  /\ pc \in Looked => volume # "none" /\ (~strayed => volume = "mine")

\* The volume that was looked up has been formatted.
VolumeFormatted == pc \in {"letterUp", "verifyMounted"} => volume \in formatted

Inv ==
  /\ TypeOK
  /\ Running
  /\ ExitCodeTruthful
  /\ NoSilentLeak
  /\ NothingCreated
  /\ LetterKept
  /\ VolumeFormatted

-----------------------------------------------------------------------------
(***************************************************************************)
(* Steps.                                                                  *)
(***************************************************************************)
Pcs == {"letter", "adapter", "capabilities", "create", "letterAgain", "find", "verify",
        "letterOnceMore", "getDisk", "attach", "partition", "assign", "volume",
        "revalidate", "format", "letterUp", "verifyMounted", "rollback", "end"}

\* The steps have these names.
LEMMA PcNames == {Steps[i] : i \in DOMAIN Steps} \cup {"rollback", "end"} = Pcs
  BY DEF Steps, Pcs

\* Where a failing step leads.
LEMMA FailStep ==
  ASSUME Fail, pc # "end"
  PROVE  \/ pc \notin Before /\ pc' = "rollback" /\ Keep
         \/ /\ pc \in Before /\ pc' = "end" /\ UNCHANGED <<retries, late, unknown>>
            /\ error' = Plain /\ said' = "nothing" /\ exit' = 1
  BY DEF Fail, Created, Move, Exits, ExitCode, IsUnresolved, Plain, Before

\* The steps that make nothing of their own and delete nothing.
Prepare ==
  \/ EnsureLetterAvailable \/ EnsureAdapter \/ QueryCapabilities \/ FindDisk
  \/ VerifyLocation \/ GetDisk \/ Attach \/ PreparePartition \/ AssignDriveLetter
  \/ WaitForVolume \/ FormatVolume \/ WaitForDriveState

\* Such a step goes on or fails.
LEMMA PrepareStep ==
  ASSUME Prepare
  PROVE  /\ UNCHANGED <<media, device, physical, busy>> /\ pc # "end"
         /\ \/ Fail
            \/ /\ Keep /\ pc' \in Pcs \ {"end", "rollback"}
               /\ (pc' \in Before => pc \in Before)
<1> USE DEF Before, Pcs
<1>1. ASSUME NEW from, NEW to, NEW condition, Test(from, to, condition)
      PROVE  /\ UNCHANGED <<media, device, physical, busy>> /\ pc = from
             /\ Fail \/ (condition /\ Keep /\ pc' = to)
  BY <1>1 DEF Test, Move, world
<1>2. CASE EnsureLetterAvailable
  BY <1>1, <1>2 DEF EnsureLetterAvailable
<1>3. CASE EnsureAdapter
  BY <1>3 DEF EnsureAdapter, Move
<1>4. CASE QueryCapabilities \/ FindDisk \/ GetDisk \/ WaitForDriveState
  BY <1>1, <1>4 DEF QueryCapabilities, FindDisk, GetDisk, WaitForDriveState
<1>5. CASE VerifyLocation
  BY <1>1, <1>5 DEF VerifyLocation
<1>6. CASE Attach
  BY <1>6 DEF Attach, Move
<1>7. CASE PreparePartition
  BY <1>7 DEF PreparePartition, Move
<1>8. CASE AssignDriveLetter
  BY <1>8 DEF AssignDriveLetter, Move
<1>9. CASE WaitForVolume
  BY <1>9 DEF WaitForVolume, Move, world
<1>10. CASE FormatVolume
  BY <1>10 DEF FormatVolume, Move, world
<1> QED
  BY <1>2, <1>3, <1>4, <1>5, <1>6, <1>7, <1>8, <1>9, <1>10 DEF Prepare

\* A failed rollback adds the uncertainty of its own error to the error that led to it.
LEMMA RecoveryErrors ==
  /\ Plain \in Error /\ Unresolved \in Error /\ ExitCode(Plain) = 1 /\ ExitCode(Unresolved) = 3
  /\ RecoveryFailed(Plain, Plain) \in Error /\ ExitCode(RecoveryFailed(Plain, Plain)) = 1
  /\ RecoveryFailed(Plain, Unresolved) \in Error
  /\ ExitCode(RecoveryFailed(Plain, Unresolved)) = 3
<1>1. Plain \in Error /\ Unresolved \in Error
  BY DEF Plain, Unresolved, Error
<1>2. ~IsUnresolved(Plain) /\ IsUnresolved(Unresolved)
  BY DEF IsUnresolved, Plain, Unresolved
<1>3. ASSUME NEW cause \in Error
      PROVE  /\ RecoveryFailed(Plain, cause) \in Error
             /\ IsUnresolved(RecoveryFailed(Plain, cause)) <=> IsUnresolved(cause)
  <2>1. IsUnresolved(cause) \in BOOLEAN
    BY DEF IsUnresolved
  <2>2. ASSUME NEW b \in BOOLEAN
        PROVE  /\ [Plain EXCEPT !.viaCause = b] \in Error
               /\ ~[Plain EXCEPT !.viaCause = b].direct
               /\ [Plain EXCEPT !.viaCause = b].viaCause = b
    <3>1. ~Plain.direct
      BY DEF Plain
    <3> QED
      BY <1>1, <3>1 DEF Error
  <2>3. /\ RecoveryFailed(Plain, cause) \in Error
        /\ ~RecoveryFailed(Plain, cause).direct
        /\ RecoveryFailed(Plain, cause).viaCause = IsUnresolved(cause)
    BY <2>1, <2>2 DEF RecoveryFailed
  <2>4. IsUnresolved(RecoveryFailed(Plain, cause)) <=> RecoveryFailed(Plain, cause).viaCause
    BY <2>3 DEF IsUnresolved
  <2> QED
    BY <2>1, <2>3, <2>4
<1> QED
  BY <1>1, <1>2, <1>3 DEF ExitCode

\* The end of a rollback, with what its error says.
LEMMA RollbackStep ==
  ASSUME Rollback, error = Plain
  PROVE  /\ pc = "rollback" /\ UNCHANGED <<media, volume, formatted>>
         /\ \/ pc' = "rollback" /\ retries > 0 /\ retries' = retries - 1
               /\ UNCHANGED <<world, error, said, exit, late, unknown>>
            \/ /\ pc' = "end" /\ UNCHANGED retries /\ error' \in Error
               /\ \/ /\ exit' = 1 /\ said' = "rolledBack" /\ device' = "gone"
                     /\ UNCHANGED <<late, unknown>>
                  \/ exit' = 1 /\ said' = "rollbackFailed" /\ UNCHANGED <<late, unknown>>
                  \/ /\ exit' = 3 /\ said' = "rollbackFailed"
                     /\ late' = {"delete"} /\ unknown' = TRUE
               /\ device' \in {device, "gone"}
               /\ \/ UNCHANGED <<physical, letter>>
                  \/ physical' = FALSE /\ letter' = (IF letter = "mine" THEN "none" ELSE letter)
               /\ UNCHANGED <<adapter, layout, attached, busy, strayed>>
<1>1. /\ RecoveryFailed(Plain, Plain) \in Error /\ ExitCode(RecoveryFailed(Plain, Plain)) = 1
      /\ RecoveryFailed(Plain, Unresolved) \in Error
      /\ ExitCode(RecoveryFailed(Plain, Unresolved)) = 3
      /\ Plain \in Error /\ ExitCode(Plain) = 1
  BY RecoveryErrors
<1>2. CASE RolledBack
  BY <1>1, <1>2 DEF RolledBack, Exits
<1>3. CASE RetryRollback
  BY <1>3 DEF RetryRollback
<1>4. CASE RollbackFails
  BY <1>1, <1>4 DEF RollbackFails, RollbackReported, Exits, world
<1> QED
  BY <1>2, <1>3, <1>4 DEF Rollback

Others ==
  \/ DiskArrives \/ DiskDeparts \/ OtherClientDeletes \/ LateMutation \/ LetterChanges
  \/ ApplicationOpensOrCloses

\* What the others may do: they never change what the CLI holds, and only a late create
\* makes an allocation.
LEMMA OthersStep ==
  ASSUME TypeOK, Others \/ UNCHANGED vars
  PROVE  /\ UNCHANGED <<cli, adapter>> /\ late' \in {late, {}}
         /\ \/ UNCHANGED device
            \/ device = "online" /\ device' = "gone"
            \/ device = "absent" /\ device' = "online" /\ "create" \in late
         /\ \/ UNCHANGED physical \/ (device = "online" /\ physical' = TRUE)
            \/ device = "gone" /\ UNCHANGED device
         /\ strayed' \in {strayed, TRUE} /\ (letter = "mine" /\ ~strayed' => letter' = "mine")
         /\ physical' \in BOOLEAN /\ busy' \in BOOLEAN /\ letter' \in {"none", "mine", "foreign"}
         /\ layout' \in {"raw", "empty", "whole", "odd"}
         /\ attached' \in {"offline", "readonly", "ready"}
<1>0. ASSUME Strays
      PROVE  strayed' \in {strayed, TRUE} /\ (letter = "mine" /\ ~strayed' => letter' = "mine")
  BY <1>0 DEF Strays, TypeOK
<1>1. CASE DiskArrives
  BY <1>1 DEF DiskArrives, TypeOK
<1>2. CASE DiskDeparts \/ OtherClientDeletes
  BY <1>0, <1>2 DEF DiskDeparts, OtherClientDeletes, TypeOK
<1>3. CASE LateMutation
  BY <1>3 DEF LateMutation, TypeOK
<1>4. CASE LetterChanges \/ ApplicationOpensOrCloses
  BY <1>0, <1>4 DEF LetterChanges, ApplicationOpensOrCloses, TypeOK
<1>5. CASE UNCHANGED vars
  BY <1>5 DEF vars, world, cli, TypeOK
<1> QED
  BY <1>1, <1>2, <1>3, <1>4, <1>5 DEF Others

\* The steps, by kind.
LEMMA StepKinds ==
  ASSUME [Next]_vars
  PROVE  Prepare \/ CreateDisk \/ VerifyMountedDrive \/ Rollback \/ Others \/ UNCHANGED vars
  BY DEF Next, CliStep, Prepare, Others

-----------------------------------------------------------------------------
(***************************************************************************)
(* The invariant is kept.                                                  *)
(***************************************************************************)
\* What creating the allocation may come to.
LEMMA CreateStep ==
  ASSUME Inv, CreateDisk
  PROVE  /\ pc = "create" /\ device = "absent"
         /\ UNCHANGED <<media, adapter, physical, layout, attached, letter, busy, strayed,
                        volume, formatted, retries>>
         /\ \/ device' = "online" /\ pc' = "letterAgain" /\ Keep
            \/ /\ UNCHANGED <<device, late, unknown>> /\ pc' = "end"
               /\ error' = Plain /\ said' = "nothing" /\ exit' = 1
            \/ /\ device' \in {"absent", "online"} /\ pc' = "end"
               /\ late' \in {{}, {"create"}} /\ unknown' = TRUE
               /\ error' = Unresolved /\ said' = "nothing" /\ exit' = 3
<1>1. pc = "create" /\ device = "absent"
  BY DEF CreateDisk, Inv, NothingCreated, Before
<1>2. ExitCode(Unresolved) = 3
  BY DEF ExitCode, IsUnresolved, Unresolved
<1> QED
  BY <1>1, <1>2, FailStep DEF CreateDisk, Before, Move, Keep, Exits

\* Every variable keeps its type.
LEMMA TypeStep ==
  ASSUME AddAssumption, Inv, [Next]_vars
  PROVE  TypeOK'
<1> USE DEF Inv
<1>0. /\ Plain \in Error /\ Unresolved \in Error
      /\ retries \in 0..MaxRetries /\ (retries > 0 => retries - 1 \in 0..MaxRetries)
      /\ error \in Error /\ unknown \in BOOLEAN
      /\ pc # "end" => error = Plain /\ unknown = FALSE
  BY RecoveryErrors DEF AddAssumption, TypeOK, Running
<1>1. ASSUME /\ pc' \in Pcs /\ retries' \in 0..MaxRetries /\ error' \in Error
             /\ said' \in {"nothing", "rolledBack", "rollbackFailed"} /\ exit' \in {0, 1, 3, 9}
             /\ late' \subseteq {"create", "delete"} /\ unknown' \in BOOLEAN,
             /\ media' = media /\ adapter' \in BOOLEAN
             /\ device' \in {"absent", "online", "gone"} /\ physical' \in BOOLEAN
             /\ layout' \in {"raw", "empty", "whole", "odd"}
             /\ attached' \in {"offline", "readonly", "ready"}
             /\ letter' \in {"none", "mine", "foreign"} /\ busy' \in BOOLEAN
             /\ strayed' \in BOOLEAN,
             volume' \in {"none", "mine", "foreign"} /\ formatted' \subseteq {"mine", "foreign"}
      PROVE  TypeOK'
  <2>1. pc' \in {Steps[i] : i \in DOMAIN Steps} \cup {"rollback", "end"}
    BY <1>1, PcNames
  <2> QED
    BY <1>1, <2>1 DEF TypeOK
<1>2. pc \in Pcs
  BY PcNames DEF TypeOK
<1>3. CASE Prepare
  <2>1. /\ adapter' \in BOOLEAN /\ layout' \in {"raw", "empty", "whole", "odd"}
        /\ attached' \in {"offline", "readonly", "ready"}
        /\ letter' \in {"none", "mine", "foreign"} /\ volume' \in {"none", "mine", "foreign"}
    <3>1. CASE PreparePartition \/ AssignDriveLetter
      BY <3>1 DEF PreparePartition, AssignDriveLetter, TypeOK
    <3>2. CASE EnsureAdapter \/ Attach \/ WaitForVolume \/ FormatVolume
      BY <3>2 DEF EnsureAdapter, Attach, WaitForVolume, FormatVolume, world, TypeOK
    <3>3. CASE UNCHANGED <<world, volume>>
      BY <3>3 DEF world, TypeOK
    <3>4. \/ PreparePartition \/ AssignDriveLetter \/ EnsureAdapter \/ Attach
          \/ WaitForVolume \/ FormatVolume \/ UNCHANGED <<world, volume>>
      BY <1>3 DEF Prepare, EnsureLetterAvailable, QueryCapabilities, FindDisk, VerifyLocation,
         GetDisk, WaitForDriveState, Test
    <3> QED
      BY <3>1, <3>2, <3>3, <3>4
  <2>4. strayed' \in BOOLEAN
    <3>1. UNCHANGED strayed \/ strayed' = FALSE
      BY <1>3 DEF Prepare, EnsureLetterAvailable, EnsureAdapter, QueryCapabilities, FindDisk,
         VerifyLocation, GetDisk, Attach, PreparePartition, AssignDriveLetter, WaitForVolume,
         FormatVolume, WaitForDriveState, Test, world
    <3> QED
      BY <3>1 DEF TypeOK
  <2>2. formatted' \subseteq {"mine", "foreign"}
    <3>1. UNCHANGED formatted \/ (FormatVolume /\ formatted' \subseteq formatted \cup {volume})
      BY <1>3 DEF Prepare, EnsureLetterAvailable, EnsureAdapter, QueryCapabilities, FindDisk,
         VerifyLocation, GetDisk, Attach, PreparePartition, AssignDriveLetter, WaitForVolume,
         FormatVolume, WaitForDriveState, Test
    <3>2. FormatVolume => volume \in {"mine", "foreign"}
      BY DEF FormatVolume, LetterKept, Looked, TypeOK
    <3> QED
      BY <3>1, <3>2 DEF TypeOK
  <2>3. /\ UNCHANGED <<media, device, physical, busy, retries, late, unknown>>
        /\ pc' \in Pcs /\ error' = Plain /\ said' \in {said, "nothing"} /\ exit' \in {exit, 1}
    BY <1>0, <1>3, PrepareStep, FailStep DEF Keep, Pcs
  <2> QED
    BY <1>0, <1>1, <2>1, <2>2, <2>3, <2>4 DEF TypeOK
<1>4. CASE CreateDisk
  <2>1. /\ UNCHANGED <<media, adapter, physical, layout, attached, letter, busy, strayed,
                       volume, formatted, retries>>
        /\ device' \in {"absent", "online"} /\ pc' \in Pcs
        /\ error' \in {error, Plain, Unresolved} /\ said' \in {said, "nothing"}
        /\ exit' \in {exit, 1, 3} /\ late' \subseteq late \cup {"create"}
        /\ unknown' \in BOOLEAN
    BY <1>0, <1>4, CreateStep DEF Keep, Pcs
  <2>2. /\ pc' \in Pcs /\ retries' \in 0..MaxRetries /\ error' \in Error
        /\ said' \in {"nothing", "rolledBack", "rollbackFailed"} /\ exit' \in {0, 1, 3, 9}
        /\ late' \subseteq {"create", "delete"} /\ unknown' \in BOOLEAN
    BY <1>0, <2>1 DEF TypeOK
  <2>3. /\ media' = media /\ adapter' \in BOOLEAN
        /\ device' \in {"absent", "online", "gone"} /\ physical' \in BOOLEAN
        /\ layout' \in {"raw", "empty", "whole", "odd"}
        /\ attached' \in {"offline", "readonly", "ready"}
        /\ letter' \in {"none", "mine", "foreign"} /\ busy' \in BOOLEAN
        /\ strayed' \in BOOLEAN
        /\ volume' \in {"none", "mine", "foreign"} /\ formatted' \subseteq {"mine", "foreign"}
    BY <2>1 DEF TypeOK
  <2> QED
    BY <1>1, <2>2, <2>3
<1>5. CASE VerifyMountedDrive
  <2>1. /\ UNCHANGED <<media, world, volume, formatted, retries, late, unknown>>
        /\ pc' \in Pcs /\ error' \in {error, Plain} /\ said' \in {said, "nothing"}
        /\ exit' \in {exit, 0, 1}
    BY <1>5, FailStep DEF VerifyMountedDrive, Keep, Pcs
  <2> QED
    BY <1>0, <1>1, <2>1 DEF TypeOK, world
<1>6. CASE Rollback
  <2>1. error = Plain
    BY <1>0, <1>6 DEF Rollback, RolledBack, RetryRollback, RollbackFails
  <2>2. /\ UNCHANGED <<media, adapter, layout, attached, busy, volume, formatted>>
        /\ retries' \in 0..MaxRetries /\ pc' \in Pcs /\ error' \in Error
        /\ said' \in {said, "rolledBack", "rollbackFailed"} /\ exit' \in {exit, 1, 3}
        /\ late' \in {late, {"delete"}} /\ unknown' \in BOOLEAN
        /\ device' \in {device, "gone"} /\ physical' \in BOOLEAN
        /\ letter' \in {letter, "none"} /\ strayed' \in BOOLEAN
    BY <1>0, <1>6, <2>1, RollbackStep DEF world, Pcs, TypeOK
  <2> QED
    BY <1>1, <2>2 DEF TypeOK
<1>7. CASE Others \/ UNCHANGED vars
  <2>1. UNCHANGED <<cli, adapter>> /\ late' \in {late, {}} /\ device' \in {"absent", "online", "gone"}
    BY <1>7, OthersStep DEF TypeOK
  <2>2. /\ physical' \in BOOLEAN /\ layout' \in {"raw", "empty", "whole", "odd"}
        /\ attached' \in {"offline", "readonly", "ready"}
        /\ letter' \in {"none", "mine", "foreign"} /\ busy' \in BOOLEAN /\ strayed' \in BOOLEAN
    BY <1>7, OthersStep DEF TypeOK
  <2>3. /\ pc' \in Pcs /\ retries' \in 0..MaxRetries /\ error' \in Error
        /\ said' \in {"nothing", "rolledBack", "rollbackFailed"} /\ exit' \in {0, 1, 3, 9}
        /\ late' \subseteq {"create", "delete"} /\ unknown' \in BOOLEAN
        /\ media' = media /\ adapter' \in BOOLEAN
        /\ volume' \in {"none", "mine", "foreign"} /\ formatted' \subseteq {"mine", "foreign"}
    BY <1>0, <1>2, <2>1 DEF TypeOK, cli
  <2> QED
    BY <1>1, <2>1, <2>2, <2>3
<1> QED
  BY <1>3, <1>4, <1>5, <1>6, <1>7, StepKinds

\* The add has an exit code exactly when it has ended.
LEMMA RunningStep ==
  ASSUME Inv, [Next]_vars
  PROVE  Running'
<1>0. TypeOK /\ Running /\ ExitCodeTruthful
  BY DEF Inv
<1>1. CASE Prepare
  BY <1>0, <1>1, PrepareStep, FailStep DEF Running, Keep, Pcs
<1>2. CASE CreateDisk
  <2>0. pc = "create"
    BY <1>2 DEF CreateDisk
  <2>1. CASE pc' = "letterAgain" /\ Keep
    BY <1>0, <2>0, <2>1 DEF Running, Keep
  <2>2. CASE pc' = "end" /\ exit' \in {1, 3}
    BY <2>2 DEF Running
  <2>3. (pc' = "letterAgain" /\ Keep) \/ (pc' = "end" /\ exit' \in {1, 3})
    BY <1>2, CreateStep
  <2> QED
    BY <2>1, <2>2, <2>3
<1>3. CASE VerifyMountedDrive
  BY <1>0, <1>3, FailStep DEF VerifyMountedDrive, Running, Keep
<1>4. CASE Rollback
  <2>1. pc = "rollback" /\ error = Plain
    BY <1>0, <1>4 DEF Running, Rollback, RolledBack, RetryRollback, RollbackFails
  <2> QED
    <3>1. \/ pc' = "rollback" /\ UNCHANGED <<error, said, exit, late, unknown>>
          \/ pc' = "end" /\ exit' \in {1, 3}
      BY <1>4, <2>1, RollbackStep
    <3> QED
      BY <1>0, <2>1, <3>1 DEF Running
<1>5. CASE Others \/ UNCHANGED vars
  BY <1>0, <1>5, OthersStep DEF Running, cli
<1> QED
  BY <1>1, <1>2, <1>3, <1>4, <1>5, StepKinds

\* The exit code is 3 exactly when an outcome is unknown, through the nested errors of a
\* rollback that failed.
LEMMA ExitCodeStep ==
  ASSUME Inv, [Next]_vars
  PROVE  ExitCodeTruthful'
<1>0. TypeOK /\ Running /\ ExitCodeTruthful
  BY DEF Inv
<1>1. CASE Prepare
  BY <1>0, <1>1, PrepareStep, FailStep DEF Running, ExitCodeTruthful, Keep, Pcs
<1>2. CASE CreateDisk
  <2>1. \/ pc' = "letterAgain" /\ UNCHANGED <<exit, late, unknown>>
        \/ exit' = 1 /\ UNCHANGED <<late, unknown>>
        \/ exit' = 3 /\ unknown' = TRUE
    BY <1>2, CreateStep DEF Keep
  <2>2. pc = "create"
    BY <1>2 DEF CreateDisk
  <2> QED
    BY <1>0, <2>1, <2>2 DEF Running, ExitCodeTruthful
<1>3. CASE VerifyMountedDrive
  BY <1>0, <1>3, FailStep DEF VerifyMountedDrive, Running, ExitCodeTruthful, Keep
<1>4. CASE Rollback
  <2>1. pc = "rollback" /\ error = Plain
    BY <1>0, <1>4 DEF Running, Rollback, RolledBack, RetryRollback, RollbackFails
  <2> QED
    <3>1. \/ UNCHANGED <<exit, late, unknown>>
          \/ exit' = 1 /\ UNCHANGED <<late, unknown>>
          \/ exit' = 3 /\ unknown' = TRUE
      BY <1>4, <2>1, RollbackStep
    <3> QED
      BY <1>0, <2>1, <3>1 DEF Running, ExitCodeTruthful
<1>5. CASE Others \/ UNCHANGED vars
  <2>1. UNCHANGED <<exit, unknown>> /\ late' \in {late, {}}
    BY <1>0, <1>5, OthersStep DEF cli
  <2> QED
    BY <1>0, <2>1 DEF ExitCodeTruthful
<1> QED
  BY <1>1, <1>2, <1>3, <1>4, <1>5, StepKinds

\* No allocation is left behind that the error does not mention.
LEMMA NoLeakStep ==
  ASSUME Inv, [Next]_vars
  PROVE  NoSilentLeak' /\ NothingCreated'
<1> USE DEF Before
<1>0. TypeOK /\ Running /\ ExitCodeTruthful /\ NoSilentLeak /\ NothingCreated
  BY DEF Inv
<1>1. CASE Prepare
  BY <1>0, <1>1, PrepareStep, FailStep DEF Running, NoSilentLeak, NothingCreated, Keep, Pcs
<1>2. CASE CreateDisk
  <2>1. \/ pc' = "letterAgain" /\ exit' = 9 /\ said' = "nothing"
        \/ pc' = "end" /\ UNCHANGED device /\ said' = "nothing"
        \/ pc' = "end" /\ exit' = 3 /\ said' = "nothing"
    BY <1>0, <1>2, CreateStep DEF Running, Keep
  <2>2. pc = "create" /\ device = "absent"
    BY <1>2, CreateStep
  <2> QED
    BY <2>1, <2>2 DEF NoSilentLeak, NothingCreated
<1>3. CASE VerifyMountedDrive
  BY <1>0, <1>3, FailStep DEF VerifyMountedDrive, Running, NoSilentLeak, NothingCreated, Keep, world
<1>4. CASE Rollback
  <2>1. pc = "rollback" /\ error = Plain
    BY <1>0, <1>4 DEF Running, Rollback, RolledBack, RetryRollback, RollbackFails
  <2> QED
    <3>1. \/ pc' = "rollback" /\ UNCHANGED <<exit, said>>
          \/ pc' = "end" /\ said' = "rolledBack" /\ device' = "gone"
          \/ pc' = "end" /\ said' = "rollbackFailed"
      BY <1>4, <2>1, RollbackStep
    <3> QED
      BY <1>0, <2>1, <3>1 DEF Running, NoSilentLeak, NothingCreated
<1>5. CASE Others \/ UNCHANGED vars
  BY <1>0, <1>5, OthersStep DEF Running, ExitCodeTruthful, NoSilentLeak, NothingCreated, cli
<1> QED
  BY <1>1, <1>2, <1>3, <1>4, <1>5, StepKinds

\* The letter, the volume and the format belong to the new disk, unless the letter moved.
LEMMA VolumeStep ==
  ASSUME Inv, [Next]_vars
  PROVE  LetterKept' /\ VolumeFormatted'
<1> USE DEF Inv
<1>0. TypeOK /\ LetterKept /\ VolumeFormatted
  OBVIOUS
<1> USE DEF Looked
<1>1. CASE Prepare
  <2>2. CASE Fail
    BY <1>1, <2>2, PrepareStep, FailStep DEF LetterKept, VolumeFormatted
  <2>3. CASE WaitForVolume /\ ~Fail
    BY <1>0, <2>3 DEF WaitForVolume, Move, world, LetterKept, VolumeFormatted, TypeOK
  <2>4. CASE FormatVolume /\ ~Fail
    BY <1>0, <2>4 DEF FormatVolume, Move, world, LetterKept, VolumeFormatted, TypeOK
  <2>5. CASE VerifyLocation /\ ~Fail
    BY <1>0, <2>5 DEF VerifyLocation, Test, Move, world, LetterKept, VolumeFormatted
  <2>6. CASE WaitForDriveState /\ ~Fail
    BY <1>0, <2>6 DEF WaitForDriveState, Test, Move, world, LetterKept, VolumeFormatted
  <2>7. CASE (PreparePartition \/ AssignDriveLetter) /\ ~Fail
    BY <2>7 DEF PreparePartition, AssignDriveLetter, Move, LetterKept, VolumeFormatted
  <2>8. CASE /\ \/ EnsureLetterAvailable \/ EnsureAdapter \/ QueryCapabilities \/ FindDisk
                \/ GetDisk \/ Attach
             /\ ~Fail
    <3>1. pc' \notin Looked \cup {"volume"}
      BY <2>8 DEF EnsureLetterAvailable, EnsureAdapter, QueryCapabilities, FindDisk, GetDisk,
         Attach, Test, Move
    <3> QED
      BY <3>1 DEF LetterKept, VolumeFormatted
  <2> QED
    BY <1>1, <2>2, <2>3, <2>4, <2>5, <2>6, <2>7, <2>8 DEF Prepare
<1>2. CASE CreateDisk
  BY <1>2, CreateStep DEF LetterKept, VolumeFormatted, Keep
<1>3. CASE VerifyMountedDrive
  BY <1>3, FailStep DEF VerifyMountedDrive, LetterKept, VolumeFormatted, Before
<1>4. CASE Rollback
  <2>1. pc = "rollback" /\ error = Plain
    BY <1>4 DEF Running, Rollback, RolledBack, RetryRollback, RollbackFails
  <2>2. pc' \in {"rollback", "end"}
    BY <1>4, <2>1, RollbackStep
  <2> QED
    BY <2>2 DEF LetterKept, VolumeFormatted
<1>5. CASE Others \/ UNCHANGED vars
  <2>1. UNCHANGED <<pc, volume, formatted>>
    BY <1>5, OthersStep DEF cli
  <2>2. ~strayed' => ~strayed
    BY <1>0, <1>5, OthersStep DEF TypeOK
  <2>3. LetterKept'
    BY <1>0, <1>5, <2>1, <2>2, OthersStep DEF LetterKept
  <2>4. VolumeFormatted'
    BY <1>0, <2>1 DEF VolumeFormatted
  <2> QED
    BY <2>3, <2>4
<1> QED
  BY <1>1, <1>2, <1>3, <1>4, <1>5, StepKinds

\* The invariant holds initially.
LEMMA InvInit ==
  ASSUME AddAssumption, Init
  PROVE  Inv
<1>1. TypeOK
  <2>1. pc \in {Steps[i] : i \in DOMAIN Steps} \cup {"rollback", "end"}
    BY PcNames DEF Init, Pcs
  <2>2. retries \in 0..MaxRetries /\ error \in Error
    BY RecoveryErrors DEF Init, AddAssumption
  <2> QED
    BY <2>1, <2>2 DEF Init, TypeOK
<1>2. Running /\ ExitCodeTruthful /\ NoSilentLeak /\ NothingCreated
  BY DEF Init, Running, ExitCodeTruthful, NoSilentLeak, NothingCreated
<1>3. LetterKept /\ VolumeFormatted
  BY DEF Init, LetterKept, VolumeFormatted, Looked
<1> QED
  BY <1>1, <1>2, <1>3 DEF Inv

\* The invariant of add_disk holds in every reachable state.
THEOREM AddInvariant ==
  ASSUME AddAssumption
  PROVE  Spec => []Inv
<1>1. Init => Inv
  BY InvInit
<1>2. Inv /\ [Next]_vars => Inv'
  BY TypeStep, RunningStep, ExitCodeStep, NoLeakStep, VolumeStep DEF Inv
<1> QED
  BY <1>1, <1>2, PTL DEF Spec

-----------------------------------------------------------------------------
(***************************************************************************)
(* The theorems.                                                           *)
(***************************************************************************)
\* add_disk is honest, whichever step fails and whatever its rollback comes to: the exit
\* code is 3 exactly when a create or a delete may still happen or have happened, and after
\* a plain failure the disk exists only if the error says that the rollback failed.
THEOREM AddsAreHonest ==
  ASSUME AddAssumption
  PROVE  Spec => []AddIsHonest
<1>1. Inv => AddIsHonest
  BY DEF Inv, AddIsHonest
<1> QED
  BY <1>1, AddInvariant, PTL

\* When add_disk reports success, the letter leads to the new disk, whatever has moved it in
\* the meantime; and unless it has left the volume that add_disk gave it to, the volume of
\* the new disk, chosen by its letter, is the one that has been formatted.
THEOREM SuccessesAreUsable ==
  ASSUME AddAssumption
  PROVE  Spec => SuccessIsUsable
<1> DEFINE Usable == exit # 0 /\ exit' = 0 =>
                       letter = "mine" /\ physical /\ ("mine" \in formatted \/ strayed)
<1>1. Inv /\ [Next]_vars => [Usable]_vars
  <2> SUFFICES ASSUME Inv, [Next]_vars, exit # 0, exit' = 0
               PROVE  letter = "mine" /\ physical /\ ("mine" \in formatted \/ strayed)
    OBVIOUS
  <2> USE DEF Inv
  <2>1. ~Prepare
    BY PrepareStep, FailStep DEF Keep
  <2>2. ~CreateDisk
    BY CreateStep DEF Keep
  <2>3. ~Rollback
    <3>1. Rollback => error = Plain
      BY DEF Running, Rollback, RolledBack, RetryRollback, RollbackFails
    <3> QED
      BY <3>1, RollbackStep
  <2>4. ~(Others \/ UNCHANGED vars)
    BY OthersStep DEF cli
  <2>5. VerifyMountedDrive
    BY <2>1, <2>2, <2>3, <2>4, StepKinds
  <2>6. ~Fail
    BY <2>5, FailStep DEF VerifyMountedDrive, Keep
  <2> QED
    BY <2>5, <2>6 DEF VerifyMountedDrive, VerifyMounted, LetterKept, Looked, VolumeFormatted,
       TypeOK
<1> QED
  BY <1>1, AddInvariant, PTL DEF Spec, SuccessIsUsable

=============================================================================
