# WispDisk in TLA+

WispDisk is a volatile virtual disk for Windows: `WispDisk.sys`, a StorPort
virtual miniport in C++ that serves up to 16 RAM disks as LUNs of one SCSI
target, and `wispdisk.exe`, a Rust CLI that installs the adapter, creates and
formats disks and deletes them.  The driver keeps all the shared state.  This
project models the driver (the LUN table with its memory and I/O leases, the
management controller above it, the identities of adapters, READ and WRITE), the
CLI (the recovery of lost answers, adding and deleting a disk, the search for its
Windows disk, installation, the control protocol, logging, the command line) and
the build tool; checks them with TLC; and proves with TLAPS every safety property that
a passing run checks: the memory safety and the quota of the store, all that the
controller promises and that it implements its two abstract specifications, the
truthfulness of the CLI's recovery, the parts of the CLI, the freshness of adapter
identities, the arithmetic of READ and WRITE, and the coherence of builds and releases.

## 1. Inventory

| Component | State | Operations | Hard behaviour |
|---|---|---|---|
| LUN store (`driver/src/storage`) | 16 LUN records, `TotalAllocatedBytes`, `NextDeviceId`, pool blocks | create (select, allocate, zero, commit), delete (mark, wait, detach, free, finalize), drain, acquire/release an I/O lease | memory is allocated, freed, read and written outside `LunLock`; counters wrap; a fault or a stop between two critical sections |
| Management controller (`driver/src/management`) | operation table, `NextOperationId`, busy flag and idle event, the worker | reserve (with eviction), query, list, submit, process the work item, publish, complete, notify, shut down | the SRB passes from StartIo to a worker and back; replays; queueing may fail; teardown runs beside the worker |
| Adapter lifecycle (`driver.cpp`, `adapter_context.cpp`) | `AdapterStopping`, `AdapterInstance` | initialise, stop, restart, free resources | stop and restart write the flag without the lock; a new instance follows an old one |
| Fault injection (`diagnostics.cpp`, Debug builds) | mode and remaining count, trace ring | configure, take a fault, snapshot | a response is spoiled after the mutation was committed |
| Control requests (`control_request.cpp`, `operation_state.cpp`, `disk_operations.cpp`) | none | validate header and body, write responses | sizes and reserved fields at their limits |
| SCSI (`driver/src/scsi`) | none beyond a lease | parse CDBs, range checks, INQUIRY, READ CAPACITY, MODE SENSE, REPORT LUNS, READ/WRITE | LBA arithmetic; copying without a lock |
| CLI recovery (`recovery.rs`, `adapter/`) | the reserved handle, retry state | reserve, submit, query after a lost response, resubmit | lost responses; unknown outcomes; an adapter that restarts |
| CLI add and delete (`disk/`, `volume/`) | locked volumes, removed mounts, the physical disk | create, find the disk, provision, roll back; lock, dismount, remove mounts, delete, restore | each step may fail; the undo may fail; PnP arrival and departure |
| CLI search for the disk (`disk/mod.rs`, `interface_notification.rs`) | a notification subscription and its event | subscribe, enumerate, wait, unsubscribe | callbacks on another thread; an announcement before the disk can be opened; a deadline |
| CLI installation (`adapter/install.rs`) | extracted files, the driver store, root devices | extract, stage, create the device, bind, remove it again | several processes at once; a failing undo |
| CLI control protocol (`adapter/mod.rs`, `protocol.rs`) | the correlation counter | scan ports, send, check the answer | other drivers behind the ports; refusals are shorter than answers |
| CLI provisioning (`disk/provisioning.rs`) | none of its own | WMI calls: initialise, partition, letter, format | each may fail; letters and disks move meanwhile |
| CLI logging (`logging/`) | line buffer, ETW session, two threads | start, log, stop | order of shutdown; a full buffer; a session that will not stop |
| CLI arguments (`args.rs`, `main.rs`) | none | normalise, parse, decide the command | numeric limits; two spellings; many combinations |
| CLI inventory, Win32 helpers, payload | none | formatting, wrappers | none that a model checker reaches |
| Build tool and scripts | files under `target/`, `bin/` and the release | build, sign, record, package | a build that stops half-way; cargo's caching; two targets, one certificate file |

How they meet.  The CLI sends control SRBs (`IOCTL_SCSI_MINIPORT`) that arrive
in `HwStartIo`.  Reads of state are answered there.  A mutation is admitted
under `LunLock` (`PrepareSubmission`), handed to one StorPort worker
(`StorPortQueueWorkItem`), executed at PASSIVE level, published under the lock,
completed, announced with `BusChangeDetected`, and only then does admission
reopen.  Disk I/O arrives in `HwStartIo` concurrently: it takes a lease under
the lock, copies without it and releases the lease under the lock.  Teardown
(`HwFreeAdapterResources`) closes admission, waits for the idle event, drains
every LUN and frees the worker.

What makes each part correct:

- store: memory used under a lease stays allocated to that disk; every block
  has one owner; a disk never shows another one's data; IDs are never reused;
  the quota holds;
- controller: one mutation at a time; one effect per handle; what a handle
  reports agrees with the LUN table; the table can always take a reservation;
  StorPort learns of every change; every accepted SRB is completed;
- lifecycle: nothing is freed while a thread uses it; teardown ends; an old
  handle never acts on a new instance;
- CLI: an unknown outcome is never resolved by doing the mutation again; a
  failed add or delete leaves the system as it was or says what is left; no disk
  is missed or guessed; every call ends;
- build: what is shipped was built, signed and recorded together.

`PROJECT.json` lists every component, and under `hazards` the places in the code
where these can go wrong, with the properties that watch them.

## 2. Modules

| Module | Models | Role |
|---|---|---|
| `LunStore` | `storage/lun_store.*`, `lun_io_lease.*`, the pool allocation | component, and `StoreSpec`, the rule of use its private interface assumes |
| `MCLunStore` | | TLC instance of `StoreSpec` |
| `LunStoreProofs` | | inductive invariant and theorems of `StoreSpec`; its accounting, with lemmas about sums |
| `ManagementController` | `management/*`, `adapter_context.cpp`, the callbacks of `driver.cpp` | EXTENDS `LunStore` and composes it with the worker, the SRBs and teardown |
| `MCManagement` | | TLC instances of the controller |
| `ManagementProofs` | | inductive invariant and theorems of the controller, the refinements of `StoreSpec` and `OperationContract` |
| `OperationContract` | what `management/*` promises of a handle | abstract specification, implemented by `ManagementController`, used by `Recovery` |
| `Recovery` | `recovery.rs`, `create_disk` and `delete_by_id` of `adapter/mod.rs` | component over `OperationContract` |
| `MutationCall` | the result of one mutation as a caller sees it | abstract specification, implemented by `Recovery`, assumed by `AddDisk` and `RemoveDisk` |
| `RecoveryProofs` | | inductive invariant, safety theorems and the refinement of `MutationCall` |
| `AddDisk`, `RemoveDisk`, `DiskArrival`, `DriverInstall`, `WireProtocol`, `Logging`, `Arguments` | the CLI's parts | one component each |
| `AddDiskProofs`, `RemoveDiskProofs` | | inductive invariants and theorems of the first two |
| `Cli`, `MCCli` | | the seven side by side, and the TLC instance |
| `CliProofs` | | inductive invariants of the other five, theorems of all seven |
| `MCRemoveDisk` | | the instance of `RemoveDisk` behind a finding |
| `AdapterIdentity` | `adapter_context.cpp`, `Initialize` | component |
| `ReadWrite` | `scsi/read_write.cpp` | algorithm against a reference disk |
| `DriverParts`, `MCDriverParts` | | the last two side by side, and the TLC instance |
| `DriverPartsProofs` | | inductive invariants and theorems of both |
| `BuildPipeline`, `MCBuild` | `build-tool/`, `cli/build.rs`, `package-release.ps1` | component and TLC instance |
| `BuildPipelineProofs` | | inductive invariant and theorems |

### LunStore

`luns`, `TotalAllocatedBytes`, `NextDeviceId` and `AdapterStopping` are the
fields of `WISPDISK_ADAPTER_EXTENSION`.  `pool` and `memory` stand for StorPort's
non-paged pool: the length of each live block, and whose data it holds (`0` for
zeros).  A freed block keeps its contents and may be handed out again.  `io[i]`
is the `LunIoLease` of one SRB inside `HwStartIo`, with the `LunView` that was
copied at acquisition.  `call[t]` holds the locals of the two threads that can
mutate the table, `worker` and `teardown`; its `pc` names the next critical
section or unlocked call.

One action is one critical section of `LunLock` or one call outside it:

    CreateDisk            SelectAvailableLun -> AllocateBacking | AllocateFails
                          -> CommitNewLun | CommitFails
    DeleteDisk            MarkLunStopping | MarkUnknownDisk -> WaitForLunIo
                          -> DetachBackingStore -> FreeBacking -> FinalizeRemoval
    DrainAndReleaseDisks  MarkAllLunsStopping -> (FirstStoppingLun -> WaitForLunIo
                          -> DetachBackingStore -> FreeBacking -> FinalizeRemoval)*
    ExecuteScsi           AcquireLunIo -> WriteBacking* -> ReleaseLunIo

`SetStopping` may happen between any two of these: `AdapterStopping` is written
by an interlocked exchange without the lock.  Device and operation IDs are
unsigned counters taken modulo their width; the model makes the width small so
that the wrap to 0 is reached.

`StoreSpec` is the store used as its interface requires: one mutating call at a
time (`Exclusive`), and an initialisation only when no disk is left.  It is at
the same time the abstract specification that the controller has to keep to.

### ManagementController

`Operations` is the table of `WISPDISK_OPERATION_RECORD`s; `ManagementBusy` and
`ManagementIdle` are the admission flag and its event; `srb[c]` says who owns a
control SRB (the client, StartIo, the worker, StartIo again on its way back from a
queueing that failed) and what response it carries;
`worker` is the StorPort worker with `ProcessWorkItem`'s locals; `teardown` is
the progress of `HwFreeAdapterResources`.  `announced` and `effects` are
observers: the LUNs StorPort saw at the last bus change, and the number of
mutations done for each operation ID.

The request layouts are abstracted: a request enters as a `MutationCommand` that
has passed validation, a response is a record.  Sizes and media kinds are small
sets of numbers, since the code only compares, adds and copies them.  Requests
that change no state (query, list, a replay, a rejected submission) are
operators (`QueryOperation`, `SnapshotState`, `OnlineDisks`,
`SubmissionStatus`), not actions: their critical sections change nothing, and what
StartIo does after them is, as above, the completion of an SRB.

The release of `LunLock` after the worker's last critical section, and the
return of its callback, are actions of their own; so are, when queueing fails, the
release of the lock after the idle event was set and StartIo's completion of the SRB
(`QueueFails`, `SubmitReturns`, `CompleteFailedSubmission`).  While somebody is
`"unlocking"` no other locked step is possible.  This is what lets the model ask whether
teardown may free the extension under the worker or under StartIo.  It may pass
`WaitForIdle`, drain and finish before that StartIo has handed its SRB back
(`"completing"`): what is left of StartIo then is `StorPortNotification(RequestComplete)`,
which takes the address of the extension and none of its fields, since the SRB's status
is set in the SRB.  The address is StorPort's; that it stays valid while StorPort waits for one of its own
SRBs is external.

External behaviour is taken from how the driver uses it: the pool returns any
free address or none; queueing a work item may fail; the worker takes one item
at a time; `StorPortFreeWorker` answers busy until the callback has returned, and
then succeeds (for any other answer the code logs an error and drops the worker, as after
success, so that a callback might outlive the extension; the model has it that a worker
which was initialised is freed); an initialisation may fail because StorPort gives no worker;
`BusChangeDetected` makes StorPort ask for the LUNs; stop and restart
(`HwAdapterControl`) do not come once `HwFreeAdapterResources` has been called.
The last one matters: `SetStopping(false)` looks only at the signature, so a
restart during teardown would reopen the admission that `CloseAdmission` closed.

### OperationContract, Recovery and MutationCall

These three carry one question through the layers: when `wispdisk` says that a
disk was created or deleted, or was not, is that so?

`OperationContract` says what a client can see of a handle: Reserved, Pending, an
outcome, Deleted, Expired; at most one effect, only while Pending; no eviction of
pending work or of a create whose disk exists; a new instance forgets them all.
`ManagementController` implements it (`ImplementsContract`), with the answer of
`QueryOperation` for the handle and the observer `effects` for its effect.

`Recovery` composes the contract's actions with `resolve_operation`: reserve,
send, query after an ambiguous error, resubmit only what the driver says is still
Reserved, wait, give up at the deadline.  The transport loses requests and
responses, and a request may be carried out after its sender stopped waiting.
Other clients reserve, evict and delete, and the adapter may be replaced.  The
deadline is a bound on the number of waits.

`MutationCall` is what the callers of `Recovery` need: a call returns done, failed
(then the mutation does not stand and never will) or unresolved (then it may still
happen).  `Recovery` implements it (`TellsTheTruth`).

### AddDisk and RemoveDisk

`AddDisk` follows `add_disk` step by step (`pc` names the next call) up to the exit
code.  The nested `anyhow` errors are kept as far as the downcasts of
`is_unresolved` can see them.  `RemoveDisk` follows `delete_disk`,
`delete_by_identity` and `delete_allocation` with `DiskDeletion` and `Volume`:
locks, dismounts and mount points volume by volume, and the restoration.  Every
look-up and call may fail.  Beside both run applications that open files, other
clients of the driver, the mount manager and plug and play.  A WMI call is a step
that succeeds with its effect, or fails with it, with a part of it or without.  Letters
are moved by others in every direction, also away from the new disk and back
(`LetterChanges`); the observer `strayed` remembers that one was.

### DiskArrival, DriverInstall, WireProtocol, Logging, Arguments

`DiskArrival` is the thread of `wait_for_physical_disk`, the callbacks of the
configuration manager, and Windows; dropping the subscription is three steps
(unregister, the end of running callbacks, closing the event), in the order in
which Rust drops a struct and then its fields.  `DriverInstall` runs several
installers over one directory, one driver store and one device tree;
`GetLastError` is a variable of each thread, because the order in which it is read
and overwritten is what the code takes care of.  `WireProtocol` keeps the message
sizes, headers (signature and length of the control block, magic, version, correlation)
and statuses of both ends and leaves the bodies out, except for what makes a client refuse
a driver: its protocol version and its limits.  `Logging` has
the main, consumer and writer threads.  `Arguments` types a command line of up to
five arguments, with at most two values for a name, and interprets it (a switch that is
given twice is the same argument, so its repetition is left out); sizes are scaled, and include each limit, its
neighbour, and a product that wraps a word.

### AdapterIdentity and ReadWrite

`AdapterIdentity` splits `Initialize` at each access to the clock and to
`lastInstance`.  The variable is zero again when the driver is loaded again;
`ClockLaterAfterReload` is the assumption that the clock then shows a time after
the identities of the earlier load.  `ReadWrite` does the arithmetic of
`HandleReadWrite` on words of a scaled width, for every address and count that the
CDB fields can hold, next to a reference disk that is written in whole blocks.

### BuildPipeline

A file is what a property can tell of it: the source version, target, package and
signer that went into it.  `build` is a sequence of steps that may stop anywhere;
edits, plain cargo builds and packaging come in between.  The packager's checks
(`CheckInputs`, which also removes the old ZIP) and its copying of the files
(`CreateArchive`) are two steps, between which the sources may change.  Builds and packagings
themselves follow each other: nothing in the tool keeps two that overlap apart, and they
would share every file.  The Debug configuration has directories of its own and is the
same pipeline; the symbol files go the way of the
files they belong to; both are left out.

### The instances

`Cli` and `DriverParts` put several modules side by side, for one run and one module of
theorems.  Those modules share no variable, and each models what the others are to it
(`AddDisk` the outcomes of `MutationCall`, of the search and of the installation).  So
one behaviour moves one part, which `Init` picks, and the state space is the sum of the
parts' and not their product.  The modules' assumptions on their constants are operators
that the composition `ASSUME`s; `MCCli` and `MCDriverParts` give the constants values.

### Wrong forms

Some definitions follow a wrong form of themselves (`OverQuotaOffByOne` before
`OverQuota`).  No action uses those.  `PROJECT.json` lists under `mutants` which
property fails when a definition is replaced by its wrong form: each property is
shown to be sensitive to a mistake the code could contain.

## 3. Runs

Lengths are distinct states and seconds with two TLC workers.

| Run | Instance | Checks | Size |
|---|---|---|---|
| `store` | 2 LUNs, 3 blocks, sizes 1 and 2 under a cap of 3, device IDs modulo 4, 2 I/O threads | `StoreTypeOK`, `LeaseSafety`, `LeaseCount`, `PoolOwnership`, `DataIsolation`, `DeviceIdsUnique`, `QuotaRespected` | 301,050; 22 s |
| `operations` | 1 LUN, 3 records, IDs modulo 5, 2 media kinds, 1 SRB, 2 adapter instances | `TypeOK`, `OperationLunConsistency`, `DeletedMeansGone`, `ReservationAlwaysPossible`, `ImplementsContract` | 1.11 M; 120 s |
| `faults` | injected transport and rejection faults, legacy and reserved requests | `AnnouncedWhenIdle`, `ReplyMatchesOutcome` | 1.99 M; 92 s |
| `teardown` | 2 LUNs, 2 SRBs, 1 I/O thread, 2 adapter instances | `FinalAccess`, `HandlesStayWithInstance`, `StoreSpec` | 894 k; 69 s |
| `progress` | 1 of everything, fairness | `BusyClears`, `AcceptedCompletes`, `TeardownFinishes` | 22 k; 11 s |
| `recovery` | 3 handles, 2 waits, 2 adapter instances, fairness | `DeleteIsSafe`, `NothingLeftBehind`, `TellsTheTruth`, `Resolves` | 1.67 M; 113 s |
| `cli` | add with 2 retries; delete with volumes of 2 and 1 mount points; 3 interfaces, 2 at the location; 3 installers; 3 ports; 4 log lines for a buffer of 2; lines of 5 arguments, 2 values for a name | `AddIsHonest`, `SuccessIsUsable`, `DeleteIsCareful`, `DeleteOrder`, `SearchIsSound`, `InstallCleansUp`, `ExchangeIsSound`, `LogIsAccountable`, `LineIsUnderstood`, `CallsEnd` | 715 k; 143 s |
| `driver_parts` | 3 adapters, 3 clock values, 3 identities; 5 blocks of 2 bytes, words of 11 and 22 values | `NeverReissued`, `InitializeEnds`, `MemoryIsADisk`, `ServedIffLegal` | 443 k; 58 s |
| `build` | 2 targets, 2 certificates, 2 source versions, 3 jobs | `BuildIsCoherent`, `ReleaseIsOneBuild` | 4.6 M; 177 s |
| `replay_while_busy` | small | `ReplayReturnsState` (violated, see below) | short |
| `lun_reuse` | one volume with one mount point | `OnlyNamedDiskTouched` (violated, see below) | short |
| `letter_moves` | no retry | `FormatsOnlyOwnVolume` (violated, see below) | short |

Why the bounds are enough.  Two LUNs let one disk be created while another is
deleted or leased, and make "first free" and "shared block" meaningful; three
blocks leave one to reuse.  Two sizes under a cap of 3 reach both a full quota
and a full table.  Four device IDs are used up within a run, and so are the
operation IDs.  With three records and one LUN the table is full with one live
create, one other record and one to evict, which is the boundary of
`ReservationAlwaysPossible` (the code has 128 records for 16 LUNs; that
property's hypothesis says how many it needs).  Two SRBs race for admission, and one is
admitted while StartIo still has the other, which could not be queued, in `teardown`; `operations` has the largest table and one SRB.  Two
adapter instances make an old handle meet an ID that the new adapter has issued
too.  Symmetry is used on blocks, I/O threads and SRBs in the safety runs only.

Three handles let a CLI's own handle be evicted by, or confused with, two others;
two waits separate the first retry, a later one and the deadline.  Two volumes, one
with two mount points, have a failure before, inside and after the removal of a
volume's mounts, and a second volume that has not been reached.  Two interfaces at the
location make an ambiguity, and the third is skipped.  Three installers let one find
the device of a second while a third rolls back.  Four lines overfill a buffer of two.
Five arguments are what an add with a file system takes.  Three jobs are a build that
stops, one of the other target, and a packaging.

`CHECK_DEADLOCK FALSE` is set where an adapter that has been removed, and is not
initialised again within the bound `MaxAdapterInstance`, may stop, where a process of
the CLI has exited, and where a bound on jobs or identities is used up.

What the runs show:

- `store`: whatever the order of create, delete, drain, stop, initialisation and
  I/O, a leased block is never freed or recycled, no block leaks when a create
  fails after its allocation, a reused block shows zeros, IDs end instead of
  repeating, and the quota holds although the commit does not check it again.
- `operations`: the operation table and the LUN table agree at every release of
  the lock; eviction always finds a record; and the controller implements
  `OperationContract`, so a handle causes at most one mutation, what it reports only
  moves forward, and a new instance comes only when nothing is pending.
- `faults`: a spoiled response loses neither the bus change nor the outcome.
- `teardown`: when the drain starts the worker has made its last access to the
  extension, and so has a StartIo that could not queue its SRB.  As `PROPERTY StoreSpec` this run also checks that the controller
  implements the store's rule of use, so the theorems about `StoreSpec` apply to
  the store inside the controller.
- `progress`: under the fairness below admission reopens, SRBs complete and
  teardown ends.
- `recovery`: whatever the transport loses, a result of Ok or of a plain error is the
  truth and stays it, no ID of one instance is used in another, nothing is being
  worked on when a handle is given up as failed, and the polling ends.
- `cli`: an add that fails at any step leaves nothing behind unmentioned, and exit
  code 3 means exactly that an outcome is unknown, also inside a failed rollback
  (`AddIsHonest`); when a success is reported the letter leads to the new disk, and its
  volume was formatted unless the letter was away in between (`SuccessIsUsable`; what
  happens then is a finding); a
  refused delete puts every mount point back, under the lock, and loses no files
  without `/force` (`DeleteIsCareful`); the disk that was named is deleted, at once or
  late, only dismounted and without mount points, and nothing is undone when the delete
  may still come (`DeleteOrder`; a newcomer at its LUN is the subject of a finding); the search misses no arrival, sets no closed event and never
  guesses; concurrent installers remove only their own device and report the error
  that mattered; an echoed request is no answer; no log line is lost without a word
  and no callback outlives its state; a command line means what was typed and is
  within the driver's limits; and all of these end (`CallsEnd`).
- `driver_parts`: identities are fresh although the clock stands still or goes back
  while the driver is loaded; the range check cannot be passed by a sum that wraps.
- `build`: whatever was interrupted or cached before, a successful build and a release
  are of one piece.

### Fairness

`FairSpec` assumes weak fairness for each thread that is inside the driver: the
StartIo call that is queueing an SRB, the worker (all its steps together, as it
is one thread), an I/O thread's release of its lease (a SCSI command is a bounded
copy), and teardown.  A step that needs the lock is fair only through
`LunLockFree`; the lock is held for a bounded time, so weak fairness suffices.
Nothing is assumed of clients, of stop and restart, or of new I/O, which may go on
for ever: a delete is not starved since a Stopping LUN takes no new lease.

`Recovery` assumes fairness of the client, of each call (`DeviceIoControl` returns,
with an answer or with an error) and of the driver's worker, which `progress` shows;
nothing of other clients, which may keep the adapter busy for ever.  In `AddDisk`
every wait has a deadline, so the process keeps moving.  In `DiskArrival` the thread
runs and callbacks that have started finish; arrivals, the passing of the deadline and
failing calls are not assumed.  In `Logging` the three threads run; that the writer
keeps up is an assumption about stdout.  In `AdapterIdentity` a processor inside
`Initialize` goes on.

### Findings

`docs/architecture.md:261-262` says that replaying an accepted handle returns its
state and result.  `PrepareSubmission` asks `BeginManagementLocked` first, and a
Pending record implies a busy adapter, so the replay of a handle that is still
Pending is answered `STATUS_DEVICE_BUSY` without its state.  Nothing is mutated
twice (`ImplementsContract`), and `QueryOperation` gives the state; run
`replay_while_busy` shows the trace.

`README.md:83-84` says that a delete by ID locks and dismounts the volumes on that
disk.  `delete_allocation` checks the ID in the driver's inventory and then finds the
Windows disk by its SCSI location alone (`disk/removal.rs:110`).  When another client
has meanwhile deleted the disk and created one at the same LUN, the volumes of the
other disk are locked, dismounted and unmounted.  By ID the driver then refuses the
stale ID, and the restoration puts the mount points back; by letter the LUN is matched
in the inventory after the letter was resolved, so the other disk itself can be
deleted.  Run `lun_reuse` shows it.

`docs/architecture.md:20-21` says that drive letters must not be treated as disk
identity.  `wait_for_volume` (`disk/provisioning.rs:403`) finds the volume to format
by its letter; the check between it and the format looks at the disk's location and
not at the volume.  If the letter passes to another volume in between, that volume is
formatted.  Run `letter_moves` shows it.  When the letter comes back before
`verify_mounted_drive`, the check succeeds and `add` reports a success although the new
disk's own volume was never formatted; this is why `SuccessIsUsable` speaks of the
formatting only for a letter that has not been away.

One assumption deserves a reader's attention.  `README.md:93` says that instances
change on reinstallation and that stale identities are rejected.  `lastInstance` starts
from zero when the driver is loaded again, so this rests on the clock showing a later
time than the identities of the earlier load (`ClockLaterAfterReload`).  With
`ClockLaterAfterReload = FALSE` TLC finds a behaviour of `AdapterIdentity` in which an
identity is handed out again.

## 4. Proofs

### The store

`LunStoreProofs` proves, for every number of LUNs, blocks, sizes and I/O threads
and every counter width:

| Theorem | States |
|---|---|
| `StoreTypeCorrect` | `StoreSpec => []StoreTypeOK` |
| `StoreInvariant` | `StoreSpec => []StoreInv`, the inductive invariant |
| `LeasesAreSafe` | `StoreSpec => []LeaseSafety` |
| `LeasesAreCounted` | `StoreSpec => []LeaseCount` |
| `MemoryIsOwnedOnce` | `StoreSpec => []PoolOwnership` |
| `DisksAreIsolated` | `StoreSpec => []DataIsolation` |
| `DeviceIdsAreUnique` | `StoreSpec => []DeviceIdsUnique` |
| `QuotaIsRespected` | `StoreSpec => []QuotaRespected` |

Assumptions: at least one LUN; sizes are positive and at most the cap; the
moduli are above 1; `nullptr` is not a block; the sets of blocks and of I/O threads are
finite.

The argument.  None of the safety properties is inductive alone.  `LeaseSafety`
needs to know that `DetachBackingStore` runs on a drained LUN, which is what a
thread past `WaitForLunIo` knows; that stays true because the LUN is Stopping and
takes no new lease; and the counter has to be exact for the wait to mean
anything (`LeaseCount`).  `PoolOwnership` needs that a commit finds its slot
still Empty and owning nothing.  So `StoreInv` adds to the properties:

- `SingleCall`: at most one thread is inside a mutating call;
- `CallsKnow`: what that thread knows at each `pc` (it holds a fresh block of the
  right length at `commit`; its LUN is Stopping from `wait` on, without leases
  from `detach` on, without a block from `free` on);
- `EmptyOwnsNothing`: a LUN without a disk owns no block.

The proof has one lemma per kind of step.  `OneMoves` says that with a single call
only the moving thread's knowledge has to be shown again, `SameDisksKept` that a
step which leaves LUNs and memory alone keeps the properties about them,
`LeaseCountKept` that a step which leaves leases and counters alone keeps
`LeaseCount`.  `StoreInv` was model-checked on the `store` instance before it was
proved.

The quota compares two sums, over the LUN table and over the pool, and a sum is a fold.
No induction rule can be instantiated, so what is needed of it (one value changes, the
sum changes by as much; a value is at most the sum) is proved by the least
counterexample over the cardinality of the set: that a set of numbers has a least
member is a fact the provers use.  `Accounting` is inductive beside `StoreInv`:

- `Books`: the counter is the sum of the sizes in the LUN table, and the pool holds as
  much, but for the call in progress, which has memory that is not counted yet before
  `CommitNewLun` and counts memory that is already free before `FinalizeRemoval`;
- `Room`: the request that `SelectAvailableLun` found to fit still fits when
  `CommitNewLun` adds it, although the lock was released for the allocation;
- `Counted`: a LUN counts exactly while it has a disk, with the size of its block, and
  the block is missing only while a call is between detaching and finalizing it.

### The controller

`ManagementProofs` proves, for every number of slots, SRBs, LUNs and blocks, every
width of the counters, every number of adapter instances and every fault:

| Theorem | States |
|---|---|
| `ManagementTypeCorrect` | `Spec => []TypeOK` |
| `ManagementInvariant` | `Spec => []ManagementInv`, the inductive invariant |
| `StoreIsUsedAsRequired` | `Spec => StoreSpec` |
| `DriverKeepsDisksSafe` | `Spec => []` of the store's six safety properties: its theorems hold of the driver |
| `TableAndDisksAgree` | `Spec => []OperationLunConsistency` |
| `RemovedDisksStayGone` | `Spec => []DeletedMeansGone` |
| `BusPictureIsCurrent` | `Spec => []AnnouncedWhenIdle` |
| `RepliesAreTrue` | `Spec => []ReplyMatchesOutcome` |
| `TeardownComesLast` | `Spec => []FinalAccess` |
| `HandlesNeverCrossInstances` | `Spec => []HandlesStayWithInstance` |
| `ReservationsFindARecord` | `Spec => []ReservationAlwaysPossible` |
| `ControllerMeetsContract` | `Spec => ImplementsContract` |

Assumptions beyond the store's: at least one slot and one adapter instance, a fault
count that is a natural number, and `NoSrb` is not an SRB.  That the table has two slots more
than there are LUNs, which the driver's constants satisfy, is a hypothesis of
`ReservationAlwaysPossible` and of nothing else.

The argument.  Everything rests on the busy protocol, which no single line of the code
states: from admission to the worker's last critical section exactly one SRB is in the
driver's hands, the busy flag is set for as long, and teardown drains only afterwards.
`Ownership`, `TeardownOrder` and `Drain` say it; together they give the exclusiveness
that `StoreSpec` asks for.  `SubmitLock` adds that a StartIo whose queueing failed has
released the lock before teardown drains.  `Commands` and `WorkerCall` tie the call in progress to the
command that was admitted and say what a call that returned SUCCESS has left.  `Table`
(an ID is in one slot at most and was issued), `PendingRecords` (a record is Pending
exactly while its command is between admission and publication) and `Effects` (what has
been done for an ID, as its state tells) tie the operation table to them.
`OperationLunConsistency` is needed as it stands.  `Deletions` strengthens
`DeletedMeansGone` with the counter that keeps a removed ID from coming back; `Reply`
holds the response between publication and completion, where the record may already be
changed by others or evicted; `Announcement` says at which steps StorPort may be behind.

A step is taken apart once, by what it does to the disks and to the work in progress
(`StepKinds`): about half of the actions are of a quiet kind that leaves both alone.
Each part of the invariant then has a lemma with one case for each kind that can disturb
it.

The two refinements.  `StoreSpec`: the steps that enter and leave a call are
`StoreSpec`'s because of `Exclusive`; the others are the store's own or leave it alone.
`OperationContract`: the contract sees of a handle only the answer of `QueryOperation`
(`HandleOf`), and `HandleRecords` says that this is the record in the one slot that
holds the ID, else Expired or Unissued by the counter.  Reservation, admission,
effect, publication, eviction and the mark Deleted map to the contract's actions, every
other step to a stutter.  `ReservationsFindARecord` is a counting argument: the records
that may not be evicted are the Pending one and the creates of existing disks, and by
`OperationLunConsistency` two of those never share a LUN, so two slots
more than LUNs always leave one free (the pigeonhole principle of the library).

### Recovery

`RecoveryProofs` proves, for every set of handles, number of retries and number of
adapter instances:

| Theorem | States |
|---|---|
| `RecoveryTypeCorrect` | `Spec => []TypeOK` |
| `DeletesAreSafe` | `Spec => []DeleteIsSafe` |
| `NothingIsLeftBehind` | `Spec => []NothingLeftBehind` |
| `CallsTellTheTruth` | `Spec => TellsTheTruth`, that is, `Recovery` implements `MutationCall` |

Assumptions: the bounds are natural numbers and `NoHandle` is not a handle.  The
invariant `Inv` has five parts: `TypeOK`; `ContractInv`, what the driver keeps for
every handle (a state that denies the mutation goes with no effect, one that claims it
with exactly one); `HandleInv`, that what the driver holds under the call's own handle,
as long as the adapter instance is the one it was reserved from, is the call's own
mutation and agrees with what happened to it; `CallInv`, what `resolve_operation` may
conclude from its `pc` and from the reply on its way (a reply may be old, so it bounds
what the state can be by now and does not equal it); and `DeleteInv`, that a delete
goes on only in the instance its device ID was read from, and reports success only when
the disk is gone.  The refinement needs all of them: that a plain failure is final
follows from what the last reply bounds, and that only from what `ContractInv` and
`HandleInv` keep.  There is a lemma for each action,
and `MutationCall`'s step or stutter follows from them.

### The CLI's parts

`CliProofs` proves, each for the specification `Spec` of `Cli`, in which any one of the
parts moves:

| Theorem | States | For every |
|---|---|---|
| `AddsOfTheCliAreHonest` | `[]AddIsHonest` | number of retries of the rollback |
| `SuccessesOfTheCliAreUsable` | `SuccessIsUsable` | the same |
| `DeletesOfTheCliAreCareful` | `[]DeleteIsCareful` | number of volumes and of mount points of each |
| `DeletesOfTheCliAreOrdered` | `DeleteOrder` | the same |
| `SearchesAreSound` | `[]SearchIsSound` | set of interfaces, numbering, and number of callbacks |
| `InstallationsCleanUp` | `[]InstallCleansUp` | set of processes |
| `ExchangesAreSound` | `[]ExchangeIsSound` | number of ports and of requests |
| `LogsAreAccountable` | `[]LogIsAccountable` | number of events and length of the line buffer |
| `LinesAreUnderstood` | `[]LineIsUnderstood` | set of sizes, limits in the order the code has them, and length of a line |

Each assumes what its component's `...Assumption` operator says of the constants
(`Parameters` in `Cli`): that they are numbers, that locations are those of interfaces,
that the limits on sizes are ordered as in `args.rs` and in the driver.  Each has an
inductive invariant that was model-checked first.  Those of adding and deleting are in
`AddDiskProofs` and `RemoveDiskProofs` (`AddInvariant`, `RemoveInvariant`), with the
theorems about the components themselves; `Cli` instantiates those modules, and
`AddMoves`, `RemoveMoves` and the like say that a step of `Cli` is a step or a stutter of
each part.

Deleting.  The instance that TLC checks has three mount points; the argument that the
restoration is complete is about indices, so it needs the general case.  `Inv` says that
a mount point that is missing is one `removed_mount_points` remembers and, during the
restoration, is still ahead of the volume and the index it has come to, or an error is
recorded (`MissingIsRemembered`); conversely what was removed is missing until then
(`RemovedIsMissing`); a lock that was obtained is held until its volume's turn
(`Locks`), and keeps applications out, so that without `/force` all volumes locked means
no file open (`Phase`); and an unresolved delete leads to the end and nowhere else
(`Unfinished`).  `DeletesOnlyQuiet` speaks of the disk that was named, while the volumes
are those of the disk that was opened: `OwnDisk` says that
while the named disk is online nobody has taken its place, so that the allocation and the
volumes of this call are its own, and `LateIsQuiet` that a delete which may still come
finds the disk as the preparation left it.

Adding.  That the exit code is truthful needs `Running` (nothing is unknown and no error
is kept before the end) and what `RecoveryFailed` does to nested errors; that nothing
leaks needs `NothingCreated`.  `SuccessIsUsable` needs to follow the
letter: `LetterKept` says that from the look-up of the volume on, either the letter has
been moved by others or it still leads to the new disk and the volume that was looked up
is that disk's; `VolumeFormatted`, that the volume that was looked up has been formatted
once the letter is checked again.

Searching (`ArrivalInv`).  `Subscription` ties the registration, the event and the
callbacks to the progress of the thread, `NoticedSince` extends `NoLostArrival` to the
enumeration, and `OneNumber` says that the enumeration has the number of every disk at
the location that stayed, and only one.

Installing (`InstallInv`).  The property about a device that was removed by somebody is
kept because only the process that registered a device reaches the removal, and only
after its own binding failed.

The protocol (`WireInv`).  That an answer was meant as it is understood follows from the
sizes and the headers of both ends, for each operation and status; that the request which
is kept for a second submission was sent is what the steps have to preserve.

Logging (`LogInv`).  The account of the lines holds at every step; what makes it close is
the order of the shutdown: the session is stopped behind the events, the consumer has
drained them before it exits, the callback state goes after the consumer, and each call
that fails on the way sets the warning.

Arguments (`ArgsInv`).  The outcome is the interpretation of the line that was run; the
rest are lemmas about the interpretation (what `ByteSize`, the groups and `into_command`
accept), of which the deepest is that both spellings of a line mean the same.

### The driver's parts

`DriverPartsProofs` proves `IdentityTypeCorrect` (`Spec => []TypeOK`) and
`IdentitiesAreFresh` (`ASSUME ClockLaterAfterReload PROVE Spec => NeverReissued`), for
any number of adapters and any clock.  `IdentityInv` adds to `TypeOK` that
`lastInstance` is at least every identity of this load, and that every identity of an
earlier load is below the clock and below the time that any `Initialize` past its time
query has read.

It also proves `DisksReadBack` (`PartsSpec => []MemoryIsADisk`) and
`LegalRequestsAreServed` (`PartsSpec => []ServedIffLegal`) for every size of disk and
sector and every width of fields and words, provided that the disk's size in bytes fits
the larger word and the transfer limit the smaller one, as they do in the driver.
`ScsiInv` says that each byte holds what its block was last written and that the reply is
the one computed for the request.  Two lemmas carry the argument: `StatusMeans`, that the
tests on words that wrap decide what plain arithmetic says, since the range check comes
before the products and forms no sum; and `CopyIsNamed`, that the bytes copied are those
of the blocks named, which is a fact about division (`BlockOfByte`).

### The build

`BuildPipelineProofs` proves `BuildsAreCoherent` (`Spec => []BuildIsCoherent`) and
`ReleasesAreOfOneBuild` (`Spec => []ReleaseIsOneBuild`) for any set of certificates and
any number of jobs and versions.  `BuildInv`, which was model-checked on the `build`
instance first, has four parts: `Kinds`; `Progress`, what a build has established by each
step, while everything it has not yet reached is as earlier jobs left it; `Records`, that
every manifest and archive is of one build, whatever became of the files it describes;
and `Packaging`, what the packager has checked and done.  The executable that is copied to `bin/` may
embed an older package, or none: only the last check before the manifest
(`confirm_package_embedded`) excludes it, and the proof uses it there and nowhere else.
That the archives of a release share their certificate needs that the certificate file
changes in no step between two archives.

### Only model-checked

Liveness (`progress`, `Resolves`, `CallsEnd`, `InitializeEnds`), since fairness and ENABLED
are out of the prover's reach, and the runs behind the findings, which show violations.

## 5. What is left, in order

1. The trace ring of a Debug build.
2. The effect of the CLI's calls on the driver end to end: `Recovery` over
   `OperationContract` and `OperationContract` under `ManagementController` are proved
   separately; one statement about both would name the disk.

Not modelled, and why: the inventory (it formats what the driver lists and keeps
nothing); COM set-up and the marshalling of WMI properties, Win32 wrappers, path
handling and buffers that grow (their behaviour is that of Windows, and the flows
model the success and the failure of each call); the embedded payload (constant
bytes); INQUIRY, READ CAPACITY, MODE SENSE and REPORT LUNS (constant layouts, no
state); the reserved fields of request bodies; the port configuration of FindAdapter;
the search for SDKs and tools and the bytes of the PE parser in the build tool;
`create-release.ps1` (git and GitHub calls).
