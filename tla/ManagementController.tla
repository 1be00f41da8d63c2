-------------------------- MODULE ManagementController --------------------------
(***************************************************************************)
(* The management controller of one adapter (driver/src/management and     *)
(* adapter_context.cpp): the table of reserved operations, the busy flag   *)
(* that admits one mutation at a time, the hand-over of an SRB to the      *)
(* StorPort worker, the worker itself, stop/restart and teardown.          *)
(*                                                                         *)
(* QueryOperation, ListState, ListDisks and every rejected or replayed     *)
(* submission change no state: they are the operators QueryOperation,      *)
(* SnapshotState, OnlineDisks and SubmissionStatus, not actions.           *)
(*                                                                         *)
(* As in LunStore, a definition may follow a wrong form of itself, named   *)
(* for the mistake and used by no action.                                  *)
(***************************************************************************)
EXTENDS LunStore

CONSTANTS
  MaximumOperationCount,  \* kMaximumOperationCount (128)
  Srbs,                   \* control SRBs StorPort can have outstanding
  NoSrb,
  FaultModes,             \* modes a Debug client may arm; {} in a Release build
  MaximumFaultCount,      \* kMaximumFaultCount (1000)
  LegacyRequests,         \* TRUE when CreateDisk and DeleteDisk are sent too
  MaxAdapterInstance      \* bound of the model: adapter creations

ASSUME OperationCountAssumption == MaximumOperationCount \in Nat \ {0}
ASSUME SrbsAssumption == NoSrb \notin Srbs
ASSUME FaultAssumption ==
  /\ FaultModes \subseteq
       {"Disabled", "TraceOnly", "FailResponseTransport", "RejectOperation",
        "DelayWorker"}
  /\ MaximumFaultCount \in Nat
ASSUME LegacyAssumption == LegacyRequests \in BOOLEAN
ASSUME InstanceAssumption == MaxAdapterInstance \in Nat \ {0}

VARIABLES
  AdapterInstance,
  Operations,
  NextOperationId,
  ManagementBusy,
  ManagementIdle,    \* ManagementIdleEvent
  srb,               \* who owns each control SRB, and its response
  worker,            \* the StorPort worker and ProcessWorkItem's locals
  teardown,          \* HwFreeAdapterResources
  fault,             \* FaultMode and FaultRemaining of a Debug build
  announced,         \* observer: the LUNs StorPort found at the last BusChange
  effects            \* observer: mutations done for each operation ID

managementVars == <<AdapterInstance, Operations, NextOperationId, ManagementBusy,
                    ManagementIdle, srb, worker, teardown, fault, announced,
                    effects>>
vars == <<storeVars, managementVars>>

-----------------------------------------------------------------------------
(***************************************************************************)
(* Types.                                                                  *)
(***************************************************************************)
Slots == 1..MaximumOperationCount
Instances == 1..MaxAdapterInstance
Mutations == {"Create", "Delete"}
OperationState == {"Reserved", "Pending", "Succeeded", "Failed", "Deleted"}

Record == [Id : OperationIds, Mutation : Mutations \cup {"None"},
           State : OperationState \cup {"None"}, Result : Status,
           DeviceId : DeviceIds, Lun : Luns, Create : CreateOrNone,
           Delete : DeviceIds]
NoRecord == [Id |-> 0, Mutation |-> "None", State |-> "None",
             Result |-> "SUCCESS", DeviceId |-> 0, Lun |-> 0,
             Create |-> NoCreate, Delete |-> 0]

\* OperationResult; a legacy response carries only the device and its LUN.
Result == [operationId : OperationIds, state : OperationState \cup {"None"},
           status : Status, deviceId : DeviceIds, lun : Luns]
NoResult == [operationId |-> 0, state |-> "None", status |-> "PENDING",
             deviceId |-> 0, lun |-> 0]

\* MutationCommand after HandleCreateControl or one of its three siblings has
\* validated the request.
ReservedCreates == [reserved : {TRUE}, mutation : {"Create"}, instance : Instances,
                    operation : OperationIds, create : CreateRequest, delete : {0}]
ReservedDeletes == [reserved : {TRUE}, mutation : {"Delete"}, instance : Instances,
                    operation : OperationIds, create : {NoCreate},
                    delete : DeviceIds \ {0}]
LegacyCreates == [reserved : {FALSE}, mutation : {"Create"}, instance : {1},
                  operation : {0}, create : CreateRequest, delete : {0}]
LegacyDeletes == [reserved : {FALSE}, mutation : {"Delete"}, instance : {1},
                  operation : {0}, create : {NoCreate}, delete : DeviceIds \ {0}]
MutationCommand ==
  ReservedCreates \cup ReservedDeletes \cup
  (IF LegacyRequests THEN LegacyCreates \cup LegacyDeletes ELSE {})
NoCommand == [reserved |-> FALSE, mutation |-> "None", instance |-> 1,
              operation |-> 0, create |-> NoCreate, delete |-> 0]

\* "unlocking" and "completing": StartIo's way back from a failed queueing.
Srb == [owner : {"client", "startIo", "worker", "unlocking", "completing"},
        command : MutationCommand \cup {NoCommand},
        ReturnCode : Status, SrbStatus : {"SUCCESS", "PENDING", "ERROR"},
        result : Result]
NoSubmission == [owner |-> "client", command |-> NoCommand,
                 ReturnCode |-> "SUCCESS", SrbStatus |-> "SUCCESS",
                 result |-> NoResult]

WorkerPc == {"none", "queued", "started", "running", "complete", "notify", "end",
             "unlocking", "unwinding"}
Worker == [pc : WorkerPc, item : Srbs \cup {NoSrb},
           fault : FaultModes \cup {"Disabled"}, snapshot : Record,
           busChanged : BOOLEAN]
NoWork == [pc |-> "none", item |-> NoSrb, fault |-> "Disabled",
           snapshot |-> NoRecord, busChanged |-> FALSE]

TeardownPc == {"up", "waitIdle", "waitLock", "drain", "freeWorker", "released"}

TypeOK ==
  /\ StoreTypeOK
  /\ AdapterInstance \in Instances
  /\ Operations \in [Slots -> Record]
  /\ NextOperationId \in OperationIds
  /\ ManagementBusy \in BOOLEAN
  /\ ManagementIdle \in BOOLEAN
  /\ srb \in [Srbs -> Srb]
  /\ worker \in Worker
  /\ teardown \in TeardownPc
  /\ fault \in [mode : FaultModes \cup {"Disabled"}, remaining : 0..MaximumFaultCount]
  /\ announced \in SUBSET (Luns \X DeviceIds)
  /\ effects \in [OperationIds -> Nat]

-----------------------------------------------------------------------------
(***************************************************************************)
(* Initialize.                                                             *)
(***************************************************************************)
NoFault == [mode |-> "Disabled", remaining |-> 0]

Init ==
  /\ StoreInit
  /\ AdapterInstance = 1
  /\ Operations = [s \in Slots |-> NoRecord]
  /\ NextOperationId = 1
  /\ ManagementBusy = FALSE
  /\ ManagementIdle = TRUE
  /\ srb = [c \in Srbs |-> NoSubmission]
  /\ worker = NoWork
  /\ teardown = "up"
  /\ fault = NoFault
  /\ announced = {}
  /\ effects = [id \in OperationIds |-> 0]

\* HwFindAdapter after a teardown: a zeroed extension under a new instance, which
\* stays without a signature, as torn down, if StorPort gives it no worker.
Initialize ==
  /\ teardown = "released"
  /\ AdapterInstance < MaxAdapterInstance
  /\ InitializeStore
  /\ AdapterInstance' = AdapterInstance + 1
  /\ Operations' = [s \in Slots |-> NoRecord]
  /\ NextOperationId' = 1
  /\ ManagementBusy' = FALSE
  /\ ManagementIdle' = TRUE
  /\ teardown' \in {"up", "released"}
  /\ fault' = NoFault
  /\ announced' = {}
  /\ effects' = [id \in OperationIds |-> 0]
  /\ UNCHANGED <<srb, worker>>

\* Stop and restart come through HwAdapterControl, at any time before removal:
\* StorPort makes no such call once it has called HwFreeAdapterResources.
HwAdapterControl(stopping) ==
  /\ teardown = "up"
  /\ SetStopping(stopping)
  /\ UNCHANGED managementVars

-----------------------------------------------------------------------------
(***************************************************************************)
(* The operation table.                                                    *)
(***************************************************************************)
SlotsOf(id) == {s \in Slots : id # 0 /\ Operations[s].Id = id}
FindOperation(id) == First(SlotsOf(id))

CopyResult(record) ==
  [operationId |-> record.Id, state |-> record.State, status |-> record.Result,
   deviceId |-> record.DeviceId, lun |-> record.Lun]

\* A handle names a record only together with the adapter instance.
KnownInAnyInstance(instance, id) == SlotsOf(id) # {}
Known(instance, id) == instance = AdapterInstance /\ SlotsOf(id) # {}

\* What QueryOperation answers for a handle.
QueryOperation(instance, id) ==
  IF ~Known(instance, id) THEN NoResult
  ELSE CopyResult(Operations[FindOperation(id)])

FreeSlots == {s \in Slots : Operations[s].Id = 0}

EvictableIfLive(s) == Operations[s].State # "Pending"
EvictableIfFinished(s) ==
  /\ Operations[s].State \notin {"Reserved", "Pending"}
  /\ ~(Operations[s].State = "Succeeded" /\ Operations[s].Mutation = "Create")
\* Pending work and live create identities are never evicted.
Evictable(s) ==
  /\ Operations[s].State # "Pending"
  /\ ~(Operations[s].State = "Succeeded" /\ Operations[s].Mutation = "Create")

OldestEvictable ==
  CHOOSE s \in {r \in Slots : Evictable(r)} :
    \A r \in {q \in Slots : Evictable(q)} : Operations[s].Id <= Operations[r].Id

ReservationStatus ==
  IF AdapterStopping THEN "DEVICE_NOT_READY"
  ELSE IF (FreeSlots = {} /\ {s \in Slots : Evictable(s)} = {}) \/ NextOperationId = 0
       THEN "INSUFFICIENT_RESOURCES"
  ELSE "SUCCESS"

ReserveOperation(mutation) ==
  /\ teardown # "released"
  /\ ReservationStatus = "SUCCESS"
  /\ LET selected == IF FreeSlots # {} THEN First(FreeSlots) ELSE OldestEvictable IN
       Operations' = [Operations EXCEPT ![selected] =
         [NoRecord EXCEPT !.Id = NextOperationId, !.Mutation = mutation,
                          !.State = "Reserved", !.Result = "PENDING"]]
  /\ NextOperationId' = FollowingId(NextOperationId, OperationIdModulus)
  /\ UNCHANGED <<storeVars, AdapterInstance, ManagementBusy, ManagementIdle, srb,
                 worker, teardown, fault, announced, effects>>

\* What ListState and ListDisks answer.
OnlineDisks == {<<l, luns[l].DeviceId>> : l \in LunsIn("Online")}

SnapshotState ==
  [pending |-> Cardinality({s \in Slots : Operations[s].State = "Pending"}),
   allocated |-> TotalAllocatedBytes,
   disks |-> {<<luns[l].DeviceId, luns[l].CreateOperationId, luns[l].State>> :
                l \in Luns \ LunsIn("Empty")}]

-----------------------------------------------------------------------------
(***************************************************************************)
(* Submission: PrepareSubmission under the lock, then StorPortQueueWorkItem *)
(* outside it.                                                             *)
(***************************************************************************)
SameParameters(record, command) ==
  IF command.mutation = "Create" THEN record.Create = command.create
  ELSE record.Delete = command.delete

UnusedOrFinished(record) == record.State # "Pending"
Unused(record) == record.State = "Reserved"

BindStatus(command) ==
  IF ~Known(command.instance, command.operation) THEN "NOT_FOUND"
  ELSE LET record == Operations[FindOperation(command.operation)] IN
       IF record.Mutation # command.mutation THEN "INVALID_PARAMETER"
       ELSE IF Unused(record) THEN "ACCEPTED"
       ELSE IF SameParameters(record, command) THEN "REPLAYED"
       ELSE "INVALID_PARAMETER"

BeginManagementWhileStopping == IF ManagementBusy THEN "DEVICE_BUSY" ELSE "SUCCESS"
BeginManagement ==
  IF AdapterStopping THEN "DEVICE_NOT_READY"
  ELSE IF ManagementBusy THEN "DEVICE_BUSY" ELSE "SUCCESS"

SubmissionStatus(command) ==
  IF BeginManagement # "SUCCESS" THEN BeginManagement
  ELSE IF command.reserved THEN BindStatus(command)
  ELSE "ACCEPTED"

Bound(record, command) ==
  [record EXCEPT !.Create = command.create, !.Delete = command.delete,
     !.DeviceId = IF command.mutation = "Delete" THEN command.delete ELSE @,
     !.State = "Pending"]
BindOperation(command) ==
  [Operations EXCEPT ![FindOperation(command.operation)] = Bound(@, command)]

PrepareSubmission(c, command) ==
  /\ teardown # "released"
  /\ srb[c].owner = "client"
  /\ SubmissionStatus(command) = "ACCEPTED"
  /\ ManagementBusy' = TRUE
  /\ ManagementIdle' = FALSE
  /\ Operations' = IF command.reserved THEN BindOperation(command) ELSE Operations
  /\ srb' = [srb EXCEPT ![c] =
               [owner |-> "startIo", command |-> command, ReturnCode |-> "PENDING",
                SrbStatus |-> "PENDING", result |-> NoResult]]
  /\ UNCHANGED <<storeVars, AdapterInstance, NextOperationId, worker, teardown,
                 fault, announced, effects>>

\* The StorPort worker object takes one work item at a time.
QueueWorkItem(c) ==
  /\ srb[c].owner = "startIo"
  /\ worker.pc = "none" /\ teardown # "released"
  /\ worker' = [NoWork EXCEPT !.pc = "queued", !.item = c]
  /\ srb' = [srb EXCEPT ![c].owner = "worker"]
  /\ UNCHANGED <<storeVars, AdapterInstance, Operations, NextOperationId,
                 ManagementBusy, ManagementIdle, teardown, fault, announced, effects>>

EndManagementStillBusy == UNCHANGED ManagementBusy /\ ManagementIdle' = TRUE
EndManagementNotSignalled == ManagementBusy' = FALSE /\ UNCHANGED ManagementIdle
EndManagement ==
  /\ ManagementBusy' = FALSE
  /\ ManagementIdle' = TRUE

\* The record FailOperationLocked leaves, if the operation is still known.
FailOperation(id, status) ==
  IF SlotsOf(id) = {} THEN Operations
  ELSE [Operations EXCEPT ![FindOperation(id)].State = "Failed",
                          ![FindOperation(id)].Result = status]

\* Queueing can fail for want of memory whatever the worker is doing.  The SRB
\* never left StartIo, which still has to release the lock and to complete it:
\* two steps more, for teardown may run between them.
QueueFails(c) ==
  /\ srb[c].owner = "startIo"
  /\ Operations' = IF srb[c].command.reserved
                   THEN FailOperation(srb[c].command.operation, "INSUFFICIENT_RESOURCES")
                   ELSE Operations
  /\ EndManagement
  /\ srb' = [srb EXCEPT ![c] = [NoSubmission EXCEPT !.owner = "unlocking"]]
  /\ UNCHANGED <<storeVars, AdapterInstance, NextOperationId, worker, teardown,
                 fault, announced, effects>>

HandBack(c, from, to) ==
  /\ srb[c].owner = from
  /\ srb' = [srb EXCEPT ![c] = [NoSubmission EXCEPT !.owner = to]]
  /\ UNCHANGED <<storeVars, AdapterInstance, Operations, NextOperationId,
                 ManagementBusy, ManagementIdle, worker, teardown, fault, announced,
                 effects>>

SubmitReturns(c) == HandBack(c, "unlocking", "completing")
\* StartIo's CompleteRequest: the SRB goes back to StorPort.
CompleteFailedSubmission(c) == HandBack(c, "completing", "client")

-----------------------------------------------------------------------------
(***************************************************************************)
(* ProcessWorkItem.                                                        *)
(***************************************************************************)
Command == srb[worker.item].command

\* TakeFault: only reserved operations consume an armed fault.
StartWorkItem ==
  /\ worker.pc = "queued"
  /\ LET taken == Command.reserved /\ fault.remaining # 0 IN
       /\ worker' = [worker EXCEPT !.pc = "started",
                                   !.fault = IF taken THEN fault.mode ELSE "Disabled"]
       /\ fault' = [fault EXCEPT !.remaining = IF taken THEN @ - 1 ELSE @]
  /\ UNCHANGED <<storeVars, AdapterInstance, Operations, NextOperationId,
                 ManagementBusy, ManagementIdle, srb, teardown, announced, effects>>

\* Write the response; FailResponseTransport spoils the SRB of a good answer.
Respond(code, result) ==
  srb' = [srb EXCEPT ![worker.item].ReturnCode = code,
                     ![worker.item].SrbStatus =
                       IF worker.fault = "FailResponseTransport" /\ code = "SUCCESS"
                       THEN "ERROR" ELSE "SUCCESS",
                     ![worker.item].result = result]

RejectOperation ==
  /\ worker.pc = "started" /\ worker.fault = "RejectOperation"
  /\ Operations' = FailOperation(Command.operation, "INSUFFICIENT_RESOURCES")
  /\ IF SlotsOf(Command.operation) = {} THEN Respond("NOT_FOUND", NoResult)
     ELSE Respond("SUCCESS", CopyResult(Operations'[FindOperation(Command.operation)]))
  /\ worker' = [worker EXCEPT !.pc = "complete"]
  /\ UNCHANGED <<storeVars, AdapterInstance, NextOperationId, ManagementBusy,
                 ManagementIdle, teardown, fault, announced, effects>>

StillPending ==
  /\ Known(Command.instance, Command.operation)
  /\ Operations[FindOperation(Command.operation)].State = "Pending"

SnapshotPendingOperation ==
  /\ worker.pc = "started" /\ Command.reserved /\ worker.fault # "RejectOperation"
  /\ IF StillPending
     THEN LET snapshot == Operations[FindOperation(Command.operation)] IN
          /\ worker' = [worker EXCEPT !.pc = "running", !.snapshot = snapshot]
          /\ IF snapshot.Mutation = "Create" THEN BeginCreate("worker", snapshot.Create)
             ELSE BeginDelete("worker", snapshot.Delete)
          /\ UNCHANGED srb
     ELSE /\ Respond("NOT_FOUND", NoResult)
          /\ worker' = [worker EXCEPT !.pc = "complete"]
          /\ UNCHANGED call
  /\ UNCHANGED <<luns, TotalAllocatedBytes, NextDeviceId, AdapterStopping, pool,
                 memory, io, AdapterInstance, Operations, NextOperationId,
                 ManagementBusy, ManagementIdle, teardown, fault, announced, effects>>

ProcessLegacyRequest ==
  /\ worker.pc = "started" /\ ~Command.reserved
  /\ worker' = [worker EXCEPT !.pc = "running"]
  /\ IF Command.mutation = "Create" THEN BeginCreate("worker", Command.create)
     ELSE BeginDelete("worker", Command.delete)
  /\ UNCHANGED <<luns, TotalAllocatedBytes, NextDeviceId, AdapterStopping, pool,
                 memory, io, AdapterInstance, Operations, NextOperationId,
                 ManagementBusy, ManagementIdle, srb, teardown, fault, announced,
                 effects>>

OutcomeAlwaysSucceeded ==
  [worker.snapshot EXCEPT !.Result = call["worker"].status, !.State = "Succeeded",
     !.DeviceId = call["worker"].deviceId, !.Lun = call["worker"].lun]
\* The snapshot as CreateDisk or DeleteDisk leaves it.
Outcome ==
  LET done == call["worker"] IN
  [worker.snapshot EXCEPT
     !.Result = done.status, !.DeviceId = done.deviceId,
     !.Lun = IF done.status = "SUCCESS" /\ worker.snapshot.Mutation = "Create"
             THEN done.lun ELSE @,
     !.State = IF done.status = "SUCCESS" THEN "Succeeded" ELSE "Failed"]

PublishOperationResult ==
  /\ worker.pc = "running" /\ Command.reserved
  /\ Collect("worker")
  /\ LET known == SlotsOf(worker.snapshot.Id) # {} IN
       /\ Operations' = IF known
            THEN [Operations EXCEPT ![FindOperation(worker.snapshot.Id)] = Outcome]
            ELSE Operations
       /\ IF known /\ Outcome.Result = "SUCCESS" /\ Outcome.Mutation = "Create"
          THEN BindCreateOperation(Outcome.Lun, Outcome.Id)
          ELSE UNCHANGED luns
       /\ IF known THEN Respond("SUCCESS", CopyResult(Outcome))
          ELSE Respond("NOT_FOUND", NoResult)
  /\ worker' = [worker EXCEPT !.pc = "complete"]
  /\ UNCHANGED <<TotalAllocatedBytes, NextDeviceId, AdapterStopping, pool, memory, io,
                 AdapterInstance, NextOperationId, ManagementBusy, ManagementIdle,
                 teardown, fault, announced, effects>>

WriteLegacyResponse ==
  /\ worker.pc = "running" /\ ~Command.reserved
  /\ Collect("worker")
  /\ Respond(call["worker"].status,
             IF Command.mutation = "Create" /\ call["worker"].status = "SUCCESS"
             THEN [NoResult EXCEPT !.deviceId = call["worker"].deviceId,
                                   !.lun = call["worker"].lun]
             ELSE NoResult)
  /\ worker' = [worker EXCEPT !.pc = "complete"]
  /\ UNCHANGED <<luns, TotalAllocatedBytes, NextDeviceId, AdapterStopping, pool,
                 memory, io, AdapterInstance, Operations, NextOperationId,
                 ManagementBusy, ManagementIdle, teardown, fault, announced, effects>>

BusChangedIfDelivered == srb[worker.item].SrbStatus = "SUCCESS"
\* A reserved response is judged by the state it reports, a legacy one by its
\* return code.  Completion gives the SRB back to StorPort.
BusChanged ==
  IF Command.reserved /\ srb[worker.item].result.operationId # 0
  THEN /\ srb[worker.item].result.state = "Succeeded"
       /\ srb[worker.item].result.status = "SUCCESS"
  ELSE srb[worker.item].ReturnCode = "SUCCESS"

CompleteRequest ==
  /\ worker.pc = "complete"
  /\ worker' = [worker EXCEPT !.pc = "notify", !.item = NoSrb,
                              !.snapshot = NoRecord, !.busChanged = BusChanged]
  /\ srb' = [srb EXCEPT ![worker.item] = NoSubmission]
  /\ UNCHANGED <<storeVars, AdapterInstance, Operations, NextOperationId,
                 ManagementBusy, ManagementIdle, teardown, fault, announced, effects>>

\* StorPort answers BusChangeDetected by asking for REPORT LUNS.
BusChangeDetected ==
  /\ worker.pc = "notify"
  /\ announced' = IF worker.busChanged THEN OnlineDisks ELSE announced
  /\ worker' = [worker EXCEPT !.pc = "end", !.busChanged = FALSE]
  /\ UNCHANGED <<storeVars, AdapterInstance, Operations, NextOperationId,
                 ManagementBusy, ManagementIdle, srb, teardown, fault, effects>>

\* The worker's last critical section, its release of the lock, and its return
\* into StorPort are steps of their own: teardown may run between them.
FinishManagement ==
  /\ worker.pc = "end"
  /\ EndManagement
  /\ worker' = [worker EXCEPT !.pc = "unlocking"]
  /\ UNCHANGED <<storeVars, AdapterInstance, Operations, NextOperationId, srb,
                 teardown, fault, announced, effects>>

Unwind(from, to) ==
  /\ worker.pc = from
  /\ worker' = [NoWork EXCEPT !.pc = to]
  /\ UNCHANGED <<storeVars, AdapterInstance, Operations, NextOperationId,
                 ManagementBusy, ManagementIdle, srb, teardown, fault, announced,
                 effects>>

ReleaseLunLock == Unwind("unlocking", "unwinding")
WorkerReturns == Unwind("unwinding", "none")

-----------------------------------------------------------------------------
(***************************************************************************)
(* The steps of CreateDisk, DeleteDisk and DrainAndReleaseDisks.           *)
(***************************************************************************)
\* The step that makes a mutation irrevocable is counted for its operation.
CountEffect ==
  effects' = IF Command.reserved THEN [effects EXCEPT ![Command.operation] = @ + 1]
             ELSE effects

MutatingStep ==
  /\ CommitNewLun("worker") \/ MarkLunStopping("worker")
  /\ CountEffect
  /\ UNCHANGED <<AdapterInstance, Operations, NextOperationId, ManagementBusy,
                 ManagementIdle, srb, worker, teardown, fault, announced>>

PlainLockedStep(t) ==
  /\ \/ SelectAvailableLun(t) \/ CommitFails(t) \/ MarkUnknownDisk(t)
     \/ MarkAllLunsStopping(t) \/ FirstStoppingLun(t) \/ DetachBackingStore(t)
  /\ UNCHANGED managementVars

MarkCreatesDeleted(deviceId) ==
  [s \in Slots |->
     IF /\ Operations[s].Mutation = "Create" /\ Operations[s].DeviceId = deviceId
        /\ Operations[s].State = "Succeeded"
     THEN [Operations[s] EXCEPT !.State = "Deleted"]
     ELSE Operations[s]]

FinalizeDiskRemoval(t) ==
  /\ FinalizeRemoval(t)
  /\ Operations' = MarkCreatesDeleted(call[t].deviceId)
  /\ UNCHANGED <<AdapterInstance, NextOperationId, ManagementBusy, ManagementIdle,
                 srb, worker, teardown, fault, announced, effects>>

-----------------------------------------------------------------------------
(***************************************************************************)
(* Shutdown: close admission, wait for the worker's final access, drain,   *)
(* free the worker.  StorPortFreeWorker answers BUSY until the callback    *)
(* has returned.                                                           *)
(***************************************************************************)
TeardownMove(from, to) ==
  /\ teardown = from
  /\ teardown' = to
  /\ UNCHANGED <<AdapterInstance, Operations, NextOperationId, ManagementBusy,
                 ManagementIdle, srb, worker, fault, announced, effects>>

CloseAdmission ==
  /\ TeardownMove("up", "waitIdle")
  /\ SetStopping(TRUE)

WaitForIdleNotWaiting == TeardownMove("waitIdle", "waitLock") /\ UNCHANGED storeVars
WaitForIdle ==
  /\ TeardownMove("waitIdle", "waitLock")
  /\ ManagementIdle
  /\ UNCHANGED storeVars

\* WaitForIdle takes and drops the lock before it returns.
DrainAndReleaseDisks ==
  /\ TeardownMove("waitLock", "drain")
  /\ BeginDrain("teardown")
  /\ UNCHANGED <<luns, TotalAllocatedBytes, NextDeviceId, AdapterStopping, pool,
                 memory, io>>

DrainReturns ==
  /\ TeardownMove("drain", "freeWorker")
  /\ Collect("teardown")
  /\ UNCHANGED <<luns, TotalAllocatedBytes, NextDeviceId, AdapterStopping, pool,
                 memory, io>>

ReleaseWorker ==
  /\ TeardownMove("freeWorker", "released")
  /\ worker.pc = "none"
  /\ UNCHANGED storeVars

-----------------------------------------------------------------------------
\* Configure, from a Debug client.
ConfigureFault(mode, count) ==
  /\ teardown # "released"
  /\ fault' = [mode |-> mode,
               remaining |-> IF mode \in {"Disabled", "TraceOnly"} THEN 0 ELSE count]
  /\ UNCHANGED <<storeVars, AdapterInstance, Operations, NextOperationId,
                 ManagementBusy, ManagementIdle, srb, worker, teardown, announced,
                 effects>>

LunLockFree ==
  /\ worker.pc # "unlocking"
  /\ \A c \in Srbs : srb[c].owner # "unlocking"

ClientStep ==
  \/ \E mutation \in Mutations : ReserveOperation(mutation)
  \/ \E c \in Srbs, command \in MutationCommand : PrepareSubmission(c, command)
  \/ \E mode \in FaultModes, count \in 0..MaximumFaultCount : ConfigureFault(mode, count)

WorkerLockedStep ==
  \/ StartWorkItem \/ RejectOperation \/ SnapshotPendingOperation
  \/ PublishOperationResult \/ FinishManagement \/ MutatingStep

WorkerUnlockedStep ==
  \/ ProcessLegacyRequest \/ WriteLegacyResponse \/ CompleteRequest
  \/ BusChangeDetected \/ ReleaseLunLock \/ WorkerReturns

StartIoUnlockedStep(c) ==
  QueueWorkItem(c) \/ SubmitReturns(c) \/ CompleteFailedSubmission(c)

CallUnlockedStep(t) == UnlockedCallStep(t) /\ UNCHANGED managementVars
LeaseStep(i) ==
  /\ ReleaseLunIo(i) \/ \E l \in Luns : AcquireLunIo(i, l)
  /\ UNCHANGED managementVars
CopyStep(i) == WriteBacking(i) /\ UNCHANGED managementVars

LockedStep ==
  \/ ClientStep
  \/ \E c \in Srbs : QueueFails(c)
  \/ WorkerLockedStep
  \/ \E t \in Threads : PlainLockedStep(t) \/ FinalizeDiskRemoval(t)
  \/ CloseAdmission
  \/ DrainAndReleaseDisks
  \/ \E i \in IoThreads : LeaseStep(i)

UnlockedStep ==
  \/ Initialize
  \/ \E stopping \in BOOLEAN : HwAdapterControl(stopping)
  \/ \E c \in Srbs : StartIoUnlockedStep(c)
  \/ WorkerUnlockedStep
  \/ \E t \in Threads : CallUnlockedStep(t)
  \/ \E i \in IoThreads : CopyStep(i)
  \/ WaitForIdle \/ DrainReturns \/ ReleaseWorker

Next == (LunLockFree /\ LockedStep) \/ UnlockedStep

Spec == Init /\ [][Next]_vars

(***************************************************************************)
(* Threads that are inside the driver keep running: StartIo returns from   *)
(* queueing and completes what it could not queue, StorPort runs the       *)
(* queued work item and lets its callback return, SCSI commands are        *)
(* bounded copies that end by releasing their lease, and                   *)
(* HwFreeAdapterResources proceeds.  Nothing makes a client send a         *)
(* request.                                                                *)
(***************************************************************************)
CallStep(t) ==
  \/ LunLockFree /\ (PlainLockedStep(t) \/ FinalizeDiskRemoval(t))
  \/ CallUnlockedStep(t)

WorkerStep ==
  \/ LunLockFree /\ WorkerLockedStep
  \/ WorkerUnlockedStep
  \/ CallStep("worker")

TeardownStep ==
  \/ LunLockFree /\ DrainAndReleaseDisks
  \/ WaitForIdle \/ DrainReturns \/ ReleaseWorker
  \/ CallStep("teardown")

Fairness ==
  /\ \A c \in Srbs : WF_vars(StartIoUnlockedStep(c) \/ (LunLockFree /\ QueueFails(c)))
  /\ WF_vars(WorkerStep)
  /\ \A i \in IoThreads :
       WF_vars(LunLockFree /\ ReleaseLunIo(i) /\ UNCHANGED managementVars)
  /\ WF_vars(TeardownStep)

FairSpec == Spec /\ Fairness

-----------------------------------------------------------------------------
(***************************************************************************)
(* Properties.                                                             *)
(***************************************************************************)

\* The retained outcome of a reserved create and the LUN table agree at every
\* release of the lock: a Succeeded create names a LUN that exists, carries its
\* device ID and its operation ID; a LUN that carries an operation ID has that
\* record, neither evicted by ReserveOperation nor already Deleted.
OperationLunConsistency ==
  /\ \A s \in Slots :
       Operations[s].Mutation = "Create" /\ Operations[s].State = "Succeeded" =>
         LET lun == luns[Operations[s].Lun] IN
           /\ lun.State # "Empty"
           /\ lun.DeviceId = Operations[s].DeviceId
           /\ lun.CreateOperationId = Operations[s].Id
  /\ \A l \in Luns : luns[l].CreateOperationId # 0 =>
       \E s \in Slots :
         /\ Operations[s].Id = luns[l].CreateOperationId
         /\ Operations[s].Mutation = "Create" /\ Operations[s].State = "Succeeded"
         /\ Operations[s].Lun = l

\* A create reported Deleted and a delete reported Succeeded mean that the disk
\* is gone, from the Stopping LUNs that still hold memory too, and never comes
\* back: no LUN carries the device ID again.
DeletedMeansGone ==
  \A s \in Slots :
    \/ Operations[s].Mutation = "Create" /\ Operations[s].State = "Deleted"
    \/ Operations[s].Mutation = "Delete" /\ Operations[s].State = "Succeeded"
    => \A l \in Luns : luns[l].State # "Empty" => luns[l].DeviceId # Operations[s].DeviceId

\* What a client can learn about an operation ID by asking again.
Issued(id) == NextOperationId = 0 \/ id < NextOperationId
Observed(id) ==
  IF SlotsOf(id) # {} THEN Operations[FindOperation(id)].State
  ELSE IF Issued(id) THEN "Expired" ELSE "Unissued"

\* A client that may reserve can: with more than one record over the number of
\* disks the table always holds a record to give up, since the ones it protects
\* are the single pending mutation and the creates of the disks that exist.
ReservationAlwaysPossible ==
  MaximumOperationCount >= MaximumDiskCount + 2 /\ ~AdapterStopping /\ NextOperationId # 0
    => ReservationStatus = "SUCCESS"

\* StorPort's picture of the bus is current whenever management is idle: every
\* committed create and delete is followed by a BusChangeDetected, also when the
\* response was spoiled, and none is notified before the table has changed.
AnnouncedWhenIdle ==
  ~ManagementBusy /\ teardown = "up" => announced = OnlineDisks

\* The response the worker is about to complete reports this request's own
\* operation, as the table has it if the record is still there.
ReplyMatchesOutcome ==
  worker.pc = "complete" /\ Command.reserved =>
    LET result == srb[worker.item].result IN
      /\ result.operationId = Command.operation
      /\ SlotsOf(result.operationId) # {} =>
           QueryOperation(Command.instance, result.operationId) = result
      /\ result.state = "Succeeded" <=> effects[result.operationId] = 1

\* Teardown frees nothing that a thread of the driver still uses: when it
\* drains, no submission is in progress, the worker has made its last access to the
\* extension, and a StartIo whose queueing failed has released the lock, so that all
\* it may still do is hand its SRB back, which reads and writes no field of the
\* extension; when it is over, the callback has returned, no lease is out and the
\* pool holds no block of this adapter.
FinalAccess ==
  /\ teardown \in {"drain", "freeWorker", "released"} =>
       /\ worker.pc \in {"none", "unwinding"}
       /\ \A c \in Srbs : srb[c].owner \in {"client", "completing"}
  /\ teardown \in {"freeWorker", "released"} =>
       /\ \A i \in IoThreads : ~io[i].held
       /\ \A b \in Blocks : pool[b] = 0
  /\ teardown = "released" => worker.pc = "none"

\* A handle reserved from an adapter that has since been torn down never
\* mutates the adapter that took its place, where the same ID may be in use.
HandlesStayWithInstance ==
  \A c \in Srbs : srb[c].owner \in {"startIo", "worker"} /\ srb[c].command.reserved =>
    srb[c].command.instance = AdapterInstance

\* The contract, with an operation ID's record and the observer of its effects for a handle.
Contract == INSTANCE OperationContract WITH
  Handles <- OperationIds \ {0},
  instance <- AdapterInstance,
  handle <- [id \in OperationIds \ {0} |->
               [state |-> Observed(id),
                mutation |-> IF SlotsOf(id) = {} THEN "None"
                             ELSE Operations[FindOperation(id)].Mutation]],
  effect <- [id \in OperationIds \ {0} |-> effects[id]]

\* The controller implements the contract that clients rely on.  Within an adapter
\* instance a handle's answers only move forward: whatever is replayed, rejected or
\* failed by the queue, it mutates at most once and only while Pending, Failed means
\* not at all and Succeeded once, an outcome is final except that a created disk may
\* later be Deleted, Pending work and live creates never expire, and an expired handle
\* never becomes valid again, not even when the counter wraps.  No instance is
\* replaced while a mutation is in progress.
ImplementsContract == Contract!ContractSpec

\* docs/architecture.md: replaying an accepted handle returns its state and
\* result.  BeginManagementLocked comes first, and a Pending record implies a
\* busy adapter, so a replay of a Pending handle is answered DEVICE_BUSY.
ReplayReturnsState ==
  \A command \in MutationCommand :
    /\ command.reserved /\ ~AdapterStopping /\ command.instance = AdapterInstance
    /\ SlotsOf(command.operation) # {}
    /\ LET record == Operations[FindOperation(command.operation)] IN
         /\ record.State # "Reserved" /\ record.Mutation = command.mutation
         /\ SameParameters(record, command)
    => SubmissionStatus(command) = "REPLAYED"

\* Admission reopens after every accepted mutation, on every path of the worker
\* and of a failed queueing: DEVICE_BUSY is never the last word.
BusyClears == ManagementBusy ~> ~ManagementBusy

\* An SRB that was marked pending is completed.
AcceptedCompletes ==
  \A c \in Srbs : srb[c].owner # "client" ~> srb[c].owner = "client"

\* Teardown never hangs: the drain is not starved by I/O that keeps coming, and
\* neither the idle wait nor the worker release waits for ever.
TeardownFinishes == teardown = "waitIdle" ~> teardown = "released"

=============================================================================
