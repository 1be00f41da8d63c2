---------------------------- MODULE ManagementProofs ----------------------------
(***************************************************************************)
(* Proofs about ManagementController, for every size of the LUN table and  *)
(* of the operation table, every number of SRBs, blocks and I/O threads,   *)
(* every width of the counters and every fault a Debug client may arm.     *)
(***************************************************************************)
EXTENDS ManagementController, LunStoreProofs

-----------------------------------------------------------------------------
(***************************************************************************)
(* The inductive invariant, a named part for each thing it says.           *)
(***************************************************************************)
\* The worker has a work item, from its queueing to its completion.
Working == {"queued", "started", "running", "complete"}
\* The SRB is under way: admitted, and neither completed nor failed by the queue.
Submitted(c) == srb[c].owner \in {"startIo", "worker"}

\* One SRB is in the driver's hands at a time, and the busy flag says so from its
\* admission to the worker's last critical section.
Ownership ==
  /\ \A c, d \in Srbs : Submitted(c) /\ Submitted(d) => c = d
  /\ \A c \in Srbs : srb[c].owner = "startIo" => worker.pc \in {"none", "unwinding"}
  /\ \A c \in Srbs : srb[c].owner = "worker" => worker.item = c
  /\ IF worker.pc \in Working THEN worker.item \in Srbs /\ srb[worker.item].owner = "worker"
     ELSE worker.item = NoSrb
  /\ ManagementBusy <=> worker.pc \in {"notify", "end"} \/ \E c \in Srbs : Submitted(c)
  /\ worker.pc \in {"notify", "end", "unlocking"} => \A c \in Srbs : ~Submitted(c)
  /\ ManagementIdle <=> ~ManagementBusy

\* A submission is a validated command, a reserved one with a handle of this adapter.
Commands ==
  \A c \in Srbs : Submitted(c) =>
    /\ srb[c].command \in MutationCommand
    /\ srb[c].command.reserved =>
         srb[c].command.instance = AdapterInstance /\ srb[c].command.operation # 0

\* How far teardown is, and what it then relies on.
TeardownOrder ==
  /\ teardown \notin {"up", "released"} => AdapterStopping
  /\ teardown \notin {"up", "waitIdle"} => ~ManagementBusy
  /\ teardown \in {"drain", "freeWorker", "released"} => worker.pc # "unlocking"
  /\ teardown = "released" => worker.pc = "none"

\* No StartIo is inside the critical section of a failed queueing once teardown drains.
SubmitLock ==
  teardown \in {"drain", "freeWorker", "released"} =>
    \A c \in Srbs : srb[c].owner # "unlocking"

\* The drain leaves no disk Online once it has marked them all, and none at all when it
\* returns.
Drain ==
  /\ call["teardown"].pc # "idle" <=> teardown = "drain"
  /\ call["teardown"].pc \notin {"select", "allocate", "commit", "mark"}
  /\ call["teardown"].pc \notin {"idle", "markAll"} => LunsIn("Online") = {}
  /\ call["teardown"].pc = "returned" \/ teardown \in {"freeWorker", "released"} =>
       \A l \in Luns : luns[l].State = "Empty"

\* The counter is past an ID, or at its end.
DeviceIdIssued(id) == NextDeviceId = 0 \/ id < NextDeviceId
Gone(deviceId) ==
  /\ DeviceIdIssued(deviceId)
  /\ \A l \in Luns : luns[l].State # "Empty" => luns[l].DeviceId # deviceId

\* The worker is inside CreateDisk or DeleteDisk exactly while it runs, with what the
\* command says, and knows what a successful call has left.
WorkerCall ==
  /\ call["worker"].pc # "idle" <=> worker.pc = "running"
  /\ worker.pc = "running" /\ Command.mutation = "Create" =>
       /\ call["worker"].pc \in {"select", "allocate", "commit", "returned"}
       /\ call["worker"].request = Command.create
       /\ call["worker"].pc = "returned" /\ call["worker"].status = "SUCCESS" =>
            /\ luns[call["worker"].lun].State = "Online"
            /\ luns[call["worker"].lun].DeviceId = call["worker"].deviceId
            /\ luns[call["worker"].lun].CreateOperationId = 0
  /\ worker.pc = "running" /\ Command.mutation = "Delete" =>
       /\ call["worker"].pc \in {"mark", "wait", "detach", "free", "finalize", "returned"}
       /\ call["worker"].request = NoCreate
       /\ call["worker"].pc = "returned" /\ call["worker"].status = "SUCCESS" =>
            Gone(call["worker"].deviceId)
  /\ worker.pc = "started" /\ worker.fault = "RejectOperation" => Command.reserved

\* The table holds each issued ID at most once.
Table ==
  \A s \in Slots :
    /\ Operations[s].Id = 0 => Operations[s] = NoRecord
    /\ Operations[s].Id # 0 =>
         /\ Issued(Operations[s].Id)
         /\ Operations[s].Mutation \in Mutations /\ Operations[s].State \in OperationState
         /\ Operations[s].State = "Deleted" => Operations[s].Mutation = "Create"
         /\ \A r \in Slots : Operations[r].Id = Operations[s].Id => r = s

\* A record is Pending exactly from the binding of its command to the publication of
\* its outcome.
InProgress(c) ==
  /\ Submitted(c) /\ srb[c].command.reserved
  /\ worker.pc # "complete"
RecordFor(s, command) ==
  /\ Operations[s].Id = command.operation /\ Operations[s].State = "Pending"
  /\ Operations[s].Mutation = command.mutation
  /\ Operations[s].Create = command.create /\ Operations[s].Delete = command.delete
PendingRecords ==
  /\ \A c \in Srbs : InProgress(c) => \E s \in Slots : RecordFor(s, srb[c].command)
  /\ \A s \in Slots : Operations[s].State = "Pending" =>
       \E c \in Srbs : InProgress(c) /\ srb[c].command.operation = Operations[s].Id
  /\ worker.pc = "running" /\ Command.reserved =>
       \E s \in Slots : RecordFor(s, Command) /\ worker.snapshot = Operations[s]

\* The mutation of the call in progress has been made.
Mutated ==
  \/ call["worker"].pc \in {"wait", "detach", "free", "finalize"}
  \/ call["worker"].pc = "returned" /\ call["worker"].status = "SUCCESS"

\* What the observer has counted for an ID, as the state of its record tells.
Effects ==
  /\ \A id \in OperationIds : effects[id] \in {0, 1} /\ (~Issued(id) => effects[id] = 0)
  /\ \A s \in Slots : Operations[s].Id # 0 =>
       /\ Operations[s].State \in {"Reserved", "Failed"} => effects[Operations[s].Id] = 0
       /\ Operations[s].State \in {"Succeeded", "Deleted"} => effects[Operations[s].Id] = 1
       /\ Operations[s].State = "Pending" =>
            (effects[Operations[s].Id] = 1 <=> worker.pc = "running" /\ Mutated)

\* DeletedMeansGone, and the IDs it speaks of are not issued again.
Deletions ==
  \A s \in Slots :
    \/ Operations[s].Mutation = "Create" /\ Operations[s].State = "Deleted"
    \/ Operations[s].Mutation = "Delete" /\ Operations[s].State = "Succeeded"
    => Gone(Operations[s].DeviceId)

\* The reply on its way, while its record is still in the table.
Reply ==
  worker.pc = "complete" /\ Command.reserved =>
    LET result == srb[worker.item].result IN
      /\ result.operationId = Command.operation
      /\ result.state = "Succeeded" <=> effects[result.operationId] = 1
      /\ result.state = "Succeeded" => result.status = "SUCCESS"
      /\ Issued(result.operationId)
      /\ \A s \in Slots : Operations[s].Id = result.operationId =>
           CopyResult(Operations[s]) = result

\* StorPort knows the online disks unless the worker is about to tell it.
Announcement ==
  teardown \in {"up", "waitIdle", "waitLock"} =>
    \/ announced = OnlineDisks
    \/ worker.pc = "running" /\ Mutated
    \/ worker.pc = "complete" /\ BusChanged
    \/ worker.pc = "notify" /\ worker.busChanged

\* The whole.
ManagementInv ==
  /\ StoreInv
  /\ TypeOK
  /\ Ownership
  /\ Commands
  /\ TeardownOrder
  /\ SubmitLock
  /\ Drain
  /\ WorkerCall
  /\ Table
  /\ PendingRecords
  /\ Effects
  /\ OperationLunConsistency
  /\ Deletions
  /\ Reply
  /\ Announcement

-----------------------------------------------------------------------------
(***************************************************************************)
(* Types.                                                                  *)
(***************************************************************************)

\* The constants of the initial state have their types.
LEMMA ManagementTypes ==
  /\ Slots \subseteq Nat /\ 1 \in Instances /\ 1 \in OperationIds
  /\ NoRecord \in Record /\ NoResult \in Result /\ NoSubmission \in Srb
  /\ NoWork \in Worker
  /\ NoFault \in [mode : FaultModes \cup {"Disabled"}, remaining : 0..MaximumFaultCount]
<1>1. /\ Slots \subseteq Nat /\ 1 \in Instances /\ 1 \in OperationIds
      /\ 0 \in 0..MaximumFaultCount
  BY OperationCountAssumption, InstanceAssumption, ModulusAssumption, FaultAssumption
     DEF Slots, Instances, OperationIds
<1>2. NoRecord \in Record
  BY InitialTypes DEF NoRecord, Record, CreateOrNone, Status
<1>3. NoResult \in Result
  BY InitialTypes DEF NoResult, Result, Status
<1>4. NoSubmission \in Srb
  BY <1>3 DEF NoSubmission, Srb, Status
<1>5. NoWork \in Worker
  BY <1>2 DEF NoWork, Worker, WorkerPc
<1> QED
  BY <1>1, <1>2, <1>3, <1>4, <1>5 DEF NoFault

\* A validated command has the fields of its kind.
LEMMA CommandFields ==
  ASSUME NEW command \in MutationCommand
  PROVE  /\ command.reserved \in BOOLEAN /\ command.mutation \in Mutations
         /\ command.instance \in Instances /\ command.operation \in OperationIds
         /\ command.mutation = "Create" =>
              command.create \in CreateRequest /\ command.delete = 0
         /\ command.mutation = "Delete" =>
              command.create = NoCreate /\ command.delete \in DeviceIds \ {0}
         /\ command.create \in CreateOrNone /\ command.delete \in DeviceIds
<1>1. 0 \in OperationIds /\ 1 \in Instances /\ 0 \in DeviceIds
  BY InitialTypes, ManagementTypes
<1>2. CASE command \in ReservedCreates
  BY <1>1, <1>2 DEF ReservedCreates, Mutations, CreateOrNone
<1>3. CASE command \in ReservedDeletes
  BY <1>1, <1>3 DEF ReservedDeletes, Mutations, CreateOrNone
<1>4. CASE command \in LegacyCreates
  BY <1>1, <1>4 DEF LegacyCreates, Mutations, CreateOrNone
<1>5. CASE command \in LegacyDeletes
  BY <1>1, <1>5 DEF LegacyDeletes, Mutations, CreateOrNone
<1> QED
  BY <1>2, <1>3, <1>4, <1>5 DEF MutationCommand

\* A create request is told apart from the absence of one by its size.
LEMMA RequestIsNotNone ==
  ASSUME NEW request \in CreateRequest
  PROVE  request # NoCreate
  BY SizesAssumption DEF CreateRequest, NoCreate

-----------------------------------------------------------------------------
(***************************************************************************)
(* What the invariant says about the work in progress.                     *)
(***************************************************************************)

\* An ID that is in the table is found in its slot and in no other.
LEMMA FindSlot ==
  ASSUME TypeOK, Table, NEW s \in Slots, Operations[s].Id # 0
  PROVE  SlotsOf(Operations[s].Id) = {s} /\ FindOperation(Operations[s].Id) = s
<1>1. SlotsOf(Operations[s].Id) = {s}
  BY DEF SlotsOf, Table
<1>2. First({s}) = s
  BY FirstIsLeast, ManagementTypes
<1> QED
  BY <1>1, <1>2 DEF FindOperation

\* The record of a submission that the worker has not published yet.
LEMMA RecordInProgress ==
  ASSUME ManagementInv, NEW c \in Srbs, InProgress(c)
  PROVE  LET s == FindOperation(srb[c].command.operation) IN
           /\ s \in Slots /\ SlotsOf(srb[c].command.operation) = {s}
           /\ RecordFor(s, srb[c].command)
<1>1. PICK s \in Slots : RecordFor(s, srb[c].command)
  BY DEF ManagementInv, PendingRecords
<1>2. Operations[s].Id = srb[c].command.operation /\ srb[c].command.operation # 0
  BY <1>1 DEF RecordFor, InProgress, ManagementInv, Commands
<1>3. SlotsOf(Operations[s].Id) = {s} /\ FindOperation(Operations[s].Id) = s
  BY <1>2, FindSlot DEF ManagementInv
<1> QED
  BY <1>1, <1>2, <1>3

\* While the worker holds an item, that SRB is the submission in progress, admission is
\* closed and teardown has not passed its idle wait.
LEMMA WorkerItem ==
  ASSUME ManagementInv, worker.pc \in Working
  PROVE  /\ worker.item \in Srbs /\ Submitted(worker.item)
         /\ srb[worker.item] \in Srb /\ Command \in MutationCommand
         /\ ManagementBusy /\ teardown \in {"up", "waitIdle"}
         /\ call["teardown"].pc = "idle"
         /\ \A c \in Srbs : Submitted(c) => c = worker.item
         /\ Command.reserved => Command.instance = AdapterInstance /\ Command.operation # 0
<1>1. /\ worker.item \in Srbs /\ Submitted(worker.item)
      /\ \A c \in Srbs : Submitted(c) => c = worker.item
      /\ ManagementBusy
  BY DEF ManagementInv, Ownership, Submitted
<1>2. srb[worker.item] \in Srb
  BY <1>1 DEF ManagementInv, TypeOK
<1>3. /\ Command \in MutationCommand
      /\ Command.reserved => Command.instance = AdapterInstance /\ Command.operation # 0
  BY <1>1 DEF ManagementInv, Commands, Command
<1>4. teardown \in {"up", "waitIdle"} /\ call["teardown"].pc = "idle"
  BY <1>1 DEF ManagementInv, TeardownOrder, Drain, TypeOK, TeardownPc
<1> QED
  BY <1>1, <1>2, <1>3, <1>4

\* The operation of a running reserved command: its record and its snapshot agree.
LEMMA RunningRecord ==
  ASSUME ManagementInv, worker.pc \in {"queued", "started", "running"}, Command.reserved
  PROVE  LET s == FindOperation(Command.operation) IN
           /\ s \in Slots /\ SlotsOf(Command.operation) = {s}
           /\ RecordFor(s, Command)
           /\ worker.pc = "running" => worker.snapshot = Operations[s]
<1>1. InProgress(worker.item) /\ worker.item \in Srbs
  BY WorkerItem DEF InProgress, Working, Command
<1> DEFINE s == FindOperation(Command.operation)
<1>2. s \in Slots /\ SlotsOf(Command.operation) = {s} /\ RecordFor(s, Command)
  BY <1>1, RecordInProgress DEF Command
<1>3. ASSUME worker.pc = "running"
      PROVE  worker.snapshot = Operations[s]
  <2>1. PICK r \in Slots : RecordFor(r, Command) /\ worker.snapshot = Operations[r]
    BY <1>3 DEF ManagementInv, PendingRecords
  <2>2. Command.operation # 0
    BY WorkerItem DEF Working
  <2>3. r \in SlotsOf(Command.operation)
    BY <2>1, <2>2 DEF RecordFor, SlotsOf
  <2> QED
    BY <1>2, <2>1, <2>3
<1> QED
  BY <1>2, <1>3

-----------------------------------------------------------------------------
(***************************************************************************)
(* The controller uses the store as the store's interface requires: one    *)
(* mutating call at a time, operations bound to created disks only, and no *)
(* new adapter over an old one's disks.                                    *)
(***************************************************************************)

\* The steps that begin and end a call keep to it.
LEMMA CallsFollowTheRules ==
  ASSUME ManagementInv,
         \/ SnapshotPendingOperation \/ ProcessLegacyRequest \/ PublishOperationResult
         \/ WriteLegacyResponse \/ DrainAndReleaseDisks \/ DrainReturns \/ Initialize
  PROVE  StoreNext \/ UNCHANGED storeVars
<1> USE DEF ManagementInv
<1>1. ASSUME worker.pc # "running", teardown # "drain"
      PROVE  Exclusive
  BY <1>1 DEF Exclusive, Threads, WorkerCall, TeardownOrder, Drain
<1>2. CASE SnapshotPendingOperation
  <2>1. worker.pc = "started" /\ Command.reserved /\ teardown # "drain"
    BY <1>2, WorkerItem DEF SnapshotPendingOperation, Working
  <2> DEFINE record == Operations[FindOperation(Command.operation)]
  <2>2. /\ record.Create = Command.create /\ record.Delete = Command.delete
        /\ record.Mutation = Command.mutation
    BY <2>1, RunningRecord DEF RecordFor
  <2>3. Command \in MutationCommand
    BY <2>1, WorkerItem DEF Working
  <2>4. /\ record.Mutation = "Create" => record.Create \in CreateRequest
        /\ record.Mutation # "Create" => record.Delete \in DeviceIds
    BY <2>2, <2>3, CommandFields DEF Mutations
  <2> HIDE DEF record
  <2>5. /\ UNCHANGED <<luns, TotalAllocatedBytes, NextDeviceId, AdapterStopping, pool,
                       memory, io>>
        /\ \/ UNCHANGED call
           \/ record.Mutation = "Create" /\ BeginCreate("worker", record.Create)
           \/ record.Mutation # "Create" /\ BeginDelete("worker", record.Delete)
    BY <1>2 DEF SnapshotPendingOperation, record
  <2> QED
    BY <1>1, <2>1, <2>4, <2>5 DEF StoreNext, StartCall, storeVars
<1>3. CASE ProcessLegacyRequest
  <2>1. worker.pc = "started" /\ teardown # "drain" /\ Command \in MutationCommand
    BY <1>3, WorkerItem DEF ProcessLegacyRequest, Working
  <2>2. /\ Command.mutation = "Create" => Command.create \in CreateRequest
        /\ Command.mutation # "Create" => Command.delete \in DeviceIds
    BY <2>1, CommandFields DEF Mutations
  <2> QED
    BY <1>1, <1>3, <2>1, <2>2 DEF ProcessLegacyRequest, StoreNext, StartCall
<1>4. CASE PublishOperationResult
  <2>1. /\ worker.pc = "running" /\ Command.reserved /\ Collect("worker")
        /\ UNCHANGED <<TotalAllocatedBytes, NextDeviceId, AdapterStopping, pool, memory, io>>
        /\ \/ /\ Outcome.Result = "SUCCESS" /\ Outcome.Mutation = "Create"
              /\ BindCreateOperation(Outcome.Lun, Outcome.Id)
           \/ UNCHANGED luns
    BY <1>4 DEF PublishOperationResult
  <2>2. /\ worker.snapshot \in Record /\ worker.snapshot.Mutation = Command.mutation
        /\ Command \in MutationCommand
    BY <2>1, RunningRecord, WorkerItem DEF RecordFor, Working, TypeOK, Worker
  <2>3. /\ Outcome.Result = call["worker"].status /\ Outcome.Id = worker.snapshot.Id
        /\ Outcome.Mutation = worker.snapshot.Mutation
        /\ Outcome.Result = "SUCCESS" /\ Outcome.Mutation = "Create" =>
             Outcome.Lun = call["worker"].lun
    BY <2>2 DEF Outcome, Record
  <2>4. worker.snapshot.Id \in OperationIds
    BY <2>2 DEF Record
  <2>5. Outcome.Mutation = "Create" => call["worker"].request # NoCreate
    BY <2>1, <2>2, <2>3, CommandFields, RequestIsNotNone DEF WorkerCall
  <2>6. EndCall("worker")
    BY <2>1, <2>3, <2>4, <2>5 DEF EndCall
  <2> QED
    BY <2>6 DEF StoreNext, Threads
<1>5. CASE WriteLegacyResponse
  BY <1>5 DEF WriteLegacyResponse, StoreNext, EndCall, Threads
<1>6. CASE DrainAndReleaseDisks
  <2>1. teardown = "waitLock" /\ worker.pc # "running"
    BY <1>6, WorkerItem DEF DrainAndReleaseDisks, TeardownMove, Working
  <2> QED
    BY <1>1, <1>6, <2>1 DEF DrainAndReleaseDisks, StoreNext, StartCall
<1>7. CASE DrainReturns
  BY <1>7 DEF DrainReturns, StoreNext, EndCall, Threads
<1>8. CASE Initialize
  <2>1. teardown = "released" /\ worker.pc = "none" /\ \A l \in Luns : luns[l].State = "Empty"
    BY <1>8 DEF Initialize, TeardownOrder, Drain
  <2> QED
    BY <1>1, <1>8, <2>1 DEF Initialize, StoreNext, Reinitialize
<1> QED
  BY <1>2, <1>3, <1>4, <1>5, <1>6, <1>7, <1>8

\* Every step of the controller is a step of the store, or leaves it alone.
LEMMA StoreRefinement ==
  ASSUME ManagementInv, [Next]_vars
  PROVE  [StoreNext]_storeVars
<1>1. CASE LockedStep
  <2>1. CASE ClientStep \/ \E c \in Srbs : QueueFails(c)
    BY <2>1 DEF ClientStep, ReserveOperation, PrepareSubmission, ConfigureFault, QueueFails
  <2>2. CASE WorkerLockedStep
    <3>1. CASE MutatingStep
      BY <3>1 DEF MutatingStep, StoreNext, LockedCallStep, Threads
    <3> QED
      BY <2>2, <3>1, CallsFollowTheRules
         DEF WorkerLockedStep, StartWorkItem, RejectOperation, FinishManagement
  <2>3. CASE \E t \in Threads : PlainLockedStep(t) \/ FinalizeDiskRemoval(t)
    BY <2>3 DEF PlainLockedStep, FinalizeDiskRemoval, StoreNext, LockedCallStep
  <2>4. CASE CloseAdmission \/ DrainAndReleaseDisks
    BY <2>4, CallsFollowTheRules DEF CloseAdmission, StoreNext
  <2>5. CASE \E i \in IoThreads : LeaseStep(i)
    BY <2>5 DEF LeaseStep, StoreNext, IoStep
  <2> QED
    BY <1>1, <2>1, <2>2, <2>3, <2>4, <2>5 DEF LockedStep
<1>2. CASE UnlockedStep
  <2>1. CASE \E stopping \in BOOLEAN : HwAdapterControl(stopping)
    BY <2>1 DEF HwAdapterControl, StoreNext
  <2>2. CASE \E t \in Threads : CallUnlockedStep(t)
    BY <2>2 DEF CallUnlockedStep, StoreNext
  <2>3. CASE \E i \in IoThreads : CopyStep(i)
    BY <2>3 DEF CopyStep, StoreNext, IoStep
  <2>4. CASE WorkerUnlockedStep
    BY <2>4, CallsFollowTheRules
       DEF WorkerUnlockedStep, CompleteRequest, BusChangeDetected, ReleaseLunLock,
           WorkerReturns, Unwind
  <2>5. CASE \/ \E c \in Srbs : StartIoUnlockedStep(c)
             \/ WaitForIdle \/ ReleaseWorker
    BY <2>5 DEF StartIoUnlockedStep, QueueWorkItem, SubmitReturns,
       CompleteFailedSubmission, HandBack, WaitForIdle, ReleaseWorker
  <2> QED
    BY <1>2, <2>1, <2>2, <2>3, <2>4, <2>5, CallsFollowTheRules DEF UnlockedStep
<1>3. CASE UNCHANGED vars
  BY <1>3 DEF vars
<1> QED
  BY <1>1, <1>2, <1>3 DEF Next

-----------------------------------------------------------------------------
(***************************************************************************)
(* What the steps that write the operation table do to it.                 *)
(***************************************************************************)

\* A reserved command is accepted for an unused record of this adapter, which it binds.
LEMMA AcceptedRecord ==
  ASSUME TypeOK, Table, NEW c \in Srbs, NEW command \in MutationCommand,
         PrepareSubmission(c, command), command.reserved
  PROVE  LET s == FindOperation(command.operation) IN
           /\ s \in Slots /\ Operations[s].Id = command.operation /\ command.operation # 0
           /\ command.instance = AdapterInstance
           /\ Operations[s].State = "Reserved" /\ Operations[s].Mutation = command.mutation
           /\ Operations'[s] = Bound(Operations[s], command)
           /\ Operations'[s] \in Record
           /\ Operations'[s].Id = command.operation /\ Operations'[s].State = "Pending"
           /\ Operations'[s].Mutation = command.mutation
           /\ Operations'[s].Create = command.create /\ Operations'[s].Delete = command.delete
           /\ \A r \in Slots \ {s} : Operations'[r] = Operations[r]
<1> DEFINE s == FindOperation(command.operation)
           bound == Bound(Operations[s], command)
<1>1. BindStatus(command) = "ACCEPTED"
  BY DEF PrepareSubmission, SubmissionStatus, BeginManagement
<1>2. /\ Known(command.instance, command.operation)
      /\ Operations[s].Mutation = command.mutation /\ Operations[s].State = "Reserved"
  BY <1>1 DEF BindStatus, Unused
<1>3. PICK r \in Slots : command.operation # 0 /\ Operations[r].Id = command.operation
  BY <1>2 DEF Known, SlotsOf
<1>4. s = r
  BY <1>3, FindSlot
<1>5. Operations' = BindOperation(command)
  BY DEF PrepareSubmission
<1>6. /\ bound \in Record /\ bound.Id = Operations[s].Id
      /\ bound.Mutation = Operations[s].Mutation /\ bound.State = "Pending"
      /\ bound.Create = command.create /\ bound.Delete = command.delete
  <2>1. Operations[s] \in Record
    BY <1>3, <1>4 DEF TypeOK
  <2>2. command.create \in CreateOrNone /\ command.delete \in DeviceIds
    BY CommandFields
  <2> HIDE DEF s
  <2> QED
    BY <2>1, <2>2 DEF Record, OperationState, Bound, bound
<1> HIDE DEF bound
<1>7. Operations'[s] = bound /\ \A q \in Slots \ {s} : Operations'[q] = Operations[q]
  <2>1. s \in Slots /\ Operations \in [Slots -> Record]
    BY <1>3, <1>4 DEF TypeOK
  <2>2. \A q \in Slots \ {s} : Operations'[q] = Operations[q]
    BY <1>5, <2>1 DEF BindOperation
  <2>3. Operations'[s] = bound
    BY <1>5, <2>1 DEF BindOperation, bound
  <2> QED
    BY <2>2, <2>3
<1> QED
  BY <1>2, <1>3, <1>4, <1>6, <1>7 DEF Known, bound

-----------------------------------------------------------------------------
(***************************************************************************)
(* Type correctness.                                                       *)
(***************************************************************************)

\* The records that the worker leaves in the table and in the reply have their types.
LEMMA RecordTypes ==
  ASSUME TypeOK
  PROVE  /\ \A record \in Record : CopyResult(record) \in Result
         /\ \A id \in OperationIds, status \in Status :
              FailOperation(id, status) \in [Slots -> Record]
         /\ Outcome \in Record
<1>1. \A record \in Record : CopyResult(record) \in Result
  BY DEF Record, Result, CopyResult
<1>2. ASSUME NEW id \in OperationIds, NEW status \in Status, SlotsOf(id) # {}
      PROVE  FailOperation(id, status) \in [Slots -> Record]
  <2>1. FindOperation(id) \in Slots
    BY <1>2, FirstIsLeast, ManagementTypes DEF FindOperation, SlotsOf
  <2>2. [Operations[FindOperation(id)] EXCEPT !.State = "Failed", !.Result = status]
          \in Record
    <3>1. Operations[FindOperation(id)] \in Record
      BY <2>1 DEF TypeOK
    <3> QED
      BY <3>1 DEF Record, OperationState
  <2> QED
    BY <1>2, <2>1, <2>2 DEF FailOperation, TypeOK
<1>3. Outcome \in Record
  <2>1. call["worker"] \in Call /\ worker.snapshot \in Record
    BY DEF TypeOK, StoreTypeOK, Threads, Worker
  <2> QED
    BY <2>1 DEF Outcome, Record, Call, OperationState
<1> QED
  BY <1>1, <1>2, <1>3 DEF FailOperation, TypeOK

\* The worker's reply is written into its SRB.
LEMMA RespondTypes ==
  ASSUME TypeOK, worker.item \in Srbs, NEW code \in Status, NEW result \in Result,
         Respond(code, result)
  PROVE  /\ srb' \in [Srbs -> Srb]
         /\ \A c \in Srbs : /\ srb'[c].owner = srb[c].owner
                            /\ srb'[c].command = srb[c].command
                            /\ c # worker.item => srb'[c] = srb[c]
         /\ srb'[worker.item].ReturnCode = code /\ srb'[worker.item].result = result
<1> DEFINE status == IF worker.fault = "FailResponseTransport" /\ code = "SUCCESS"
                     THEN "ERROR" ELSE "SUCCESS"
           reply == [srb[worker.item] EXCEPT !.ReturnCode = code, !.SrbStatus = status,
                                             !.result = result]
<1>1. srb[worker.item] \in Srb
  BY DEF TypeOK
<1>2. srb' = [srb EXCEPT ![worker.item] = reply]
  BY <1>1 DEF Respond, TypeOK
<1>3. status \in {"SUCCESS", "PENDING", "ERROR"}
  OBVIOUS
<1> HIDE DEF status
<1>4. /\ reply \in Srb /\ reply.owner = srb[worker.item].owner
      /\ reply.command = srb[worker.item].command
      /\ reply.ReturnCode = code /\ reply.result = result
  BY <1>1, <1>3 DEF Srb
<1> HIDE DEF reply
<1> QED
  BY <1>2, <1>4 DEF TypeOK

\* Every step keeps the variables of the controller in their types.
LEMMA ManagementTypeStep ==
  ASSUME ManagementInv, StoreTypeOK', [Next]_vars
  PROVE  TypeOK'
<1> USE DEF ManagementInv
<1>0. ASSUME NEW pc \in WorkerPc
      PROVE  [worker EXCEPT !.pc = pc] \in Worker /\ [NoWork EXCEPT !.pc = pc] \in Worker
  BY <1>0, ManagementTypes DEF TypeOK, Worker
<1>1. ASSUME NEW mutation \in Mutations, ReserveOperation(mutation)
      PROVE  TypeOK'
  <2> DEFINE fresh == [NoRecord EXCEPT !.Id = NextOperationId, !.Mutation = mutation,
                                       !.State = "Reserved", !.Result = "PENDING"]
  <2>1. fresh \in Record
    BY ManagementTypes DEF TypeOK, Record, OperationState, Status
  <2>2. FollowingId(NextOperationId, OperationIdModulus) \in OperationIds
    <3>1. NextOperationId \in 0..(OperationIdModulus - 1)
      BY DEF TypeOK, OperationIds
    <3> QED
      BY <3>1, FollowingIdRange, ModulusAssumption DEF OperationIds
  <2> HIDE DEF fresh
  <2>3. \E selected : Operations' = [Operations EXCEPT ![selected] = fresh]
    BY <1>1 DEF ReserveOperation, fresh
  <2> QED
    BY <1>1, <2>1, <2>2, <2>3 DEF ReserveOperation, TypeOK
<1>2. ASSUME NEW c \in Srbs, NEW command \in MutationCommand, PrepareSubmission(c, command)
      PROVE  TypeOK'
  <2>1. [owner |-> "startIo", command |-> command, ReturnCode |-> "PENDING",
         SrbStatus |-> "PENDING", result |-> NoResult] \in Srb
    BY ManagementTypes DEF Srb, Status
  <2>2. command.reserved => Operations' \in [Slots -> Record]
    <3> SUFFICES ASSUME command.reserved
                 PROVE  Operations' \in [Slots -> Record]
      OBVIOUS
    <3>1. Operations' = BindOperation(command)
      BY <1>2 DEF PrepareSubmission
    <3> QED
      BY <1>2, <3>1, AcceptedRecord DEF BindOperation, TypeOK
  <2>3. Operations' \in [Slots -> Record]
    BY <1>2, <2>2 DEF PrepareSubmission, TypeOK
  <2> QED
    BY <1>2, <2>1, <2>3 DEF PrepareSubmission, TypeOK
<1>3. ASSUME NEW mode \in FaultModes, NEW count \in 0..MaximumFaultCount,
             ConfigureFault(mode, count)
      PROVE  TypeOK'
  BY <1>3, FaultAssumption DEF ConfigureFault, TypeOK
<1>4. ASSUME NEW c \in Srbs, QueueFails(c)
      PROVE  TypeOK'
  <2>1. srb[c].command.reserved => srb[c].command.operation \in OperationIds
    BY <1>4, CommandFields DEF QueueFails, Commands, Submitted
  <2>2. Operations' \in [Slots -> Record]
    BY <1>4, <2>1, RecordTypes DEF QueueFails, TypeOK, Status
  <2>3. [NoSubmission EXCEPT !.owner = "unlocking"] \in Srb
    BY ManagementTypes DEF Srb
  <2> QED
    BY <1>4, <2>2, <2>3 DEF QueueFails, EndManagement, TypeOK
<1>5. ASSUME NEW c \in Srbs, QueueWorkItem(c)
      PROVE  TypeOK'
  <2>1. [NoWork EXCEPT !.pc = "queued", !.item = c] \in Worker
    BY ManagementTypes DEF Worker, WorkerPc
  <2>2. [srb[c] EXCEPT !.owner = "worker"] \in Srb
    BY DEF TypeOK, Srb
  <2> QED
    BY <1>5, <2>1, <2>2 DEF QueueWorkItem, TypeOK
<1>19. ASSUME NEW c \in Srbs, SubmitReturns(c) \/ CompleteFailedSubmission(c)
       PROVE  TypeOK'
  <2>1. \A owner \in {"completing", "client"} : [NoSubmission EXCEPT !.owner = owner] \in Srb
    BY ManagementTypes DEF Srb
  <2> QED
    BY <1>19, <2>1 DEF SubmitReturns, CompleteFailedSubmission, HandBack, TypeOK
<1>6. CASE StartWorkItem
  <2> DEFINE taken == Command.reserved /\ fault.remaining # 0
  <2>1. [worker EXCEPT !.pc = "started", !.fault = IF taken THEN fault.mode ELSE "Disabled"]
          \in Worker
    BY DEF TypeOK, Worker, WorkerPc
  <2>2. [fault EXCEPT !.remaining = IF taken THEN @ - 1 ELSE @]
          \in [mode : FaultModes \cup {"Disabled"}, remaining : 0..MaximumFaultCount]
    BY FaultAssumption DEF TypeOK
  <2> QED
    BY <1>6, <2>1, <2>2 DEF StartWorkItem, TypeOK
<1>7. CASE RejectOperation
  <2>1. worker.item \in Srbs /\ Command.operation \in OperationIds
    BY <1>7, WorkerItem, CommandFields DEF RejectOperation, Working
  <2>2. /\ Operations' \in [Slots -> Record]
        /\ SlotsOf(Command.operation) # {} => FindOperation(Command.operation) \in Slots
    <3> DEFINE id == Command.operation
    <3>1. SlotsOf(id) # {} => FindOperation(id) \in Slots
      <4>1. SlotsOf(id) \subseteq Slots /\ Slots \subseteq Nat
        BY ManagementTypes DEF SlotsOf
      <4> QED
        BY <4>1, FirstIsLeast DEF FindOperation
    <3>2. "INSUFFICIENT_RESOURCES" \in Status
      BY DEF Status
    <3>3. Operations' \in [Slots -> Record]
      BY <1>7, <2>1, <3>2, RecordTypes DEF RejectOperation
    <3> QED
      BY <3>1, <3>3
  <2>3. \E code \in Status, result \in Result : Respond(code, result)
    <3>1. SlotsOf(Command.operation) # {} =>
            CopyResult(Operations'[FindOperation(Command.operation)]) \in Result
      BY <2>2, RecordTypes
    <3>2. "SUCCESS" \in Status /\ "NOT_FOUND" \in Status /\ NoResult \in Result
      BY ManagementTypes DEF Status
    <3> QED
      BY <1>7, <3>1, <3>2 DEF RejectOperation
  <2>4. srb' \in [Srbs -> Srb]
    BY <2>1, <2>3, RespondTypes
  <2> QED
    BY <1>7, <2>2, <2>4, <1>0 DEF RejectOperation, TypeOK, WorkerPc
<1>8. CASE SnapshotPendingOperation
  <2>1. worker.item \in Srbs /\ Command.reserved /\ worker.pc = "started"
    BY <1>8, WorkerItem DEF SnapshotPendingOperation, Working
  <2>2. "NOT_FOUND" \in Status /\ NoResult \in Result
    BY ManagementTypes DEF Status
  <2>3. srb' \in [Srbs -> Srb]
    BY <1>8, <2>1, <2>2, RespondTypes DEF SnapshotPendingOperation, TypeOK
  <2>4. worker' \in Worker
    <3>1. \A record \in Record : [worker EXCEPT !.pc = "running", !.snapshot = record] \in Worker
      BY DEF TypeOK, Worker, WorkerPc
    <3>2. Operations[FindOperation(Command.operation)] \in Record
      BY <2>1, RunningRecord DEF TypeOK
    <3> QED
      BY <1>0, <1>8, <3>1, <3>2 DEF SnapshotPendingOperation, WorkerPc
  <2> QED
    BY <1>8, <2>3, <2>4 DEF SnapshotPendingOperation, TypeOK
<1>9. CASE PublishOperationResult
  <2>1. worker.item \in Srbs
    BY <1>9, WorkerItem DEF PublishOperationResult, Working
  <2>2. /\ "SUCCESS" \in Status /\ "NOT_FOUND" \in Status /\ NoResult \in Result
        /\ CopyResult(Outcome) \in Result /\ Outcome \in Record
    BY RecordTypes, ManagementTypes DEF Status
  <2>3. srb' \in [Srbs -> Srb]
    BY <1>9, <2>1, <2>2, RespondTypes DEF PublishOperationResult
  <2> QED
    BY <1>0, <1>9, <2>2, <2>3 DEF PublishOperationResult, TypeOK, WorkerPc
<1>10. CASE WriteLegacyResponse
  <2>1. worker.item \in Srbs /\ call["worker"] \in Call
    BY <1>10, WorkerItem DEF WriteLegacyResponse, Working, TypeOK, StoreTypeOK, Threads
  <2>2. /\ call["worker"].status \in Status /\ NoResult \in Result
        /\ [NoResult EXCEPT !.deviceId = call["worker"].deviceId, !.lun = call["worker"].lun]
             \in Result
    BY <2>1, ManagementTypes DEF Call, Result
  <2>3. srb' \in [Srbs -> Srb]
    BY <1>10, <2>1, <2>2, RespondTypes DEF WriteLegacyResponse
  <2> QED
    BY <1>0, <1>10, <2>3 DEF WriteLegacyResponse, TypeOK, WorkerPc
<1>11. CASE ProcessLegacyRequest \/ FinishManagement \/ ReleaseLunLock \/ WorkerReturns
  BY <1>0, <1>11 DEF ProcessLegacyRequest, FinishManagement, EndManagement, ReleaseLunLock,
     WorkerReturns, Unwind, TypeOK, WorkerPc
<1>12. CASE CompleteRequest
  <2>1. BusChanged \in BOOLEAN
    BY DEF BusChanged
  <2>2. [worker EXCEPT !.pc = "notify", !.item = NoSrb, !.snapshot = NoRecord,
                       !.busChanged = BusChanged] \in Worker
    BY <2>1, ManagementTypes DEF TypeOK, Worker, WorkerPc
  <2> QED
    BY <1>12, <2>2, ManagementTypes DEF CompleteRequest, TypeOK
<1>13. CASE BusChangeDetected
  <2>1. OnlineDisks \in SUBSET (Luns \X DeviceIds)
    BY DEF OnlineDisks, LunsIn, TypeOK, StoreTypeOK, Lun
  <2>2. [worker EXCEPT !.pc = "end", !.busChanged = FALSE] \in Worker
    BY DEF TypeOK, Worker, WorkerPc
  <2> QED
    BY <1>13, <2>1, <2>2 DEF BusChangeDetected, TypeOK
<1>14. CASE MutatingStep
  <2>1. Command.reserved => Command.operation \in OperationIds
    <3>1. call["worker"].pc # "idle"
      BY <1>14 DEF MutatingStep, CommitNewLun, MarkLunStopping
    <3> QED
      BY <3>1, WorkerItem, CommandFields DEF WorkerCall, Working
  <2> QED
    BY <1>14, <2>1 DEF MutatingStep, CountEffect, TypeOK
<1>15. ASSUME NEW t \in Threads, FinalizeDiskRemoval(t)
      PROVE  TypeOK'
  <2>1. \A s \in Slots : [Operations[s] EXCEPT !.State = "Deleted"] \in Record
    BY DEF TypeOK, Record, OperationState
  <2>2. MarkCreatesDeleted(call[t].deviceId) \in [Slots -> Record]
    BY <2>1 DEF MarkCreatesDeleted, TypeOK
  <2> QED
    BY <1>15, <2>2 DEF FinalizeDiskRemoval, TypeOK
<1>16. CASE Initialize
  <2>1. AdapterInstance + 1 \in Instances
    BY <1>16, InstanceAssumption DEF Initialize, TypeOK, Instances
  <2>2. /\ Operations' \in [Slots -> Record] /\ NextOperationId' \in OperationIds
        /\ effects' \in [OperationIds -> Nat]
    BY <1>16, ManagementTypes DEF Initialize
  <2>3. fault' \in [mode : FaultModes \cup {"Disabled"}, remaining : 0..MaximumFaultCount]
    BY <1>16, ManagementTypes DEF Initialize
  <2> QED
    BY <1>16, <2>1, <2>2, <2>3 DEF Initialize, TypeOK, TeardownPc
<1>17. CASE \/ CloseAdmission \/ DrainAndReleaseDisks \/ WaitForIdle \/ DrainReturns
            \/ ReleaseWorker
  BY <1>17 DEF CloseAdmission, DrainAndReleaseDisks, WaitForIdle, DrainReturns,
     ReleaseWorker, TeardownMove, TypeOK, TeardownPc
<1>18. CASE UNCHANGED managementVars
  BY <1>18 DEF managementVars, TypeOK
<1> QED
  BY <1>1, <1>2, <1>3, <1>4, <1>5, <1>6, <1>7, <1>8, <1>9, <1>10, <1>11, <1>12, <1>13,
     <1>14, <1>15, <1>16, <1>17, <1>18, <1>19
     DEF Next, LockedStep, UnlockedStep, StartIoUnlockedStep, ClientStep, WorkerLockedStep, WorkerUnlockedStep,
         PlainLockedStep, LeaseStep, CallUnlockedStep, CopyStep, HwAdapterControl, vars

-----------------------------------------------------------------------------
(***************************************************************************)
(* Ownership of the SRBs, and the commands in them.                        *)
(***************************************************************************)
\* The SRBs keep their owners and their commands.
SrbsKeepOwners ==
  \A c \in Srbs : srb'[c].owner = srb[c].owner /\ srb'[c].command = srb[c].command

\* The steps between the start of a work item and its completion.
WorkStep ==
  \/ StartWorkItem \/ RejectOperation \/ SnapshotPendingOperation \/ ProcessLegacyRequest
  \/ PublishOperationResult \/ WriteLegacyResponse

\* They move the worker along and write replies, and leave admission and teardown alone.
LEMMA WorkSteps ==
  ASSUME ManagementInv, WorkStep
  PROVE  /\ SrbsKeepOwners
         /\ worker.pc \in Working /\ worker'.pc \in Working /\ worker'.item = worker.item
         /\ Command' = Command
         /\ UNCHANGED <<AdapterInstance, NextOperationId, ManagementBusy, ManagementIdle,
                        AdapterStopping, NextDeviceId, teardown, announced, effects>>
<1> USE DEF ManagementInv
<1>1. /\ worker.pc \in Working
      /\ UNCHANGED <<AdapterInstance, NextOperationId, ManagementBusy, ManagementIdle,
                     AdapterStopping, NextDeviceId, teardown, announced, effects>>
  BY DEF WorkStep, StartWorkItem, RejectOperation, SnapshotPendingOperation,
     ProcessLegacyRequest, PublishOperationResult, WriteLegacyResponse, Working, storeVars
<1>2. worker'.pc \in Working /\ worker'.item = worker.item
  BY DEF WorkStep, StartWorkItem, RejectOperation, SnapshotPendingOperation,
     ProcessLegacyRequest, PublishOperationResult, WriteLegacyResponse, Working, TypeOK, Worker
<1>3. worker.item \in Srbs
  BY <1>1, WorkerItem
<1>4. SrbsKeepOwners
  <2>1. ASSUME NEW code, NEW result, Respond(code, result)
        PROVE  SrbsKeepOwners
    BY <2>1, <1>3 DEF Respond, SrbsKeepOwners, TypeOK, Srb
  <2>2. CASE UNCHANGED srb
    BY <2>2 DEF SrbsKeepOwners
  <2> QED
    BY <2>1, <2>2 DEF WorkStep, StartWorkItem, RejectOperation, SnapshotPendingOperation,
       ProcessLegacyRequest, PublishOperationResult, WriteLegacyResponse
<1>5. Command' = Command
  BY <1>2, <1>3, <1>4 DEF Command, SrbsKeepOwners
<1> QED
  BY <1>1, <1>2, <1>4, <1>5

\* StartIo on its way back from a failed queueing: it changes that SRB only, which is no
\* longer submitted and is not the worker's.
HandBackStep == \E c \in Srbs : SubmitReturns(c) \/ CompleteFailedSubmission(c)

LEMMA HandBackSteps ==
  ASSUME ManagementInv, HandBackStep
  PROVE  /\ UNCHANGED <<storeVars, AdapterInstance, Operations, NextOperationId,
                        ManagementBusy, ManagementIdle, worker, teardown, fault, announced,
                        effects>>
         /\ \A d \in Srbs :
              /\ Submitted(d)' <=> Submitted(d)
              /\ Submitted(d) => srb'[d] = srb[d]
              /\ srb'[d].owner # "unlocking" \/ srb'[d] = srb[d]
         /\ worker.pc \in Working =>
              srb'[worker.item] = srb[worker.item] /\ Command' = Command
<1>1. PICK c \in Srbs : SubmitReturns(c) \/ CompleteFailedSubmission(c)
  BY DEF HandBackStep
<1>2. /\ srb[c].owner \in {"unlocking", "completing"}
      /\ srb'[c].owner \in {"completing", "client"}
      /\ \A d \in Srbs \ {c} : srb'[d] = srb[d]
      /\ UNCHANGED <<storeVars, AdapterInstance, Operations, NextOperationId, ManagementBusy,
                     ManagementIdle, worker, teardown, fault, announced, effects>>
  BY <1>1 DEF SubmitReturns, CompleteFailedSubmission, HandBack, NoSubmission, ManagementInv,
     TypeOK
<1>3. worker.pc \in Working => worker.item \in Srbs /\ worker.item # c
  BY <1>2 DEF ManagementInv, Ownership
<1> QED
  BY <1>2, <1>3 DEF Submitted, Command

\* The steps that neither Ownership nor Commands speaks of: they change no SRB, not where
\* the worker is, and nothing of admission.
QuietStep ==
  /\ UNCHANGED <<AdapterInstance, NextOperationId, ManagementBusy, ManagementIdle, srb, worker>>

\* They are the steps of clients that arm faults, of calls, of I/O, of stop and of teardown.
LEMMA QuietSteps ==
  ASSUME \/ \E mode \in FaultModes, count \in 0..MaximumFaultCount : ConfigureFault(mode, count)
         \/ MutatingStep \/ (\E t \in Threads : PlainLockedStep(t) \/ FinalizeDiskRemoval(t))
         \/ CloseAdmission \/ DrainAndReleaseDisks \/ (\E i \in IoThreads : LeaseStep(i))
         \/ (\E stopping \in BOOLEAN : HwAdapterControl(stopping))
         \/ (\E t \in Threads : CallUnlockedStep(t)) \/ (\E i \in IoThreads : CopyStep(i))
         \/ WaitForIdle \/ DrainReturns \/ ReleaseWorker
  PROVE  QuietStep
  BY DEF QuietStep, ConfigureFault, MutatingStep, PlainLockedStep, FinalizeDiskRemoval,
     CloseAdmission, DrainAndReleaseDisks, LeaseStep, HwAdapterControl, CallUnlockedStep,
     CopyStep, WaitForIdle, DrainReturns, ReleaseWorker, TeardownMove, managementVars

\* A step is one that moves an SRB, the worker or the adapter, or a quiet one.
LEMMA StepCases ==
  ASSUME [Next]_vars
  PROVE  \/ (\E mutation \in Mutations : LunLockFree /\ ReserveOperation(mutation))
         \/ (\E c \in Srbs, command \in MutationCommand :
               LunLockFree /\ PrepareSubmission(c, command))
         \/ (\E c \in Srbs : (LunLockFree /\ QueueFails(c)) \/ QueueWorkItem(c))
         \/ HandBackStep
         \/ WorkStep \/ CompleteRequest \/ BusChangeDetected
         \/ FinishManagement \/ ReleaseLunLock \/ WorkerReturns \/ Initialize
         \/ QuietStep
<1>1. CASE LunLockFree /\ LockedStep
  BY <1>1, QuietSteps DEF LockedStep, ClientStep, WorkerLockedStep, WorkStep
<1>2. CASE UnlockedStep
  BY <1>2, QuietSteps DEF UnlockedStep, StartIoUnlockedStep, HandBackStep,
     WorkerUnlockedStep, WorkStep
<1>3. CASE UNCHANGED vars
  BY <1>3 DEF vars, managementVars, QuietStep
<1> QED
  BY <1>1, <1>2, <1>3 DEF Next

\* Admission, hand-over, completion and the end of management keep Ownership.
LEMMA OwnershipStep ==
  ASSUME ManagementInv, [Next]_vars
  PROVE  Ownership'
<1> USE DEF ManagementInv, Submitted
<1>1. CASE QuietStep
  BY <1>1 DEF QuietStep, Ownership
<1>2. CASE WorkStep
  <2>1. \A c \in Srbs : srb'[c].owner = srb[c].owner
    BY <1>2, WorkSteps DEF SrbsKeepOwners
  <2> QED
    BY <1>2, <2>1, WorkSteps DEF Ownership, Working
<1>3. ASSUME NEW mutation \in Mutations, ReserveOperation(mutation)
      PROVE  Ownership'
  BY <1>3 DEF ReserveOperation, Ownership
<1>4. ASSUME NEW c \in Srbs, NEW command \in MutationCommand,
             LunLockFree, PrepareSubmission(c, command)
      PROVE  Ownership'
  <2>1. /\ ~ManagementBusy /\ ManagementBusy' = TRUE /\ ManagementIdle' = FALSE
        /\ UNCHANGED worker
    BY <1>4 DEF PrepareSubmission, SubmissionStatus, BeginManagement
  <2>2. srb'[c].owner = "startIo" /\ \A d \in Srbs \ {c} : srb'[d] = srb[d]
    BY <1>4 DEF PrepareSubmission, TypeOK
  <2>3. \A d \in Srbs : ~Submitted(d)
    BY <2>1 DEF Ownership
  <2>4. worker.pc \in {"none", "unwinding"}
    BY <1>4, <2>1, <2>3 DEF Ownership, LunLockFree, TypeOK, Worker, WorkerPc, Working
  <2> QED
    BY <2>1, <2>2, <2>3, <2>4 DEF Ownership, Working
<1>5. ASSUME NEW c \in Srbs, QueueFails(c)
      PROVE  Ownership'
  <2>1. /\ srb[c].owner = "startIo" /\ UNCHANGED worker
        /\ ManagementBusy' = FALSE /\ ManagementIdle' = TRUE
    BY <1>5 DEF QueueFails, EndManagement
  <2>2. srb'[c].owner = "unlocking" /\ \A d \in Srbs \ {c} : srb'[d] = srb[d]
    BY <1>5 DEF QueueFails, TypeOK, NoSubmission
  <2>3. worker.pc \in {"none", "unwinding"} /\ \A d \in Srbs \ {c} : ~Submitted(d)
    BY <2>1 DEF Ownership
  <2> QED
    BY <2>1, <2>2, <2>3 DEF Ownership, Working
<1>6. ASSUME NEW c \in Srbs, QueueWorkItem(c)
      PROVE  Ownership'
  <2>1. /\ srb[c].owner = "startIo" /\ UNCHANGED <<ManagementBusy, ManagementIdle>>
        /\ worker'.pc = "queued" /\ worker'.item = c
    BY <1>6 DEF QueueWorkItem, NoWork
  <2>2. srb'[c].owner = "worker" /\ \A d \in Srbs \ {c} : srb'[d] = srb[d]
    BY <1>6 DEF QueueWorkItem, TypeOK, Srb
  <2>3. ManagementBusy /\ \A d \in Srbs \ {c} : ~Submitted(d)
    BY <2>1 DEF Ownership
  <2> QED
    BY <2>1, <2>2, <2>3 DEF Ownership, Working
<1>7. CASE CompleteRequest
  <2>1. /\ worker.pc = "complete" /\ UNCHANGED <<ManagementBusy, ManagementIdle>>
        /\ worker'.pc = "notify" /\ worker'.item = NoSrb
    BY <1>7 DEF CompleteRequest, TypeOK, Worker
  <2>2. /\ worker.item \in Srbs /\ ManagementBusy
        /\ \A d \in Srbs \ {worker.item} : ~Submitted(d)
    BY <2>1, WorkerItem DEF Working
  <2>3. \A d \in Srbs : ~Submitted(d)'
    BY <1>7, <2>2 DEF CompleteRequest, TypeOK, NoSubmission
  <2> QED
    BY <2>1, <2>2, <2>3 DEF Ownership, Working
<1>8. CASE BusChangeDetected
  BY <1>8 DEF BusChangeDetected, Ownership, TypeOK, Worker, Working
<1>9. CASE FinishManagement
  BY <1>9 DEF FinishManagement, EndManagement, Ownership, TypeOK, Worker, Working
<1>10. CASE ReleaseLunLock \/ WorkerReturns
  BY <1>10 DEF ReleaseLunLock, WorkerReturns, Unwind, Ownership, NoWork, Working
<1>11. CASE Initialize
  <2>1. teardown = "released" /\ ~ManagementBusy
    BY <1>11 DEF Initialize, TeardownOrder, Drain
  <2> QED
    BY <1>11, <2>1 DEF Initialize, Ownership
<1>12. CASE HandBackStep
  <2>1. /\ \A d \in Srbs : Submitted(d) \/ Submitted(d)' => srb'[d] = srb[d]
        /\ UNCHANGED <<worker, ManagementBusy, ManagementIdle>>
    BY <1>12, HandBackSteps
  <2> QED
    BY <2>1 DEF Ownership
<1> QED
  BY <1>1, <1>2, <1>3, <1>4, <1>5, <1>6, <1>7, <1>8, <1>9, <1>10, <1>11, <1>12, StepCases

\* A submission keeps its validated command until it is completed.
LEMMA CommandsStep ==
  ASSUME ManagementInv, [Next]_vars
  PROVE  Commands'
<1> USE DEF ManagementInv, Submitted
<1>1. CASE QuietStep
  BY <1>1 DEF QuietStep, Commands
<1>2. CASE WorkStep
  BY <1>2, WorkSteps DEF SrbsKeepOwners, Commands
<1>3. ASSUME NEW mutation \in Mutations, ReserveOperation(mutation)
      PROVE  Commands'
  BY <1>3 DEF ReserveOperation, Commands
<1>4. ASSUME NEW c \in Srbs, NEW command \in MutationCommand, PrepareSubmission(c, command)
      PROVE  Commands'
  <2>1. /\ srb'[c].command = command /\ UNCHANGED AdapterInstance
        /\ \A d \in Srbs \ {c} : srb'[d] = srb[d]
    BY <1>4 DEF PrepareSubmission, TypeOK
  <2>2. command.reserved => command.instance = AdapterInstance /\ command.operation # 0
    BY <1>4, AcceptedRecord
  <2> QED
    BY <2>1, <2>2 DEF Commands
<1>5. ASSUME NEW c \in Srbs, QueueFails(c)
      PROVE  Commands'
  BY <1>5 DEF QueueFails, TypeOK, NoSubmission, Commands
<1>6. ASSUME NEW c \in Srbs, QueueWorkItem(c)
      PROVE  Commands'
  <2>1. \A d \in Srbs : srb'[d].command = srb[d].command /\ (d # c => srb'[d] = srb[d])
    BY <1>6 DEF QueueWorkItem, TypeOK, Srb
  <2> QED
    BY <1>6, <2>1 DEF QueueWorkItem, Commands
<1>7. CASE CompleteRequest
  BY <1>7 DEF CompleteRequest, TypeOK, NoSubmission, Commands
<1>8. CASE BusChangeDetected \/ FinishManagement \/ ReleaseLunLock \/ WorkerReturns
  BY <1>8 DEF BusChangeDetected, FinishManagement, ReleaseLunLock, WorkerReturns, Unwind,
     Commands
<1>9. CASE Initialize
  <2>1. \A c \in Srbs : ~Submitted(c)
    BY <1>9 DEF Initialize, TeardownOrder, Drain, Ownership
  <2> QED
    BY <1>9, <2>1 DEF Initialize, Commands
<1>10. CASE HandBackStep
  <2>1. /\ \A d \in Srbs : Submitted(d)' => srb'[d] = srb[d]
        /\ UNCHANGED AdapterInstance
    BY <1>10, HandBackSteps
  <2> QED
    BY <2>1 DEF Commands
<1> QED
  BY <1>1, <1>2, <1>3, <1>4, <1>5, <1>6, <1>7, <1>8, <1>9, <1>10, StepCases

\* Where a call is in progress, and for whom.
LEMMA WhoCalls ==
  ASSUME ManagementInv, NEW t \in Threads, StoreCall(t)
  PROVE  /\ t = "worker" =>
              worker.pc = "running" /\ teardown \in {"up", "waitIdle"}
         /\ t = "teardown" =>
              /\ teardown = "drain" /\ ~ManagementBusy /\ worker.pc \notin Working
              /\ call["worker"].pc = "idle"
              /\ call["teardown"].pc \in {"markAll", "first", "wait", "detach", "free",
                                          "finalize"}
<1> USE DEF ManagementInv
<1>1. call[t].pc \notin {"idle", "returned"}
  BY CallFrame DEF TypeOK
<1>2. ASSUME t = "worker"
      PROVE  worker.pc = "running" /\ teardown \in {"up", "waitIdle"}
  BY <1>1, <1>2, WorkerItem DEF WorkerCall, Working
<1>3. ASSUME t = "teardown"
      PROVE  /\ teardown = "drain" /\ ~ManagementBusy /\ worker.pc \notin Working
             /\ call["worker"].pc = "idle"
             /\ call["teardown"].pc \in {"markAll", "first", "wait", "detach", "free",
                                         "finalize"}
  <2>1. teardown = "drain" /\ ~ManagementBusy
    BY <1>1, <1>3 DEF TeardownOrder, Drain
  <2>2. worker.pc \notin Working
    BY <2>1, WorkerItem
  <2>3. call["worker"].pc = "idle"
    BY <2>2 DEF WorkerCall, Working
  <2>4. call["teardown"].pc \in CallPc
    BY DEF TypeOK, StoreTypeOK, Threads, Call
  <2> QED
    BY <1>1, <1>3, <2>1, <2>2, <2>3, <2>4 DEF CallPc, TeardownOrder, Drain
<1> QED
  BY <1>2, <1>3

\* The steps of a call that leave every disk what it is.
LookStep(t) ==
  /\ \/ SelectAvailableLun(t) \/ AllocateBacking(t) \/ AllocateFails(t)
     \/ CommitFails(t) \/ MarkUnknownDisk(t) \/ FirstStoppingLun(t)
     \/ WaitForLunIo(t) \/ DetachBackingStore(t) \/ FreeBacking(t)
  /\ UNCHANGED managementVars

\* The steps outside calls that do: teardown's own, I/O, stop and restart.
StillStep ==
  /\ UNCHANGED <<AdapterInstance, Operations, NextOperationId, ManagementBusy,
                 ManagementIdle, srb, worker, announced, effects, NextDeviceId>>
  /\ call'["worker"] = call["worker"]
  /\ \A l \in Luns : SameIdentity(l)

\* The steps that make, mark or remove disks.
CommitDisk == CommitNewLun("worker") /\ MutatingStep
MarkDisk == MarkLunStopping("worker") /\ MutatingStep
MarkAllDisks == MarkAllLunsStopping("teardown") /\ UNCHANGED managementVars

\* A quiet step is one of those.
QuietKinds ==
  \/ StillStep
  \/ \E t \in Threads : LookStep(t) \/ FinalizeDiskRemoval(t)
  \/ CommitDisk \/ MarkDisk \/ MarkAllDisks

\* Each of the steps outside calls leaves the disks and the worker's call as they are.
LEMMA StillSteps ==
  ASSUME ManagementInv,
         \/ \E mode \in FaultModes, count \in 0..MaximumFaultCount : ConfigureFault(mode, count)
         \/ CloseAdmission \/ DrainAndReleaseDisks \/ (\E i \in IoThreads : LeaseStep(i))
         \/ (\E stopping \in BOOLEAN : HwAdapterControl(stopping))
         \/ (\E i \in IoThreads : CopyStep(i))
         \/ WaitForIdle \/ DrainReturns \/ ReleaseWorker \/ UNCHANGED vars
  PROVE  StillStep
<1> USE DEF ManagementInv
<1>1. CASE \/ \E mode \in FaultModes, count \in 0..MaximumFaultCount : ConfigureFault(mode, count)
           \/ WaitForIdle \/ ReleaseWorker \/ UNCHANGED vars
  BY <1>1 DEF ConfigureFault, WaitForIdle, ReleaseWorker, TeardownMove, StillStep,
     storeVars, SameIdentity, vars, managementVars
<1>2. CASE CloseAdmission \/ \E stopping \in BOOLEAN : HwAdapterControl(stopping)
  BY <1>2 DEF CloseAdmission, HwAdapterControl, SetStopping, TeardownMove, StillStep,
     SameIdentity, managementVars
<1>3. CASE DrainAndReleaseDisks \/ DrainReturns
  <2>1. \E locals : Advance("teardown", locals)
    BY <1>3 DEF DrainAndReleaseDisks, DrainReturns, BeginDrain, Enter, Collect
  <2>2. call'["worker"] = call["worker"]
    BY <2>1 DEF Advance, TypeOK, StoreTypeOK, Threads
  <2> QED
    BY <1>3, <2>2 DEF DrainAndReleaseDisks, DrainReturns, TeardownMove, StillStep,
       SameIdentity
<1>4. CASE \E i \in IoThreads : LeaseStep(i) \/ CopyStep(i)
  <2>1. \E i \in IoThreads : IoStep(i) /\ UNCHANGED managementVars
    BY <1>4 DEF LeaseStep, CopyStep, IoStep
  <2>2. UNCHANGED call
    BY <2>1 DEF IoStep, AcquireLunIo, WriteBacking, ReleaseLunIo
  <2>3. UNCHANGED NextDeviceId /\ \A l \in Luns : SameIdentity(l)
    BY <2>1, IdentitiesKept DEF TypeOK
  <2> QED
    BY <2>1, <2>2, <2>3 DEF StillStep, managementVars
<1> QED
  BY <1>1, <1>2, <1>3, <1>4

\* Every step, by what it does to the disks and to the work in progress.
LEMMA StepKinds ==
  ASSUME ManagementInv, [Next]_vars
  PROVE  \/ (\E mutation \in Mutations : ReserveOperation(mutation))
         \/ (\E c \in Srbs, command \in MutationCommand :
               LunLockFree /\ PrepareSubmission(c, command))
         \/ (\E c \in Srbs : QueueFails(c) \/ QueueWorkItem(c)) \/ HandBackStep
         \/ WorkStep \/ CompleteRequest \/ BusChangeDetected
         \/ FinishManagement \/ ReleaseLunLock \/ WorkerReturns \/ Initialize
         \/ QuietKinds
<1>1. ASSUME NEW t \in Threads, PlainLockedStep(t)
      PROVE  LookStep(t) \/ MarkAllDisks
  <2>1. CASE MarkAllLunsStopping(t)
    <3>1. call[t].pc = "markAll" /\ StoreCall(t)
      BY <2>1 DEF MarkAllLunsStopping, StoreCall, LockedCallStep
    <3>2. t # "worker"
      BY <3>1, WhoCalls, WorkerItem, CommandFields
         DEF ManagementInv, WorkerCall, Working, Mutations
    <3> QED
      BY <1>1, <2>1, <3>2 DEF PlainLockedStep, MarkAllDisks, Threads
  <2> QED
    BY <1>1, <2>1 DEF PlainLockedStep, LookStep
<1>2. ASSUME NEW t \in Threads, CallUnlockedStep(t)
      PROVE  LookStep(t)
  BY <1>2 DEF CallUnlockedStep, UnlockedCallStep, LookStep
<1>3. MutatingStep => CommitDisk \/ MarkDisk
  BY DEF MutatingStep, CommitDisk, MarkDisk
<1>4. CASE LunLockFree /\ LockedStep
  BY <1>1, <1>3, <1>4, StillSteps DEF LockedStep, ClientStep, WorkerLockedStep, WorkStep, QuietKinds
<1>5. CASE UnlockedStep
  BY <1>2, <1>5, StillSteps DEF UnlockedStep, StartIoUnlockedStep, HandBackStep,
     WorkerUnlockedStep, WorkStep, QuietKinds
<1>6. CASE UNCHANGED vars
  BY <1>6, StillSteps DEF QuietKinds
<1> QED
  BY <1>4, <1>5, <1>6 DEF Next

\* A look is a step of a call: it keeps the disks and moves its thread only.
LEMMA LookSteps ==
  ASSUME ManagementInv, NEW t \in Threads, LookStep(t)
  PROVE  /\ StoreCall(t) /\ UNCHANGED managementVars
         /\ UNCHANGED NextDeviceId /\ \A l \in Luns : SameIdentity(l)
         /\ t = "teardown" => call'["worker"] = call["worker"]
         /\ t = "worker" =>
              /\ call'["worker"].request = call["worker"].request
              /\ call'["worker"].pc # "idle" /\ call["worker"].pc \notin {"idle", "returned"}
              /\ call["worker"].pc \in {"select", "allocate", "commit"} =>
                   \/ call'["worker"].pc \in {"allocate", "commit"}
                   \/ call'["worker"].pc = "returned" /\ call'["worker"].status # "SUCCESS"
              /\ call["worker"].pc = "mark" =>
                   call'["worker"].pc = "returned" /\ call'["worker"].status # "SUCCESS"
              /\ call["worker"].pc \in {"wait", "detach", "free", "finalize"} =>
                   call'["worker"].pc \in {"detach", "free", "finalize"}
<1> USE DEF ManagementInv
<1>1. StoreCall(t) /\ UNCHANGED managementVars
  BY DEF LookStep, StoreCall, LockedCallStep, UnlockedCallStep
<1>2. UNCHANGED NextDeviceId /\ \A l \in Luns : SameIdentity(l)
  BY IdentitiesKept DEF LookStep, TypeOK
<1>3. /\ call[t].pc \notin {"idle", "returned"} /\ call'[t].pc # "idle"
      /\ call'[t].request = call[t].request
      /\ \A u \in Threads \ {t} : call'[u] = call[u]
  BY <1>1, CallFrame DEF TypeOK
<1>4. /\ call[t].pc \in {"select", "allocate", "commit"} =>
           \/ call'[t].pc \in {"allocate", "commit"}
           \/ call'[t].pc = "returned" /\ call'[t].status # "SUCCESS"
      /\ call[t].pc = "mark" => call'[t].pc = "returned" /\ call'[t].status # "SUCCESS"
      /\ call[t].pc \in {"wait", "detach", "free", "finalize"} =>
           call'[t].pc \in {"detach", "free", "finalize"}
  BY CallMoves DEF LookStep, TypeOK, Moves, Fails, Succeeds
<1> QED
  BY <1>1, <1>2, <1>3, <1>4 DEF Threads

-----------------------------------------------------------------------------
(***************************************************************************)
(* Device IDs that are gone, and the worker's call.                        *)
(***************************************************************************)

\* Removing a disk makes its ID one that is gone.
LEMMA RemovedIsGone ==
  ASSUME StoreInv, NEW t \in Threads, FinalizeRemoval(t)
  PROVE  Gone(call[t].deviceId)'
<1> DEFINE l == call[t].lun
<1>1. /\ l \in Luns /\ luns[l].State = "Stopping" /\ luns[l].DeviceId = call[t].deviceId
      /\ luns'[l].State = "Empty" /\ \A k \in Luns \ {l} : luns'[k] = luns[k]
      /\ UNCHANGED NextDeviceId /\ call'[t].deviceId = call[t].deviceId
  BY IdentityChanges
<1> HIDE DEF l
<1> QED
  BY <1>1 DEF StoreInv, DeviceIdsUnique, Gone, DeviceIdIssued

\* An ID that is gone stays gone as long as the adapter lives.
LEMMA GoneStays ==
  ASSUME ManagementInv, [Next]_vars, ~Initialize, NEW d \in DeviceIds, Gone(d)
  PROVE  /\ NextDeviceId' = 0 \/ d < NextDeviceId'
         /\ \A l \in Luns : luns'[l].State # "Empty" => luns'[l].DeviceId # d
<1> USE DEF ManagementInv, Gone, DeviceIdIssued
<1>0. /\ NextDeviceId \in DeviceIds /\ DeviceIds \subseteq Nat /\ StoreInv
      /\ luns \in [Luns -> Lun]
  BY ModulusAssumption DEF TypeOK, StoreTypeOK, DeviceIds
<1>1. ASSUME UNCHANGED NextDeviceId, \A l \in Luns : SameIdentity(l)
      PROVE  /\ NextDeviceId' = 0 \/ d < NextDeviceId'
             /\ \A l \in Luns : luns'[l].State # "Empty" => luns'[l].DeviceId # d
  BY <1>1 DEF SameIdentity
<1>2. CASE StillStep
  BY <1>1, <1>2 DEF StillStep
<1>3. ASSUME NEW t \in Threads, LookStep(t)
      PROVE  /\ NextDeviceId' = 0 \/ d < NextDeviceId'
             /\ \A l \in Luns : luns'[l].State # "Empty" => luns'[l].DeviceId # d
  BY <1>1, <1>3, LookSteps
<1>4. CASE CommitDisk
  <2> DEFINE k == call["worker"].lun
  <2>1. /\ NextDeviceId # 0 /\ luns'[k].DeviceId = NextDeviceId
        /\ \A l \in Luns \ {k} : luns'[l] = luns[l]
        /\ NextDeviceId' = IF NextDeviceId + 1 = DeviceIdModulus THEN 0
                           ELSE NextDeviceId + 1
    BY <1>0, <1>4, IdentityChanges DEF CommitDisk, Threads
  <2> HIDE DEF k
  <2>2. d \in Nat /\ NextDeviceId \in Nat /\ d < NextDeviceId
    BY <1>0, <2>1
  <2>3. NextDeviceId' = 0 \/ d < NextDeviceId'
    <3> HIDE DEF Gone, ManagementInv
    <3> QED  BY <2>1, <2>2
  <2>4. ASSUME NEW l \in Luns, luns'[l].State # "Empty"
        PROVE  luns'[l].DeviceId # d
    <3>1. CASE l = k
      BY <2>1, <2>2, <3>1
    <3> QED
      BY <2>1, <2>4, <3>1
  <2> QED
    BY <2>3, <2>4
<1>5. CASE MarkDisk
  <2>1. PICK k \in Luns : /\ luns'[k].DeviceId = luns[k].DeviceId /\ luns[k].State = "Online"
                          /\ \A l \in Luns \ {k} : luns'[l] = luns[l]
                          /\ UNCHANGED NextDeviceId
    BY <1>0, <1>5, IdentityChanges DEF MarkDisk, Threads
  <2> QED
    BY <2>1
<1>6. CASE MarkAllDisks
  <2>1. /\ UNCHANGED NextDeviceId
        /\ \A l \in Luns : /\ luns'[l].DeviceId = luns[l].DeviceId
                           /\ luns'[l].State # "Empty" => luns[l].State # "Empty"
    BY <1>0, <1>6, IdentityChanges DEF MarkAllDisks, Threads
  <2> QED
    BY <2>1
<1>7. ASSUME NEW t \in Threads, FinalizeDiskRemoval(t)
      PROVE  /\ NextDeviceId' = 0 \/ d < NextDeviceId'
             /\ \A l \in Luns : luns'[l].State # "Empty" => luns'[l].DeviceId # d
  <2> DEFINE k == call[t].lun
  <2>1. /\ luns'[k].State = "Empty" /\ \A l \in Luns \ {k} : luns'[l] = luns[l]
        /\ UNCHANGED NextDeviceId
    BY <1>0, <1>7, IdentityChanges DEF FinalizeDiskRemoval
  <2> HIDE DEF k
  <2> QED
    BY <2>1
<1>8. CASE PublishOperationResult
  <2>1. \/ UNCHANGED luns
        \/ \E l, operation : luns' = [luns EXCEPT ![l].CreateOperationId = operation]
    BY <1>8 DEF PublishOperationResult, BindCreateOperation
  <2>2. \A l \in Luns : luns'[l].State = luns[l].State /\ luns'[l].DeviceId = luns[l].DeviceId
    BY <1>0, <2>1 DEF Lun
  <2> QED
    BY <1>8, <2>2 DEF PublishOperationResult
<1>9. CASE \/ StartWorkItem \/ RejectOperation \/ SnapshotPendingOperation
           \/ ProcessLegacyRequest \/ WriteLegacyResponse
  <2>1. UNCHANGED <<luns, NextDeviceId>>
    BY <1>9 DEF StartWorkItem, RejectOperation, SnapshotPendingOperation,
       ProcessLegacyRequest, WriteLegacyResponse, storeVars
  <2> QED
    BY <2>1
<1>10. CASE \/ \E mutation \in Mutations : ReserveOperation(mutation)
            \/ \E c \in Srbs, command \in MutationCommand : PrepareSubmission(c, command)
            \/ \E c \in Srbs : QueueFails(c) \/ QueueWorkItem(c)
            \/ HandBackStep \/ CompleteRequest \/ BusChangeDetected \/ FinishManagement
            \/ ReleaseLunLock \/ WorkerReturns
  <2>1. UNCHANGED <<luns, NextDeviceId>>
    BY <1>10, HandBackSteps DEF ReserveOperation, PrepareSubmission, QueueFails, QueueWorkItem,
       CompleteRequest, BusChangeDetected, FinishManagement, ReleaseLunLock,
       WorkerReturns, Unwind, storeVars
  <2> QED
    BY <2>1
<1> QED
  BY <1>2, <1>3, <1>4, <1>5, <1>6, <1>7, <1>8, <1>9, <1>10, StepKinds DEF QuietKinds, WorkStep

\* What BeginCreate and BeginDelete leave in the worker's locals.
LEMMA CallBegins ==
  ASSUME StoreTypeOK
  PROVE  /\ \A request : BeginCreate("worker", request) =>
              /\ call'["worker"].pc = "select" /\ call'["worker"].request = request
         /\ \A deviceId : BeginDelete("worker", deviceId) =>
              /\ call'["worker"].pc = "mark" /\ call'["worker"].request = NoCreate
         /\ Collect("worker") => call'["worker"].pc = "idle"
         /\ (\E request : BeginCreate("worker", request)) \/ Collect("worker")
              \/ (\E deviceId : BeginDelete("worker", deviceId)) =>
                  call'["teardown"] = call["teardown"]
<1> USE DEF StoreTypeOK, Advance, NoCall, Threads
<1>1. ASSUME NEW request, BeginCreate("worker", request)
      PROVE  /\ call'["worker"].pc = "select" /\ call'["worker"].request = request
             /\ call'["teardown"] = call["teardown"]
  BY <1>1 DEF BeginCreate, Enter
<1>2. ASSUME NEW deviceId, BeginDelete("worker", deviceId)
      PROVE  /\ call'["worker"].pc = "mark" /\ call'["worker"].request = NoCreate
             /\ call'["teardown"] = call["teardown"]
  BY <1>2 DEF BeginDelete, Enter
<1>3. ASSUME Collect("worker")
      PROVE  call'["worker"].pc = "idle" /\ call'["teardown"] = call["teardown"]
  BY <1>3 DEF Collect
<1> HIDE DEF Advance
<1> QED
  BY <1>1, <1>2, <1>3

\* The worker's call starts with its command, and ends before anything else can use what
\* it has left: WorkerCall is preserved.
LEMMA WorkerCallStep ==
  ASSUME ManagementInv, [Next]_vars
  PROVE  WorkerCall'
<1> USE DEF ManagementInv
<1>0. StoreTypeOK /\ call["worker"] \in Call /\ luns \in [Luns -> Lun] /\ StoreInv
  BY DEF TypeOK, StoreTypeOK, Threads
<1>1. ASSUME worker'.pc \notin {"started", "running"}, call'["worker"].pc = "idle"
      PROVE  WorkerCall'
  BY <1>1 DEF WorkerCall
<1>2. worker.pc # "running" => call["worker"].pc = "idle"
  BY DEF WorkerCall
<1>3. CASE StillStep
  <2>1. /\ call'["worker"] = call["worker"] /\ Command' = Command
        /\ UNCHANGED <<worker, NextDeviceId>> /\ \A l \in Luns : SameIdentity(l)
    BY <1>3 DEF StillStep, Command
  <2>2. ASSUME Gone(call["worker"].deviceId)
        PROVE  Gone(call["worker"].deviceId)'
    BY <2>1, <2>2 DEF Gone, DeviceIdIssued, SameIdentity
  <2>3. call["worker"].lun \in Luns
    BY <1>0 DEF Call
  <2> QED
    BY <2>1, <2>2, <2>3 DEF WorkerCall, SameIdentity
<1>4. ASSUME NEW t \in Threads, LookStep(t)
      PROVE  WorkerCall'
  <2>1. UNCHANGED worker /\ Command' = Command
    BY <1>4 DEF LookStep, managementVars, Command
  <2>2. CASE t = "worker"
    <3>1. worker.pc = "running" /\ Command \in MutationCommand
      BY <1>4, <2>2, LookSteps, WhoCalls, WorkerItem DEF Working
    <3>2. Command.mutation \in Mutations
      BY <3>1, CommandFields
    <3> QED
      BY <1>4, <2>1, <2>2, <3>1, <3>2, LookSteps DEF WorkerCall, Mutations
  <2>3. CASE t = "teardown"
    <3>1. worker.pc \notin Working /\ call'["worker"] = call["worker"]
      BY <1>4, <2>3, LookSteps, WhoCalls
    <3> QED
      BY <1>1, <1>2, <2>1, <3>1 DEF Working
  <2> QED
    BY <2>2, <2>3 DEF Threads
<1>5. CASE CommitDisk
  <2> DEFINE l == call["worker"].lun
  <2>1. UNCHANGED worker /\ Command' = Command /\ worker.pc = "running"
    BY <1>5, WhoCalls DEF CommitDisk, MutatingStep, Command, StoreCall, LockedCallStep, Threads
  <2>2. /\ luns'[l].State = "Online" /\ luns'[l].DeviceId = NextDeviceId
        /\ luns'[l].CreateOperationId = 0 /\ call'["worker"].lun = l
        /\ call'["worker"].deviceId = NextDeviceId
    BY <1>0, <1>5, IdentityChanges DEF CommitDisk, Threads
  <2>3. call["worker"].pc = "commit" /\ call'["worker"].pc = "returned"
    BY <1>0, <1>5, CallMoves DEF CommitDisk, Succeeds, Moves, Threads
  <2>4. call'["worker"].request = call["worker"].request
    BY <1>0, <1>5, CallFrame DEF CommitDisk, StoreCall, LockedCallStep, Threads
  <2> HIDE DEF l
  <2> QED
    BY <2>1, <2>2, <2>3, <2>4 DEF WorkerCall
<1>6. CASE MarkDisk
  <2>1. UNCHANGED worker /\ Command' = Command /\ worker.pc = "running"
    BY <1>6, WhoCalls DEF MarkDisk, MutatingStep, Command, StoreCall, LockedCallStep, Threads
  <2>2. call["worker"].pc = "mark" /\ call'["worker"].pc = "wait"
    BY <1>0, <1>6, CallMoves DEF MarkDisk, Moves, Threads
  <2>3. call'["worker"].request = call["worker"].request
    BY <1>0, <1>6, CallFrame DEF MarkDisk, StoreCall, LockedCallStep, Threads
  <2> QED
    BY <2>1, <2>2, <2>3 DEF WorkerCall
<1>7. CASE MarkAllDisks
  <2>1. StoreCall("teardown") /\ UNCHANGED worker
    BY <1>7 DEF MarkAllDisks, StoreCall, LockedCallStep, managementVars
  <2>2. worker.pc \notin Working /\ call'["worker"] = call["worker"]
    BY <1>0, <2>1, WhoCalls, CallFrame DEF Threads
  <2> QED
    BY <1>1, <1>2, <2>1, <2>2 DEF Working
<1>8. ASSUME NEW t \in Threads, FinalizeDiskRemoval(t)
      PROVE  WorkerCall'
  <2>1. UNCHANGED worker /\ Command' = Command /\ StoreCall(t) /\ FinalizeRemoval(t)
    BY <1>8 DEF FinalizeDiskRemoval, Command, StoreCall
  <2>2. CASE t = "worker"
    <3>1. worker.pc = "running" /\ call["worker"].pc = "finalize" /\ call'["worker"].pc = "returned"
      BY <1>0, <2>1, <2>2, WhoCalls, CallMoves DEF Succeeds, Moves
    <3>2. call'["worker"].request = call["worker"].request
      BY <1>0, <2>1, <2>2, CallFrame
    <3>3. Gone(call["worker"].deviceId)'
      BY <1>0, <2>1, <2>2, RemovedIsGone
    <3> QED
      BY <2>1, <3>1, <3>2, <3>3 DEF WorkerCall
  <2>3. CASE t = "teardown"
    <3>1. worker.pc \notin Working /\ call'["worker"] = call["worker"]
      BY <1>0, <2>1, <2>3, WhoCalls, CallFrame DEF Threads
    <3> QED
      BY <1>1, <1>2, <2>1, <3>1 DEF Working
  <2> QED
    BY <2>2, <2>3 DEF Threads
<1>9. CASE \E mutation \in Mutations : ReserveOperation(mutation)
  BY <1>9 DEF ReserveOperation, WorkerCall, Command, Gone, DeviceIdIssued, storeVars
<1>10. ASSUME NEW c \in Srbs, NEW command \in MutationCommand, PrepareSubmission(c, command)
       PROVE  WorkerCall'
  <2>1. UNCHANGED <<worker, call>> /\ ~ManagementBusy
    BY <1>10 DEF PrepareSubmission, SubmissionStatus, BeginManagement, storeVars
  <2>2. worker.pc \notin Working
    BY <2>1, WorkerItem
  <2> QED
    BY <1>1, <1>2, <2>1, <2>2 DEF Working
<1>11. ASSUME NEW c \in Srbs, QueueFails(c)
       PROVE  WorkerCall'
  <2>1. UNCHANGED <<worker, call>> /\ srb[c].owner = "startIo"
    BY <1>11 DEF QueueFails, storeVars
  <2>2. worker.pc \in {"none", "unwinding"}
    BY <2>1 DEF Ownership
  <2> QED
    BY <1>1, <1>2, <2>1, <2>2
<1>12. ASSUME NEW c \in Srbs, QueueWorkItem(c)
       PROVE  WorkerCall'
  <2>1. UNCHANGED call /\ worker.pc = "none" /\ worker'.pc = "queued"
    BY <1>12 DEF QueueWorkItem, storeVars, NoWork
  <2> QED
    BY <1>1, <1>2, <2>1
<1>13. CASE StartWorkItem
  <2>1. /\ UNCHANGED call /\ worker.pc = "queued" /\ worker'.pc = "started"
        /\ worker'.fault = "RejectOperation" => Command.reserved
    BY <1>13 DEF StartWorkItem, storeVars, TypeOK, Worker
  <2>2. Command' = Command
    BY <1>13, WorkSteps DEF WorkStep
  <2> QED
    BY <1>2, <2>1, <2>2 DEF WorkerCall
<1>14. CASE RejectOperation
  <2>1. UNCHANGED call /\ worker.pc = "started" /\ worker'.pc = "complete"
    BY <1>14 DEF RejectOperation, storeVars, TypeOK, Worker
  <2> QED
    BY <1>1, <1>2, <2>1
<1>15. CASE SnapshotPendingOperation
  <2>1. /\ worker.pc = "started" /\ Command.reserved
        /\ \/ UNCHANGED call /\ worker'.pc = "complete"
           \/ /\ worker'.pc = "running"
              /\ LET snapshot == Operations[FindOperation(Command.operation)] IN
                   IF snapshot.Mutation = "Create" THEN BeginCreate("worker", snapshot.Create)
                   ELSE BeginDelete("worker", snapshot.Delete)
    BY <1>15 DEF SnapshotPendingOperation, TypeOK, Worker
  <2>2. LET s == FindOperation(Command.operation) IN
          /\ Operations[s].Create = Command.create /\ Operations[s].Mutation = Command.mutation
    BY <2>1, RunningRecord DEF RecordFor
  <2>3. Command' = Command
    BY <1>15, WorkSteps DEF WorkStep
  <2>4. CASE UNCHANGED call /\ worker'.pc = "complete"
    BY <1>1, <1>2, <2>1, <2>4
  <2>5. CASE worker'.pc = "running" /\ BeginCreate("worker", Command.create)
             /\ Command.mutation = "Create"
    <3>1. call'["worker"].pc = "select" /\ call'["worker"].request = Command.create
      BY <1>0, <2>5, CallBegins
    <3> QED
      BY <2>3, <2>5, <3>1 DEF WorkerCall
  <2>6. ASSUME worker'.pc = "running", Command.mutation # "Create",
               NEW deviceId, BeginDelete("worker", deviceId)
        PROVE  WorkerCall'
    <3>1. call'["worker"].pc = "mark" /\ call'["worker"].request = NoCreate
      BY <1>0, <2>6, CallBegins
    <3> QED
      BY <2>3, <2>6, <3>1 DEF WorkerCall
  <2> QED
    BY <2>1, <2>2, <2>4, <2>5, <2>6
<1>16. CASE ProcessLegacyRequest
  <2>1. /\ worker'.pc = "running" /\ Command' = Command
        /\ \/ Command.mutation = "Create" /\ BeginCreate("worker", Command.create)
           \/ Command.mutation # "Create" /\ BeginDelete("worker", Command.delete)
    BY <1>16, WorkSteps DEF ProcessLegacyRequest, TypeOK, Worker, WorkStep
  <2>2. CASE Command.mutation = "Create" /\ BeginCreate("worker", Command.create)
    <3>1. call'["worker"].pc = "select" /\ call'["worker"].request = Command.create
      BY <1>0, <2>2, CallBegins
    <3> QED
      BY <2>1, <2>2, <3>1 DEF WorkerCall
  <2>3. CASE Command.mutation # "Create" /\ BeginDelete("worker", Command.delete)
    <3>1. call'["worker"].pc = "mark" /\ call'["worker"].request = NoCreate
      BY <1>0, <2>3, CallBegins
    <3> QED
      BY <2>1, <2>3, <3>1 DEF WorkerCall
  <2> QED
    BY <2>1, <2>2, <2>3
<1>17. CASE PublishOperationResult \/ WriteLegacyResponse
  <2>1. worker'.pc = "complete" /\ Collect("worker")
    BY <1>17 DEF PublishOperationResult, WriteLegacyResponse, TypeOK, Worker
  <2> QED
    BY <1>0, <1>1, <2>1, CallBegins
<1>18. CASE CompleteRequest \/ BusChangeDetected \/ FinishManagement
            \/ ReleaseLunLock \/ WorkerReturns
  <2>1. UNCHANGED call /\ worker.pc # "running" /\ worker'.pc \notin {"started", "running"}
    BY <1>18 DEF CompleteRequest, BusChangeDetected, FinishManagement, ReleaseLunLock,
       WorkerReturns, Unwind, NoWork, storeVars, TypeOK, Worker
  <2> QED
    BY <1>1, <1>2, <2>1
<1>19. CASE Initialize
  <2>1. UNCHANGED <<call, worker>> /\ worker.pc = "none"
    BY <1>19 DEF Initialize, InitializeStore, TeardownOrder, Drain
  <2> QED
    BY <1>1, <1>2, <2>1
<1>20. CASE HandBackStep
  <2>1. /\ UNCHANGED <<call, luns, worker, NextDeviceId>>
        /\ worker.pc \in Working => Command' = Command
    BY <1>20, HandBackSteps DEF storeVars
  <2> QED
    BY <2>1 DEF WorkerCall, Gone, DeviceIdIssued, Working
<1> QED
  BY <1>3, <1>4, <1>5, <1>6, <1>7, <1>8, <1>9, <1>10, <1>11, <1>12, <1>13, <1>14, <1>15,
     <1>16, <1>17, <1>18, <1>19, <1>20, StepKinds DEF QuietKinds, WorkStep

-----------------------------------------------------------------------------
(***************************************************************************)
(* Teardown.                                                               *)
(***************************************************************************)
\* Teardown advances only when what it waits for has happened, and nothing reopens
\* admission behind it.
LEMMA TeardownOrderStep ==
  ASSUME ManagementInv, [Next]_vars
  PROVE  TeardownOrder'
<1> USE DEF ManagementInv, TeardownOrder
<1>0. TeardownOrder
  OBVIOUS
<1>1. CASE LunLockFree /\ LockedStep
  <2>1. CASE \/ \E mutation \in Mutations : ReserveOperation(mutation)
             \/ \E mode \in FaultModes, count \in 0..MaximumFaultCount :
                  ConfigureFault(mode, count)
             \/ MutatingStep \/ (\E i \in IoThreads : LeaseStep(i))
             \/ \E t \in Threads : PlainLockedStep(t) \/ FinalizeDiskRemoval(t)
    <3>1. UNCHANGED AdapterStopping
      BY <2>1 DEF ReserveOperation, ConfigureFault, MutatingStep, LeaseStep, PlainLockedStep,
         FinalizeDiskRemoval, storeVars, CommitNewLun, MarkLunStopping, SelectAvailableLun,
         CommitFails, MarkUnknownDisk, MarkAllLunsStopping, FirstStoppingLun,
         DetachBackingStore, FinalizeRemoval, ReleaseLunIo, AcquireLunIo
    <3>2. UNCHANGED <<teardown, ManagementBusy, worker>>
      BY <2>1 DEF ReserveOperation, ConfigureFault, MutatingStep, LeaseStep, PlainLockedStep,
         FinalizeDiskRemoval, managementVars
    <3> QED
      BY <1>0, <3>1, <3>2
  <2>2. ASSUME NEW c \in Srbs, NEW command \in MutationCommand, PrepareSubmission(c, command)
        PROVE  TeardownOrder'
    <3>1. /\ ~AdapterStopping /\ teardown # "released"
          /\ UNCHANGED <<teardown, AdapterStopping, worker>>
      BY <2>2 DEF PrepareSubmission, SubmissionStatus, BeginManagement, storeVars
    <3> QED
      BY <1>0, <3>1
  <2>3. CASE \E c \in Srbs : QueueFails(c)
    <3>1. ~ManagementBusy' /\ UNCHANGED <<teardown, AdapterStopping, worker>>
      BY <2>3 DEF QueueFails, EndManagement, storeVars
    <3> QED
      BY <1>0, <3>1
  <2>4. CASE WorkStep
    <3>1. worker.pc \in Working /\ UNCHANGED <<teardown, AdapterStopping, ManagementBusy>>
      BY <2>4, WorkSteps
    <3>2. teardown \in {"up", "waitIdle"}
      BY <3>1, WorkerItem
    <3> QED
      BY <1>0, <3>1, <3>2
  <2>5. CASE FinishManagement
    <3>1. worker.pc = "end" /\ ~ManagementBusy' /\ UNCHANGED <<teardown, AdapterStopping>>
      BY <2>5 DEF FinishManagement, EndManagement, storeVars
    <3>2. ManagementBusy
      BY <3>1 DEF Ownership
    <3> QED
      BY <1>0, <3>1, <3>2
  <2>6. CASE CloseAdmission
    BY <1>0, <2>6 DEF CloseAdmission, SetStopping, TeardownMove
  <2>7. CASE DrainAndReleaseDisks
    BY <1>0, <1>1, <2>7 DEF DrainAndReleaseDisks, TeardownMove, LunLockFree
  <2> QED
    BY <1>1, <2>1, <2>2, <2>3, <2>4, <2>5, <2>6, <2>7
       DEF LockedStep, ClientStep, WorkerLockedStep, WorkStep
<1>2. CASE UnlockedStep
  <2>1. CASE Initialize
    BY <1>0, <2>1 DEF Initialize
  <2>2. CASE \E stopping \in BOOLEAN : HwAdapterControl(stopping)
    BY <1>0, <2>2 DEF HwAdapterControl, SetStopping, managementVars
  <2>3. ASSUME NEW c \in Srbs, QueueWorkItem(c)
        PROVE  TeardownOrder'
    BY <1>0, <2>3 DEF QueueWorkItem, storeVars, NoWork
  <2>4. CASE WorkStep
    <3>1. worker.pc \in Working /\ UNCHANGED <<teardown, AdapterStopping, ManagementBusy>>
      BY <2>4, WorkSteps
    <3>2. teardown \in {"up", "waitIdle"}
      BY <3>1, WorkerItem
    <3> QED
      BY <1>0, <3>1, <3>2
  <2>5. CASE CompleteRequest \/ BusChangeDetected
    <3>1. /\ worker.pc \in {"complete", "notify"} /\ worker'.pc \in {"notify", "end"}
          /\ UNCHANGED <<teardown, AdapterStopping, ManagementBusy>>
      BY <2>5 DEF CompleteRequest, BusChangeDetected, storeVars, TypeOK, Worker
    <3> QED
      BY <1>0, <3>1
  <2>6. CASE ReleaseLunLock \/ WorkerReturns
    <3>1. /\ \/ worker.pc = "unlocking" /\ worker'.pc = "unwinding"
             \/ worker'.pc = "none"
          /\ UNCHANGED <<teardown, AdapterStopping, ManagementBusy>>
      BY <2>6 DEF ReleaseLunLock, WorkerReturns, Unwind, storeVars, NoWork
    <3> QED
      BY <1>0, <3>1
  <2>7. CASE (\E t \in Threads : CallUnlockedStep(t)) \/ (\E i \in IoThreads : CopyStep(i))
    <3>1. UNCHANGED <<AdapterStopping, teardown, ManagementBusy, worker>>
      BY <2>7 DEF CallUnlockedStep, UnlockedCallStep, AllocateBacking, AllocateFails,
         WaitForLunIo, FreeBacking, CopyStep, WriteBacking, managementVars
    <3> QED
      BY <1>0, <3>1
  <2>8. CASE WaitForIdle
    BY <1>0, <2>8 DEF WaitForIdle, TeardownMove, storeVars, Ownership
  <2>9. CASE DrainReturns \/ ReleaseWorker
    BY <1>0, <2>9 DEF DrainReturns, ReleaseWorker, TeardownMove, storeVars
  <2>10. CASE HandBackStep
    <3>1. UNCHANGED <<teardown, AdapterStopping, ManagementBusy, worker>>
      BY <2>10, HandBackSteps DEF storeVars
    <3> QED
      BY <1>0, <3>1
  <2> QED
    BY <1>2, <2>1, <2>2, <2>3, <2>4, <2>5, <2>6, <2>7, <2>8, <2>9, <2>10
       DEF UnlockedStep, StartIoUnlockedStep, HandBackStep, WorkerUnlockedStep, WorkStep
<1>3. CASE UNCHANGED vars
  BY <1>0, <1>3 DEF vars, managementVars, storeVars
<1> QED
  BY <1>1, <1>2, <1>3 DEF Next

\* Teardown takes its steps one after the other, and only a new adapter ends it.
LEMMA TeardownMoves ==
  ASSUME [Next]_vars
  PROVE  \/ UNCHANGED teardown
         \/ Initialize
         \/ teardown = "up" /\ teardown' = "waitIdle"
         \/ teardown = "waitIdle" /\ teardown' = "waitLock"
         \/ teardown = "waitLock" /\ teardown' = "drain" /\ LunLockFree /\ UNCHANGED srb
         \/ teardown = "drain" /\ teardown' = "freeWorker"
         \/ teardown = "freeWorker" /\ teardown' = "released"
<1>1. CASE LunLockFree /\ LockedStep
  BY <1>1 DEF LockedStep, ClientStep, ReserveOperation, PrepareSubmission, ConfigureFault,
     QueueFails, WorkerLockedStep, StartWorkItem, RejectOperation, SnapshotPendingOperation,
     PublishOperationResult, FinishManagement, MutatingStep, PlainLockedStep,
     FinalizeDiskRemoval, CloseAdmission, DrainAndReleaseDisks, TeardownMove, LeaseStep,
     managementVars
<1>2. CASE UnlockedStep
  BY <1>2 DEF UnlockedStep, HwAdapterControl, StartIoUnlockedStep, QueueWorkItem,
     SubmitReturns, CompleteFailedSubmission, HandBack, WorkerUnlockedStep,
     ProcessLegacyRequest, WriteLegacyResponse, CompleteRequest, BusChangeDetected,
     ReleaseLunLock, WorkerReturns, Unwind, CallUnlockedStep, CopyStep, WaitForIdle,
     DrainReturns, ReleaseWorker, TeardownMove, managementVars
<1> QED
  BY <1>1, <1>2 DEF Next, vars, managementVars

\* The drain begins with the lock free, and by then the queue has no submission left to
\* fail: SubmitLock is preserved.
LEMMA SubmitLockStep ==
  ASSUME ManagementInv, [Next]_vars
  PROVE  SubmitLock'
<1> USE DEF ManagementInv
<1> DEFINE Late == {"drain", "freeWorker", "released"}
<1> SUFFICES ASSUME teardown' \in Late, NEW c \in Srbs
             PROVE  srb'[c].owner # "unlocking"
  BY DEF SubmitLock
<1>1. CASE teardown \notin Late
  <2>1. ~Initialize
    BY <1>1 DEF Initialize
  <2>2. LunLockFree /\ UNCHANGED srb
    BY <1>1, <2>1, TeardownMoves
  <2> QED
    BY <2>2 DEF LunLockFree
<1>2. CASE teardown \in Late
  <2>1. srb[c].owner # "unlocking" /\ \A d \in Srbs : ~Submitted(d)
    BY <1>2 DEF SubmitLock, TeardownOrder, Ownership
  <2>2. ASSUME NEW d \in Srbs, QueueFails(d)
        PROVE  FALSE
    BY <2>1, <2>2 DEF QueueFails, Submitted
  <2>3. ASSUME NEW d \in Srbs, QueueWorkItem(d)
        PROVE  FALSE
    BY <2>1, <2>3 DEF QueueWorkItem, Submitted
  <2>4. ASSUME NEW d \in Srbs, NEW command \in MutationCommand, PrepareSubmission(d, command)
        PROVE  srb'[c].owner # "unlocking"
    BY <2>1, <2>4 DEF PrepareSubmission, TypeOK
  <2>5. CASE CompleteRequest
    BY <2>1, <2>5 DEF CompleteRequest, NoSubmission, TypeOK
  <2>6. CASE WorkStep
    BY <2>1, <2>6, WorkSteps DEF SrbsKeepOwners
  <2>7. CASE HandBackStep
    BY <2>1, <2>7, HandBackSteps
  <2>8. ASSUME UNCHANGED srb
        PROVE  srb'[c].owner # "unlocking"
    BY <2>1, <2>8
  <2> QED
    BY <2>2, <2>3, <2>4, <2>5, <2>6, <2>7, <2>8, StepCases
       DEF ReserveOperation, BusChangeDetected, FinishManagement, ReleaseLunLock,
           WorkerReturns, Unwind, Initialize, QuietStep
<1> QED
  BY <1>1, <1>2

\* The drain's call moves along, and no disk comes Online under it: a commit is the
\* worker's, and the worker is done before the drain begins.
LEMMA DrainStep ==
  ASSUME ManagementInv, [Next]_vars
  PROVE  Drain'
<1> USE DEF ManagementInv
<1>0. StoreTypeOK /\ call["teardown"] \in Call /\ StoreInv /\ luns \in [Luns -> Lun]
  BY DEF TypeOK, StoreTypeOK, Threads
<1>1. ASSUME call'["teardown"].pc = "idle", teardown' \in {"up", "waitIdle", "waitLock"}
      PROVE  Drain'
  BY <1>1 DEF Drain
<1>2. ASSUME call'["teardown"] = call["teardown"], UNCHANGED teardown,
             \A l \in Luns : luns'[l].State = luns[l].State
      PROVE  Drain'
  BY <1>2 DEF Drain, LunsIn
<1>3. teardown \in {"up", "waitIdle"} => call["teardown"].pc = "idle"
  BY DEF Drain
<1>4. ASSUME NEW t \in Threads, StoreCall(t), UNCHANGED managementVars \/ FinalizeDiskRemoval(t)
                                              \/ MutatingStep
      PROVE  Drain'
  <2>1. UNCHANGED teardown
    BY <1>4 DEF managementVars, FinalizeDiskRemoval, MutatingStep
  <2>2. CASE t = "worker"
    <3>1. teardown \in {"up", "waitIdle"} /\ call'["teardown"] = call["teardown"]
      BY <1>0, <1>4, <2>2, WhoCalls, CallFrame DEF Threads
    <3> QED
      BY <1>1, <1>3, <2>1, <3>1
  <2>3. CASE t = "teardown"
    <3>1. /\ teardown = "drain" /\ call'["teardown"].pc # "idle"
          /\ call["teardown"].pc \in {"markAll", "first", "wait", "detach", "free", "finalize"}
      BY <1>0, <1>4, <2>3, WhoCalls, CallFrame
    <3>2. ASSUME \A l \in Luns : luns'[l].State = luns[l].State,
                 call["teardown"].pc # "markAll",
                 call'["teardown"].pc \in {"first", "wait", "detach", "free", "finalize"}
          PROVE  Drain'
      BY <2>1, <3>1, <3>2 DEF Drain, LunsIn
    <3>3. CASE MarkAllLunsStopping("teardown")
      <4>1. call'["teardown"].pc = "first"
        BY <1>0, <3>3, CallMoves DEF Moves, Threads
      <4>2. \A l \in Luns : luns'[l].State # "Online"
        BY <1>0, <3>3, IdentityChanges DEF Threads
      <4> QED
        BY <2>1, <3>1, <4>1, <4>2 DEF Drain, LunsIn
    <3>4. CASE FirstStoppingLun("teardown")
      <4>1. \/ call'["teardown"].pc = "wait"
            \/ call'["teardown"].pc = "returned" /\ LunsIn("Stopping") = {}
        BY <1>0, <3>4, CallMoves DEF Moves, Succeeds, Threads
      <4>2. UNCHANGED luns /\ call["teardown"].pc = "first"
        BY <3>4 DEF FirstStoppingLun
      <4>3. CASE call'["teardown"].pc = "wait"
        BY <3>2, <4>2, <4>3
      <4>4. CASE call'["teardown"].pc = "returned" /\ LunsIn("Stopping") = {}
        <5>1. LunsIn("Online") = {}
          BY <4>2 DEF Drain
        <5>2. \A l \in Luns : luns[l].State = "Empty"
          BY <1>0, <4>4, <5>1 DEF LunsIn, Lun, LunState
        <5> QED
          BY <2>1, <3>1, <4>2, <4>4, <5>2 DEF Drain, LunsIn
      <4> QED
        BY <4>1, <4>3, <4>4
    <3>5. CASE WaitForLunIo("teardown") \/ DetachBackingStore("teardown") \/ FreeBacking("teardown")
      <4>1. /\ call["teardown"].pc \in {"wait", "detach", "free"}
            /\ call'["teardown"].pc \in {"detach", "free", "finalize"}
        BY <1>0, <3>5, CallMoves DEF Moves, Threads
      <4>2. \A l \in Luns : luns'[l].State = luns[l].State
        BY <1>0, <3>5, IdentitiesKept DEF SameIdentity, Threads
      <4> QED
        BY <3>2, <4>1, <4>2
    <3>6. CASE FinalizeRemoval("teardown")
      <4>1. call["teardown"].pc = "finalize" /\ call'["teardown"].pc = "first"
        BY <1>0, <3>6, CallMoves DEF Moves, Threads
      <4> DEFINE k == call["teardown"].lun
      <4>2. luns'[k].State = "Empty" /\ \A l \in Luns \ {k} : luns'[l] = luns[l]
        BY <1>0, <3>6, IdentityChanges DEF Threads
      <4> HIDE DEF k
      <4>3. \A l \in Luns : luns[l].State # "Online"
        BY <4>1 DEF Drain, LunsIn
      <4>4. \A l \in Luns : luns'[l].State # "Online"
        BY <4>2, <4>3
      <4> QED
        BY <2>1, <3>1, <4>1, <4>4 DEF Drain, LunsIn
    <3>7. CASE \/ SelectAvailableLun("teardown") \/ CommitNewLun("teardown")
               \/ CommitFails("teardown") \/ MarkLunStopping("teardown")
               \/ MarkUnknownDisk("teardown") \/ AllocateBacking("teardown")
               \/ AllocateFails("teardown")
      BY <3>1, <3>7 DEF SelectAvailableLun, CommitNewLun, CommitFails, MarkLunStopping,
         MarkUnknownDisk, AllocateBacking, AllocateFails
    <3> QED
      BY <1>4, <2>3, <3>3, <3>4, <3>5, <3>6, <3>7 DEF StoreCall, LockedCallStep, UnlockedCallStep
  <2> QED
    BY <2>2, <2>3 DEF Threads
<1>5. CASE LockedStep
  <2>1. CASE ClientStep \/ (\E c \in Srbs : QueueFails(c))
             \/ StartWorkItem \/ RejectOperation \/ FinishManagement
    <3>1. UNCHANGED <<call, luns, teardown>>
      BY <2>1 DEF ClientStep, ReserveOperation, PrepareSubmission, ConfigureFault, QueueFails,
         StartWorkItem, RejectOperation, FinishManagement, storeVars
    <3> QED
      BY <1>2, <3>1
  <2>2. CASE SnapshotPendingOperation \/ PublishOperationResult
    <3>1. WorkStep
      BY <2>2 DEF WorkStep
    <3>2. teardown \in {"up", "waitIdle"} /\ UNCHANGED teardown
      BY <3>1, WorkSteps, WorkerItem
    <3>3. \/ UNCHANGED call \/ Collect("worker") \/ (\E request : BeginCreate("worker", request))
          \/ \E deviceId : BeginDelete("worker", deviceId)
      BY <2>2 DEF SnapshotPendingOperation, PublishOperationResult
    <3>4. call'["teardown"] = call["teardown"]
      BY <1>0, <3>3, CallBegins
    <3> QED
      BY <1>1, <1>3, <3>2, <3>4
  <2>3. CASE MutatingStep
    BY <1>4, <2>3 DEF MutatingStep, StoreCall, LockedCallStep, Threads
  <2>4. ASSUME NEW t \in Threads, PlainLockedStep(t) \/ FinalizeDiskRemoval(t)
        PROVE  Drain'
    BY <1>4, <2>4 DEF PlainLockedStep, FinalizeDiskRemoval, StoreCall, LockedCallStep
  <2>5. CASE CloseAdmission
    BY <1>1, <1>3, <2>5 DEF CloseAdmission, TeardownMove, SetStopping
  <2>6. CASE DrainAndReleaseDisks
    <3>1. teardown' = "drain" /\ UNCHANGED luns /\ BeginDrain("teardown")
      BY <2>6 DEF DrainAndReleaseDisks, TeardownMove
    <3>2. call'["teardown"].pc = "markAll"
      BY <1>0, <3>1 DEF BeginDrain, Enter, Advance, NoCall, StoreTypeOK, Threads
    <3> QED
      BY <3>1, <3>2 DEF Drain
  <2>7. ASSUME NEW i \in IoThreads, LeaseStep(i)
        PROVE  Drain'
    <3>1. IoStep(i) /\ UNCHANGED <<call, teardown>>
      BY <2>7 DEF LeaseStep, IoStep, AcquireLunIo, ReleaseLunIo, managementVars
    <3>2. \A l \in Luns : luns'[l].State = luns[l].State
      BY <1>0, <3>1, IdentitiesKept DEF SameIdentity
    <3> QED
      BY <1>2, <3>1, <3>2
  <2> QED
    BY <1>5, <2>1, <2>2, <2>3, <2>4, <2>5, <2>6, <2>7 DEF LockedStep, WorkerLockedStep
<1>6. CASE UnlockedStep
  <2>1. CASE Initialize
    <3>1. /\ call'["teardown"].pc = "idle" /\ teardown' \in {"up", "released"}
          /\ \A l \in Luns : luns'[l].State = "Empty"
      BY <2>1 DEF Initialize, InitializeStore, ZeroedLun, Drain
    <3> QED
      BY <3>1 DEF Drain, LunsIn
  <2>2. CASE \/ (\E stopping \in BOOLEAN : HwAdapterControl(stopping))
             \/ (\E c \in Srbs : QueueWorkItem(c)) \/ CompleteRequest \/ BusChangeDetected
             \/ HandBackStep
             \/ ReleaseLunLock \/ WorkerReturns \/ (\E i \in IoThreads : CopyStep(i))
    <3>1. UNCHANGED <<call, luns, teardown>>
      BY <2>2, HandBackSteps DEF HwAdapterControl, SetStopping, QueueWorkItem, CompleteRequest,
         BusChangeDetected, ReleaseLunLock, WorkerReturns, Unwind, CopyStep, WriteBacking,
         storeVars, managementVars
    <3> QED
      BY <1>2, <3>1
  <2>3. CASE ProcessLegacyRequest \/ WriteLegacyResponse
    <3>1. WorkStep
      BY <2>3 DEF WorkStep
    <3>2. teardown \in {"up", "waitIdle"} /\ UNCHANGED teardown
      BY <3>1, WorkSteps, WorkerItem
    <3>3. \/ Collect("worker") \/ (\E request : BeginCreate("worker", request))
          \/ \E deviceId : BeginDelete("worker", deviceId)
      BY <2>3 DEF ProcessLegacyRequest, WriteLegacyResponse
    <3>4. call'["teardown"] = call["teardown"]
      BY <1>0, <3>3, CallBegins
    <3> QED
      BY <1>1, <1>3, <3>2, <3>4
  <2>4. ASSUME NEW t \in Threads, CallUnlockedStep(t)
        PROVE  Drain'
    BY <1>4, <2>4 DEF CallUnlockedStep, StoreCall
  <2>5. CASE WaitForIdle
    BY <1>1, <1>3, <2>5 DEF WaitForIdle, TeardownMove, storeVars
  <2>6. CASE DrainReturns
    <3>1. /\ teardown' = "freeWorker" /\ UNCHANGED luns
          /\ call["teardown"].pc = "returned" /\ Advance("teardown", NoCall)
      BY <2>6 DEF DrainReturns, TeardownMove, Collect
    <3>2. call'["teardown"].pc = "idle"
      BY <1>0, <3>1 DEF Advance, NoCall, StoreTypeOK, Threads
    <3>3. \A l \in Luns : luns[l].State = "Empty"
      BY <3>1 DEF Drain
    <3> QED
      BY <3>1, <3>2, <3>3 DEF Drain
  <2>7. CASE ReleaseWorker
    BY <2>7 DEF ReleaseWorker, TeardownMove, Drain, storeVars, LunsIn
  <2> QED
    BY <1>6, <2>1, <2>2, <2>3, <2>4, <2>5, <2>6, <2>7
       DEF UnlockedStep, StartIoUnlockedStep, HandBackStep, WorkerUnlockedStep
<1>7. CASE UNCHANGED vars
  BY <1>2, <1>7 DEF vars, storeVars, managementVars
<1> QED
  BY <1>5, <1>6, <1>7 DEF Next

-----------------------------------------------------------------------------
(***************************************************************************)
(* The operation table.                                                    *)
(***************************************************************************)
\* A step writes one record and no other.
OnlyRecord(s) == \A r \in Slots \ {s} : Operations'[r] = Operations[r]

\* A reservation takes a free slot, or the one of a record that may be given up.
LEMMA ReservedRecord ==
  ASSUME ManagementInv, NEW mutation \in Mutations, ReserveOperation(mutation)
  PROVE  /\ \E s \in Slots :
              /\ Operations[s].State # "Pending"
              /\ ~(Operations[s].State = "Succeeded" /\ Operations[s].Mutation = "Create")
              /\ Operations'[s].Id = NextOperationId /\ Operations'[s].Mutation = mutation
              /\ Operations'[s].State = "Reserved"
              /\ OnlyRecord(s)
         /\ NextOperationId # 0
         /\ NextOperationId' = IF NextOperationId + 1 = OperationIdModulus THEN 0
                               ELSE NextOperationId + 1
<1> USE DEF ManagementInv
<1> DEFINE candidates == {s \in Slots : Evictable(s)}
           selected == IF FreeSlots # {} THEN First(FreeSlots) ELSE OldestEvictable
<1>1. NextOperationId # 0 /\ (FreeSlots # {} \/ candidates # {})
  BY DEF ReserveOperation, ReservationStatus
<1>2. ASSUME FreeSlots # {}
      PROVE  First(FreeSlots) \in Slots /\ Operations[First(FreeSlots)].State = "None"
  <2>1. First(FreeSlots) \in FreeSlots
    BY <1>2, FirstIsLeast, ManagementTypes DEF FreeSlots
  <2> QED
    BY <2>1 DEF FreeSlots, Table, NoRecord
<1>3. ASSUME FreeSlots = {}
      PROVE  OldestEvictable \in candidates
  <2> DEFINE ids == {Operations[s].Id : s \in candidates}
  <2>1. ids \in SUBSET Nat /\ ids # {}
    BY <1>1, <1>3, ModulusAssumption DEF TypeOK, Record, OperationIds
  <2> HIDE DEF ids
  <2>2. First(ids) \in ids /\ \A k \in ids : First(ids) <= k
    BY <2>1, FirstIsLeast
  <2>3. PICK s \in candidates : Operations[s].Id = First(ids)
    BY <2>2 DEF ids
  <2>4. \A r \in candidates : Operations[s].Id <= Operations[r].Id
    BY <2>2, <2>3 DEF ids
  <2> QED
    BY <2>3, <2>4 DEF OldestEvictable
<1>4. /\ selected \in Slots /\ Operations[selected].State # "Pending"
      /\ ~(Operations[selected].State = "Succeeded" /\ Operations[selected].Mutation = "Create")
  BY <1>2, <1>3 DEF Evictable
<1>5. Operations' = [Operations EXCEPT ![selected] =
         [NoRecord EXCEPT !.Id = NextOperationId, !.Mutation = mutation,
                          !.State = "Reserved", !.Result = "PENDING"]]
  BY DEF ReserveOperation
<1> HIDE DEF selected
<1>6. /\ Operations'[selected].Id = NextOperationId /\ Operations'[selected].Mutation = mutation
      /\ Operations'[selected].State = "Reserved" /\ OnlyRecord(selected)
  BY <1>4, <1>5 DEF NoRecord, TypeOK, OnlyRecord
<1>7. NextOperationId' = IF NextOperationId + 1 = OperationIdModulus THEN 0
                         ELSE NextOperationId + 1
  <2>1. NextOperationId \in 0..(OperationIdModulus - 1)
    BY DEF TypeOK, OperationIds
  <2> QED
    BY <2>1, FollowingIdRange, ModulusAssumption DEF ReserveOperation
<1> QED
  BY <1>1, <1>4, <1>6, <1>7

\* FailOperationLocked closes the Pending record of the submission.
LEMMA FailedRecord ==
  ASSUME ManagementInv, NEW c \in Srbs, InProgress(c), NEW status \in Status,
         Operations' = FailOperation(srb[c].command.operation, status)
  PROVE  \E s \in Slots :
           /\ s = FindOperation(srb[c].command.operation)
           /\ RecordFor(s, srb[c].command)
           /\ Operations'[s] = [Operations[s] EXCEPT !.State = "Failed", !.Result = status]
           /\ Operations'[s].Id = Operations[s].Id
           /\ Operations'[s].Mutation = Operations[s].Mutation
           /\ Operations'[s].State = "Failed" /\ OnlyRecord(s)
<1> USE DEF ManagementInv
<1> DEFINE s == FindOperation(srb[c].command.operation)
<1>1. s \in Slots /\ SlotsOf(srb[c].command.operation) = {s} /\ RecordFor(s, srb[c].command)
  BY RecordInProgress
<1>2. Operations' = [Operations EXCEPT ![s] =
                       [Operations[s] EXCEPT !.State = "Failed", !.Result = status]]
  BY <1>1 DEF FailOperation, TypeOK
<1> HIDE DEF s
<1>3. /\ Operations'[s] = [Operations[s] EXCEPT !.State = "Failed", !.Result = status]
      /\ OnlyRecord(s)
  BY <1>1, <1>2 DEF TypeOK, OnlyRecord
<1>4. /\ Operations'[s].Id = Operations[s].Id /\ Operations'[s].Mutation = Operations[s].Mutation
      /\ Operations'[s].State = "Failed"
  BY <1>1, <1>3 DEF TypeOK, Record
<1> QED
  BY <1>1, <1>3, <1>4 DEF s

\* The command of a queue failure and of a rejection has its record.
LEMMA FailingSteps ==
  ASSUME ManagementInv
  PROVE  /\ \A c \in Srbs : QueueFails(c) =>
              /\ srb[c].command.reserved => InProgress(c)
              /\ worker.pc \in {"none", "unwinding"}
         /\ RejectOperation =>
              /\ Command.reserved /\ InProgress(worker.item) /\ worker.item \in Srbs
              /\ Operations' = FailOperation(Command.operation, "INSUFFICIENT_RESOURCES")
<1> USE DEF ManagementInv
<1>1. ASSUME NEW c \in Srbs, QueueFails(c)
      PROVE  /\ srb[c].command.reserved => InProgress(c)
             /\ worker.pc \in {"none", "unwinding"}
  BY <1>1 DEF QueueFails, InProgress, Submitted, Ownership
<1>2. ASSUME RejectOperation
      PROVE  /\ Command.reserved /\ InProgress(worker.item) /\ worker.item \in Srbs
             /\ Operations' = FailOperation(Command.operation, "INSUFFICIENT_RESOURCES")
  <2>1. worker.pc = "started" /\ Command.reserved
    BY <1>2 DEF RejectOperation, WorkerCall
  <2>2. worker.item \in Srbs /\ Submitted(worker.item)
    BY <2>1, WorkerItem DEF Working
  <2> QED
    BY <1>2, <2>1, <2>2 DEF RejectOperation, InProgress, Command
<1> QED
  BY <1>1, <1>2

\* PublishOperationResult closes the Pending record with the outcome of the call, binds a
\* created disk to it and replies with what it wrote.
LEMMA PublishedRecord ==
  ASSUME ManagementInv, PublishOperationResult
  PROVE  LET done == call["worker"] IN
         \E s \in Slots :
           /\ s = FindOperation(Command.operation)
           /\ RecordFor(s, Command) /\ OnlyRecord(s)
           /\ Operations'[s].Id = Operations[s].Id
           /\ Operations'[s].Mutation = Command.mutation
           /\ Operations'[s].State = IF done.status = "SUCCESS" THEN "Succeeded" ELSE "Failed"
           /\ Operations'[s].Result = done.status
           /\ Operations'[s].DeviceId = done.deviceId
           /\ done.status = "SUCCESS" /\ Command.mutation = "Create" =>
                /\ Operations'[s].Lun = done.lun
                /\ luns' = [luns EXCEPT ![done.lun].CreateOperationId = Operations[s].Id]
           /\ ~(done.status = "SUCCESS" /\ Command.mutation = "Create") => UNCHANGED luns
           /\ Operations'[s] \in Record
           /\ Respond("SUCCESS", CopyResult(Operations'[s]))
<1> USE DEF ManagementInv
<1> DEFINE s == FindOperation(Command.operation)
           done == call["worker"]
<1>1. worker.pc = "running" /\ Command.reserved
  BY DEF PublishOperationResult
<1>2. /\ s \in Slots /\ SlotsOf(Command.operation) = {s} /\ RecordFor(s, Command)
      /\ worker.snapshot = Operations[s]
  BY <1>1, RunningRecord
<1>3. worker.snapshot.Id = Command.operation
  BY <1>2 DEF RecordFor
<1> HIDE DEF s
<1>4. /\ Operations' = [Operations EXCEPT ![s] = Outcome]
      /\ IF Outcome.Result = "SUCCESS" /\ Outcome.Mutation = "Create"
         THEN BindCreateOperation(Outcome.Lun, Outcome.Id)
         ELSE UNCHANGED luns
      /\ Respond("SUCCESS", CopyResult(Outcome))
  BY <1>2, <1>3 DEF PublishOperationResult, s
<1>5. Outcome \in Record
  BY RecordTypes
<1>6. Operations'[s] = Outcome /\ OnlyRecord(s)
  BY <1>2, <1>4 DEF TypeOK, OnlyRecord
<1>7. /\ Outcome.Id = Operations[s].Id /\ Outcome.Mutation = Operations[s].Mutation
      /\ Outcome.State = IF done.status = "SUCCESS" THEN "Succeeded" ELSE "Failed"
      /\ Outcome.Result = done.status /\ Outcome.DeviceId = done.deviceId
      /\ done.status = "SUCCESS" /\ Operations[s].Mutation = "Create" => Outcome.Lun = done.lun
  <2>1. Operations[s] \in Record
    BY <1>2 DEF TypeOK
  <2> QED
    BY <1>2, <2>1 DEF Outcome, Record
<1> HIDE DEF done
<1>8. Operations[s].Mutation = Command.mutation
  BY <1>2 DEF RecordFor
<1> QED
  BY <1>2, <1>4, <1>5, <1>6, <1>7, <1>8 DEF BindCreateOperation, s, done

\* The removal of a disk turns the create that made it, and no other record, Deleted.
LEMMA DeletedRecords ==
  ASSUME ManagementInv, NEW t \in Threads, FinalizeDiskRemoval(t), NEW s \in Slots
  PROVE  LET marked == /\ Operations[s].Mutation = "Create"
                       /\ Operations[s].DeviceId = call[t].deviceId
                       /\ Operations[s].State = "Succeeded" IN
         /\ Operations'[s].Id = Operations[s].Id /\ Operations'[s].Mutation = Operations[s].Mutation
         /\ Operations'[s].DeviceId = Operations[s].DeviceId
         /\ Operations'[s].Lun = Operations[s].Lun
         /\ marked => Operations'[s].State = "Deleted"
         /\ ~marked => Operations'[s] = Operations[s]
<1>1. Operations[s] \in Record
  BY DEF ManagementInv, TypeOK
<1> QED
  BY <1>1 DEF FinalizeDiskRemoval, MarkCreatesDeleted, Record

\* The other steps do not touch the table.
LEMMA TableUntouched ==
  ASSUME ManagementInv,
         \/ StillStep \/ (\E t \in Threads : LookStep(t)) \/ CommitDisk \/ MarkDisk \/ MarkAllDisks
         \/ (\E c \in Srbs : QueueWorkItem(c)) \/ StartWorkItem \/ SnapshotPendingOperation
         \/ ProcessLegacyRequest \/ WriteLegacyResponse \/ CompleteRequest \/ BusChangeDetected
         \/ FinishManagement \/ ReleaseLunLock \/ WorkerReturns \/ HandBackStep
  PROVE  UNCHANGED <<Operations, NextOperationId>>
  BY HandBackSteps DEF StillStep, LookStep, CommitDisk, MarkDisk, MutatingStep, MarkAllDisks, QueueWorkItem,
     StartWorkItem, SnapshotPendingOperation, ProcessLegacyRequest, WriteLegacyResponse,
     CompleteRequest, BusChangeDetected, FinishManagement, ReleaseLunLock, WorkerReturns,
     Unwind, managementVars

\* Only a reservation puts an ID into the table, and it is the next one.
LEMMA TableStep ==
  ASSUME ManagementInv, [Next]_vars
  PROVE  Table'
<1> USE DEF ManagementInv
<1>0. NextOperationId \in Nat /\ \A s \in Slots : Operations[s] \in Record /\ Operations[s].Id \in Nat
  BY ModulusAssumption DEF TypeOK, Record, OperationIds
<1>1. CASE UNCHANGED <<Operations, NextOperationId>>
  BY <1>1 DEF Table, Issued
<1>2. ASSUME NEW s \in Slots, OnlyRecord(s), UNCHANGED NextOperationId,
             Operations[s].Id # 0, Operations'[s].Id = Operations[s].Id,
             Operations'[s].Mutation = Operations[s].Mutation,
             Operations'[s].State \in OperationState \ {"Deleted"}
      PROVE  Table'
  BY <1>2 DEF OnlyRecord, Table, Issued
<1>3. ASSUME NEW mutation \in Mutations, ReserveOperation(mutation)
      PROVE  Table'
  <2>1. PICK s \in Slots :
          /\ Operations'[s].Id = NextOperationId /\ Operations'[s].Mutation = mutation
          /\ Operations'[s].State = "Reserved" /\ OnlyRecord(s)
    BY <1>3, ReservedRecord
  <2>2. /\ NextOperationId # 0
        /\ NextOperationId' = 0 \/ NextOperationId' = NextOperationId + 1
    BY <1>3, ReservedRecord
  <2>3. \A r \in Slots \ {s} : Operations'[r] = Operations[r]
    BY <2>1 DEF OnlyRecord
  <2>4. ASSUME NEW r \in Slots, Operations'[r].Id # 0
        PROVE  /\ Issued(Operations[r].Id)'
               /\ Operations'[r].Mutation \in Mutations /\ Operations'[r].State \in OperationState
               /\ Operations'[r].State = "Deleted" => Operations'[r].Mutation = "Create"
    <3>1. CASE r = s
      BY <1>0, <2>1, <2>2, <3>1 DEF Issued, OperationState
    <3>2. CASE r # s
      <4>1. Operations'[r] = Operations[r] /\ Operations[r].Id < NextOperationId
        BY <2>2, <2>3, <2>4, <3>2 DEF Table, Issued
      <4> QED
        BY <1>0, <2>2, <2>4, <4>1 DEF Table, Issued
    <3> QED
      BY <3>1, <3>2
  <2>5. ASSUME NEW r \in Slots, NEW q \in Slots, Operations'[r].Id # 0,
               Operations'[q].Id = Operations'[r].Id
        PROVE  q = r
    <3>1. ASSUME NEW p \in Slots \ {s}, Operations[p].Id # 0
          PROVE  Operations[p].Id # NextOperationId
      BY <1>0, <2>2, <3>1 DEF Table, Issued
    <3> QED
      BY <2>1, <2>3, <2>5, <3>1 DEF Table
  <2>6. ASSUME NEW r \in Slots, Operations'[r].Id = 0
        PROVE  Operations'[r] = NoRecord
    BY <2>1, <2>2, <2>3, <2>6 DEF Table
  <2> QED
    BY <2>4, <2>5, <2>6 DEF Table
<1>4. ASSUME NEW c \in Srbs, NEW command \in MutationCommand, PrepareSubmission(c, command)
      PROVE  Table'
  <2>1. UNCHANGED NextOperationId /\ (~command.reserved => UNCHANGED Operations)
    BY <1>4 DEF PrepareSubmission
  <2>2. CASE command.reserved
    BY <1>2, <1>4, <2>1, <2>2, AcceptedRecord DEF OnlyRecord, OperationState
  <2> QED
    BY <1>1, <2>1, <2>2
<1>5. ASSUME NEW c \in Srbs, InProgress(c), NEW status \in Status, UNCHANGED NextOperationId,
             Operations' = FailOperation(srb[c].command.operation, status)
      PROVE  Table'
  <2>1. PICK s \in Slots :
           /\ RecordFor(s, srb[c].command)
           /\ Operations'[s].Id = Operations[s].Id
           /\ Operations'[s].Mutation = Operations[s].Mutation
           /\ Operations'[s].State = "Failed" /\ OnlyRecord(s)
    BY <1>5, FailedRecord
  <2>2. Operations[s].Id # 0
    BY <1>5, <2>1 DEF RecordFor, InProgress, Commands
  <2> QED
    BY <1>2, <1>5, <2>1, <2>2 DEF OperationState
<1>6. ASSUME NEW c \in Srbs, QueueFails(c)
      PROVE  Table'
  <2>1. /\ UNCHANGED NextOperationId
        /\ Operations' = IF srb[c].command.reserved
                   THEN FailOperation(srb[c].command.operation, "INSUFFICIENT_RESOURCES")
                   ELSE Operations
    BY <1>6 DEF QueueFails
  <2> QED
    BY <1>1, <1>5, <1>6, <2>1, FailingSteps DEF Status
<1>7. CASE RejectOperation
  BY <1>5, <1>7, FailingSteps DEF Status, RejectOperation, Command
<1>8. CASE PublishOperationResult
  <2>1. PICK s \in Slots :
           /\ RecordFor(s, Command) /\ OnlyRecord(s)
           /\ Operations'[s].Id = Operations[s].Id /\ Operations'[s].Mutation = Command.mutation
           /\ Operations'[s].State \in {"Succeeded", "Failed"}
    BY <1>8, PublishedRecord
  <2>2. Operations[s].Id # 0 /\ Operations[s].Mutation = Command.mutation
    BY <1>8, <2>1, WorkerItem DEF RecordFor, PublishOperationResult, Working
  <2> QED
    BY <1>2, <1>8, <2>1, <2>2 DEF OperationState, PublishOperationResult
<1>9. ASSUME NEW t \in Threads, FinalizeDiskRemoval(t)
      PROVE  Table'
  <2>1. \A s \in Slots :
          /\ Operations'[s].Id = Operations[s].Id
          /\ Operations'[s].Mutation = Operations[s].Mutation
          /\ \/ Operations'[s] = Operations[s]
             \/ /\ Operations[s].State = "Succeeded" /\ Operations[s].Mutation = "Create"
                /\ Operations'[s].State = "Deleted"
    BY <1>9, DeletedRecords
  <2>2. UNCHANGED NextOperationId
    BY <1>9 DEF FinalizeDiskRemoval
  <2> QED
    BY <2>1, <2>2 DEF Table, Issued, NoRecord, OperationState
<1>10. CASE Initialize
  BY <1>10 DEF Initialize, Table, NoRecord
<1> QED
  BY <1>1, <1>3, <1>4, <1>6, <1>7, <1>8, <1>9, <1>10, StepKinds, TableUntouched
     DEF QuietKinds, WorkStep

\* The Pending record is there from PrepareSubmission to the publication of its outcome.
LEMMA PendingRecordsStep ==
  ASSUME ManagementInv, [Next]_vars
  PROVE  PendingRecords'
<1> USE DEF ManagementInv
<1> DEFINE PendingKept == \A s \in Slots :
             Operations[s].State = "Pending" \/ Operations'[s].State = "Pending"
               => Operations'[s] = Operations[s]
           SameWork == \A c \in Srbs :
             /\ Submitted(c)' <=> Submitted(c)
             /\ Submitted(c) => srb'[c].command = srb[c].command
<1>1. ASSUME PendingKept, SameWork, (worker'.pc = "complete") <=> (worker.pc = "complete"),
             worker'.pc = "running" /\ Command'.reserved => UNCHANGED worker
      PROVE  PendingRecords'
  <2>1. \A c \in Srbs : InProgress(c)' <=> InProgress(c)
    BY <1>1 DEF InProgress, Submitted
  <2>2. ASSUME NEW c \in Srbs, InProgress(c)'
        PROVE  \E s \in Slots :
                 /\ Operations'[s].Id = srb'[c].command.operation
                 /\ Operations'[s].State = "Pending"
                 /\ Operations'[s].Mutation = srb'[c].command.mutation
                 /\ Operations'[s].Create = srb'[c].command.create
                 /\ Operations'[s].Delete = srb'[c].command.delete
    <3>1. PICK s \in Slots : RecordFor(s, srb[c].command)
      BY <2>1, <2>2 DEF PendingRecords
    <3> QED
      BY <1>1, <2>1, <2>2, <3>1 DEF RecordFor, InProgress
  <2>3. ASSUME NEW s \in Slots, Operations'[s].State = "Pending"
        PROVE  \E c \in Srbs : InProgress(c)' /\ srb'[c].command.operation = Operations'[s].Id
    BY <1>1, <2>1, <2>3 DEF PendingRecords, InProgress
  <2>4. ASSUME worker'.pc = "running", Command'.reserved
        PROVE  \E s \in Slots :
                 /\ Operations'[s].Id = Command'.operation
                 /\ Operations'[s].State = "Pending"
                 /\ Operations'[s].Mutation = Command'.mutation
                 /\ Operations'[s].Create = Command'.create
                 /\ Operations'[s].Delete = Command'.delete
                 /\ worker'.snapshot = Operations'[s]
    <3>1. worker.item \in Srbs /\ UNCHANGED worker
      BY <1>1, <2>4, WorkerItem DEF Working
    <3>2. Command' = Command
      BY <1>1, <2>4, <3>1, WorkerItem DEF Command, Working
    <3>3. PICK s \in Slots : RecordFor(s, Command) /\ worker.snapshot = Operations[s]
      BY <2>4, <3>1, <3>2 DEF PendingRecords
    <3> QED
      BY <1>1, <3>1, <3>2, <3>3 DEF RecordFor
  <2> QED
    BY <2>2, <2>3, <2>4 DEF PendingRecords, RecordFor
<1>2. ASSUME \A s \in Slots : Operations'[s].State # "Pending",
             \A c \in Srbs : ~InProgress(c)', worker'.pc # "running"
      PROVE  PendingRecords'
  BY <1>2 DEF PendingRecords
<1>3. ASSUME UNCHANGED <<srb, worker>>, PendingKept
      PROVE  PendingRecords'
  BY <1>1, <1>3 DEF Submitted
<1>4. CASE StillStep \/ MarkAllDisks \/ CommitDisk \/ MarkDisk \/ \E t \in Threads : LookStep(t)
  <2>1. UNCHANGED <<srb, worker, Operations>>
    BY <1>4 DEF StillStep, MarkAllDisks, CommitDisk, MarkDisk, MutatingStep, LookStep,
       managementVars
  <2> QED
    BY <1>3, <2>1
<1>5. ASSUME NEW t \in Threads, FinalizeDiskRemoval(t)
      PROVE  PendingRecords'
  <2>1. PendingKept
    BY <1>5, DeletedRecords
  <2> QED
    BY <1>3, <1>5, <2>1 DEF FinalizeDiskRemoval
<1>6. ASSUME NEW mutation \in Mutations, ReserveOperation(mutation)
      PROVE  PendingRecords'
  <2>1. PendingKept
    BY <1>6, ReservedRecord DEF OnlyRecord
  <2> QED
    BY <1>3, <1>6, <2>1 DEF ReserveOperation
<1>7. ASSUME NEW c \in Srbs, NEW command \in MutationCommand,
             LunLockFree, PrepareSubmission(c, command)
      PROVE  PendingRecords'
  <2>1. UNCHANGED worker /\ ~ManagementBusy
    BY <1>7 DEF PrepareSubmission, SubmissionStatus, BeginManagement
  <2>2. worker.pc \notin Working /\ \A d \in Srbs : ~Submitted(d)
    BY <2>1, WorkerItem DEF Ownership
  <2>3. /\ srb'[c].command = command /\ srb'[c].owner = "startIo"
        /\ \A d \in Srbs \ {c} : srb'[d] = srb[d]
    BY <1>7 DEF PrepareSubmission, TypeOK
  <2>4. \A s \in Slots : Operations[s].State # "Pending"
    BY <2>2 DEF PendingRecords, InProgress
  <2>5. CASE ~command.reserved
    <3>1. UNCHANGED Operations
      BY <1>7, <2>5 DEF PrepareSubmission
    <3>2. \A d \in Srbs : ~InProgress(d)'
      BY <2>2, <2>3, <2>5 DEF InProgress, Submitted
    <3> QED
      BY <1>2, <2>1, <2>2, <2>4, <3>1, <3>2 DEF Working
  <2>6. CASE command.reserved
    <3>1. PICK s \in Slots :
           /\ Operations'[s].Id = command.operation /\ Operations'[s].State = "Pending"
           /\ Operations'[s].Mutation = command.mutation
           /\ Operations'[s].Create = command.create /\ Operations'[s].Delete = command.delete
           /\ \A r \in Slots \ {s} : Operations'[r] = Operations[r]
      BY <1>7, <2>6, AcceptedRecord
    <3>2. \A d \in Srbs : InProgress(d)' <=> d = c
      BY <2>1, <2>2, <2>3, <2>6 DEF InProgress, Submitted, Working
    <3>3. \A r \in Slots : Operations'[r].State = "Pending" => r = s
      BY <2>4, <3>1
    <3> QED
      BY <2>1, <2>2, <2>3, <3>1, <3>2, <3>3 DEF PendingRecords, RecordFor, Working
  <2> QED
    BY <2>5, <2>6
<1>8. ASSUME NEW c \in Srbs, QueueFails(c)
      PROVE  PendingRecords'
  <2>1. UNCHANGED worker /\ srb[c].owner = "startIo" /\ worker.pc \in {"none", "unwinding"}
    BY <1>8, FailingSteps DEF QueueFails
  <2>2. \A d \in Srbs \ {c} : ~Submitted(d)
    BY <2>1 DEF Ownership, Submitted
  <2>3. \A d \in Srbs : ~InProgress(d)'
    BY <1>8, <2>2 DEF QueueFails, InProgress, Submitted, NoSubmission, TypeOK
  <2>4. \A s \in Slots : Operations'[s].State # "Pending"
    <3>1. CASE ~srb[c].command.reserved
      <4>1. UNCHANGED Operations /\ \A d \in Srbs : ~InProgress(d)
        BY <1>8, <2>2, <3>1 DEF QueueFails, InProgress, Submitted
      <4> QED
        BY <4>1 DEF PendingRecords
    <3>2. CASE srb[c].command.reserved
      <4>1. Operations' = FailOperation(srb[c].command.operation, "INSUFFICIENT_RESOURCES")
        BY <1>8, <3>2 DEF QueueFails
      <4>2. PICK s \in Slots :
              RecordFor(s, srb[c].command) /\ Operations'[s].State = "Failed" /\ OnlyRecord(s)
        BY <1>8, <3>2, <4>1, FailingSteps, FailedRecord DEF Status
      <4>3. Operations[s].Id # 0
        BY <2>1, <3>2, <4>2 DEF RecordFor, Commands, Submitted
      <4>4. \A r \in Slots : Operations[r].State = "Pending" => r = s
        BY <2>2, <4>2, <4>3 DEF PendingRecords, InProgress, Submitted, Table, RecordFor
      <4> QED
        BY <4>2, <4>4 DEF OnlyRecord
    <3> QED
      BY <3>1, <3>2
  <2> QED
    BY <1>2, <2>1, <2>3, <2>4
<1>9. ASSUME NEW c \in Srbs, QueueWorkItem(c)
      PROVE  PendingRecords'
  <2>1. /\ UNCHANGED Operations /\ worker.pc = "none" /\ worker'.pc = "queued"
        /\ srb[c].owner = "startIo"
    BY <1>9 DEF QueueWorkItem, NoWork
  <2>2. SameWork
    BY <1>9, <2>1 DEF QueueWorkItem, Submitted, TypeOK, Srb
  <2> QED
    BY <1>1, <2>1, <2>2
<1>10. ASSUME WorkStep
       PROVE  /\ SameWork /\ worker.pc \in Working /\ worker.item \in Srbs /\ Command' = Command
              /\ \A c \in Srbs : Submitted(c) => c = worker.item
              /\ \A c \in Srbs : Submitted(c)' <=> Submitted(c)
  BY <1>10, WorkSteps, WorkerItem DEF SrbsKeepOwners, Submitted
<1>11. CASE StartWorkItem
  <2>1. UNCHANGED Operations /\ worker.pc = "queued" /\ worker'.pc = "started"
    BY <1>11 DEF StartWorkItem, TypeOK, Worker
  <2> QED
    BY <1>1, <1>10, <1>11, <2>1 DEF WorkStep
<1>12. ASSUME WorkStep, worker'.pc = "complete", NEW s \in Slots, RecordFor(s, Command),
              OnlyRecord(s), Operations'[s].State # "Pending", Command.reserved
       PROVE  PendingRecords'
  <2>1. \A c \in Srbs : ~InProgress(c)'
    BY <1>12 DEF InProgress
  <2>2. Operations[s].Id # 0
    BY <1>10, <1>12, WorkerItem DEF RecordFor
  <2>3. \A r \in Slots : Operations[r].State = "Pending" => r = s
    BY <1>10, <1>12, <2>2 DEF PendingRecords, InProgress, Table, RecordFor, Command
  <2> QED
    BY <1>2, <1>12, <2>1, <2>3 DEF OnlyRecord
<1>13. CASE RejectOperation
  <2>1. worker'.pc = "complete"
    BY <1>13 DEF RejectOperation, TypeOK, Worker
  <2>2. PICK s \in Slots : RecordFor(s, Command) /\ Operations'[s].State = "Failed" /\ OnlyRecord(s)
    BY <1>13, FailingSteps, FailedRecord DEF Status, Command
  <2> QED
    BY <1>12, <1>13, <2>1, <2>2, FailingSteps DEF WorkStep
<1>14. CASE SnapshotPendingOperation
  <2>1. worker.pc = "started" /\ Command.reserved /\ UNCHANGED Operations
    BY <1>14 DEF SnapshotPendingOperation
  <2> DEFINE s == FindOperation(Command.operation)
  <2>2. s \in Slots /\ SlotsOf(Command.operation) = {s} /\ RecordFor(s, Command)
    BY <2>1, RunningRecord
  <2>3. StillPending
    BY <2>1, <2>2, WorkerItem DEF StillPending, Known, RecordFor, Working
  <2>4. worker'.pc = "running" /\ worker'.snapshot = Operations[s]
    BY <1>14, <2>3 DEF SnapshotPendingOperation, TypeOK, Worker
  <2> HIDE DEF s
  <2>5. SameWork /\ Command' = Command
    BY <1>10, <1>14 DEF WorkStep
  <2>6. \A c \in Srbs : InProgress(c)' <=> InProgress(c)
    BY <2>1, <2>4, <2>5 DEF InProgress, Submitted
  <2> QED
    BY <2>1, <2>2, <2>4, <2>5, <2>6 DEF PendingRecords, RecordFor, InProgress
<1>15. CASE ProcessLegacyRequest
  <2>1. /\ UNCHANGED Operations /\ worker.pc = "started" /\ worker'.pc = "running"
        /\ ~Command.reserved
    BY <1>15 DEF ProcessLegacyRequest, TypeOK, Worker
  <2> QED
    BY <1>1, <1>10, <1>15, <2>1 DEF WorkStep
<1>16. CASE PublishOperationResult
  <2>1. worker'.pc = "complete" /\ Command.reserved
    BY <1>16 DEF PublishOperationResult, TypeOK, Worker
  <2>2. PICK s \in Slots :
          RecordFor(s, Command) /\ Operations'[s].State \in {"Succeeded", "Failed"} /\ OnlyRecord(s)
    BY <1>16, PublishedRecord
  <2> QED
    BY <1>12, <1>16, <2>1, <2>2 DEF WorkStep
<1>17. CASE WriteLegacyResponse
  <2>1. /\ UNCHANGED Operations /\ worker'.pc = "complete" /\ ~Command.reserved
    BY <1>17 DEF WriteLegacyResponse, TypeOK, Worker
  <2>2. \A c \in Srbs : ~InProgress(c) /\ ~InProgress(c)'
    BY <1>10, <1>17, <2>1 DEF WorkStep, InProgress, Command
  <2> QED
    BY <1>2, <2>1, <2>2 DEF PendingRecords
<1>18. CASE CompleteRequest
  <2>1. /\ UNCHANGED Operations /\ worker.pc = "complete" /\ worker'.pc = "notify"
    BY <1>18 DEF CompleteRequest, TypeOK, Worker
  <2>2. worker.item \in Srbs /\ \A c \in Srbs : Submitted(c) => c = worker.item
    BY <2>1, WorkerItem DEF Working
  <2>3. \A c \in Srbs : ~Submitted(c)'
    BY <1>18, <2>2 DEF CompleteRequest, Submitted, TypeOK, NoSubmission
  <2> QED
    BY <1>2, <2>1, <2>3 DEF PendingRecords, InProgress
<1>19. CASE BusChangeDetected \/ FinishManagement \/ ReleaseLunLock \/ WorkerReturns
  <2>1. /\ UNCHANGED <<Operations, srb>> /\ worker.pc # "complete"
        /\ worker'.pc \notin {"complete", "running"}
    BY <1>19 DEF BusChangeDetected, FinishManagement, ReleaseLunLock, WorkerReturns, Unwind,
       TypeOK, Worker, NoWork
  <2> QED
    BY <1>1, <2>1 DEF Submitted
<1>20. CASE Initialize
  <2>1. /\ UNCHANGED <<srb, worker>> /\ \A s \in Slots : Operations'[s].State = "None"
    BY <1>20 DEF Initialize, NoRecord
  <2>2. worker.pc = "none" /\ \A c \in Srbs : ~Submitted(c)
    BY <1>20 DEF Initialize, TeardownOrder, Ownership
  <2> QED
    BY <1>2, <2>1, <2>2 DEF InProgress, Submitted
<1>21. CASE HandBackStep
  <2>1. UNCHANGED <<Operations, worker>> /\ SameWork
    BY <1>21, HandBackSteps
  <2> QED
    BY <1>1, <2>1
<1> QED
  BY <1>4, <1>5, <1>6, <1>7, <1>8, <1>9, <1>11, <1>13, <1>14, <1>15, <1>16, <1>17, <1>18, <1>19,
     <1>20, <1>21, StepKinds DEF QuietKinds, WorkStep

\* The worker's steps inside a call mutate at most once: at the commit or at the mark.
LEMMA MutatedSteps ==
  ASSUME ManagementInv
  PROVE  /\ \A t \in Threads : LookStep(t) => (Mutated' <=> Mutated)
         /\ CommitDisk \/ MarkDisk => ~Mutated /\ Mutated'
         /\ \A t \in Threads : FinalizeDiskRemoval(t) /\ worker.pc = "running" => Mutated /\ Mutated'
         /\ \A t \in Threads : FinalizeDiskRemoval(t) /\ worker.pc # "running" => t = "teardown"
         /\ MarkAllDisks => worker.pc # "running"
<1> USE DEF ManagementInv, Mutated
<1>0. StoreTypeOK /\ "worker" \in Threads /\ "teardown" \in Threads
  BY DEF TypeOK, Threads
<1>1. ASSUME NEW t \in Threads, LookStep(t)
      PROVE  Mutated' <=> Mutated
  <2>1. CASE t = "worker"
    <3>1. worker.pc = "running" /\ Command \in MutationCommand
      BY <1>1, <2>1, LookSteps, WhoCalls, WorkerItem DEF Working
    <3>2. call["worker"].pc \in {"select", "allocate", "commit", "mark", "wait", "detach",
                                 "free", "finalize"}
      BY <1>1, <2>1, <3>1, LookSteps, CommandFields DEF WorkerCall, Mutations
    <3> QED
      BY <1>1, <2>1, <3>2, LookSteps
  <2>2. CASE t = "teardown"
    BY <1>1, <2>2, LookSteps
  <2> QED
    BY <2>1, <2>2 DEF Threads
<1>2. ASSUME CommitDisk
      PROVE  ~Mutated /\ Mutated'
  BY <1>0, <1>2, CallMoves DEF CommitDisk, Succeeds, Moves
<1>3. ASSUME MarkDisk
      PROVE  ~Mutated /\ Mutated'
  BY <1>0, <1>3, CallMoves DEF MarkDisk, Moves
<1>4. ASSUME NEW t \in Threads, FinalizeDiskRemoval(t)
      PROVE  /\ worker.pc = "running" => Mutated /\ Mutated'
             /\ worker.pc # "running" => t = "teardown"
  <2>1. FinalizeRemoval(t) /\ StoreCall(t)
    BY <1>4 DEF FinalizeDiskRemoval, StoreCall
  <2>2. t = "worker" => call["worker"].pc = "finalize" /\ Mutated'
    BY <1>0, <2>1, CallMoves DEF Succeeds, Moves
  <2> QED
    BY <2>1, <2>2, WhoCalls DEF Threads, Working
<1>5. ASSUME MarkAllDisks
      PROVE  worker.pc # "running"
  BY <1>0, <1>5, WhoCalls DEF MarkAllDisks, StoreCall, LockedCallStep, Working
<1> QED
  BY <1>1, <1>2, <1>3, <1>4, <1>5

\* The observer counts at most one mutation for an ID, and the table tells which IDs have one.
LEMMA EffectsStep ==
  ASSUME ManagementInv, [Next]_vars
  PROVE  Effects'
<1> USE DEF ManagementInv
<1>0. /\ NextOperationId \in Nat /\ OperationIds \subseteq Nat
      /\ \A s \in Slots : Operations[s] \in Record /\ Operations[s].Id \in OperationIds
  BY ModulusAssumption DEF TypeOK, Record, OperationIds
<1> DEFINE Running == worker.pc = "running" /\ Mutated
<1>1. ASSUME UNCHANGED <<Operations, NextOperationId, effects>>,
             (\E s \in Slots : Operations[s].State = "Pending") => (Running' <=> Running)
      PROVE  Effects'
  BY <1>1 DEF Effects, Issued
<1>2. ASSUME UNCHANGED <<NextOperationId, effects>>, NEW s \in Slots, OnlyRecord(s),
             Operations'[s].Id = Operations[s].Id, Operations[s].Id # 0,
             Operations'[s].State \in {"Reserved", "Failed"} => effects[Operations[s].Id] = 0,
             Operations'[s].State \in {"Succeeded", "Deleted"} => effects[Operations[s].Id] = 1,
             Operations'[s].State = "Pending" =>
               (effects[Operations[s].Id] = 1 <=> Running'),
             \A r \in Slots \ {s} : Operations[r].State # "Pending"
      PROVE  Effects'
  BY <1>2 DEF Effects, Issued, OnlyRecord
<1>3. CASE StillStep
  BY <1>1, <1>3 DEF StillStep, Mutated
<1>4. ASSUME NEW t \in Threads, LookStep(t)
      PROVE  Effects'
  BY <1>1, <1>4, MutatedSteps DEF LookStep, managementVars
<1>5. CASE MarkAllDisks
  BY <1>1, <1>5, MutatedSteps DEF MarkAllDisks, managementVars
<1>6. CASE CommitDisk \/ MarkDisk
  <2>1. /\ UNCHANGED <<Operations, NextOperationId, worker>> /\ ~Mutated /\ Mutated'
        /\ CountEffect
    BY <1>6, MutatedSteps DEF CommitDisk, MarkDisk, MutatingStep
  <2>2. worker.pc = "running"
    BY <1>6, WhoCalls DEF CommitDisk, MarkDisk, StoreCall, LockedCallStep, Threads
  <2>3. \A c \in Srbs : Submitted(c) => c = worker.item
    BY <2>2, WorkerItem DEF Working
  <2>4. CASE ~Command.reserved
    <3>1. UNCHANGED effects /\ \A s \in Slots : Operations[s].State # "Pending"
      BY <2>1, <2>3, <2>4 DEF CountEffect, PendingRecords, InProgress, Command
    <3> QED
      BY <1>1, <2>1, <3>1
  <2>5. CASE Command.reserved
    <3> DEFINE id == Command.operation
    <3>1. PICK s \in Slots : RecordFor(s, Command)
      BY <2>2, <2>5 DEF PendingRecords
    <3>2. id # 0 /\ id \in OperationIds /\ Operations[s].Id = id /\ Operations[s].State = "Pending"
      BY <1>0, <2>2, <2>5, <3>1, WorkerItem DEF RecordFor, Working
    <3>3. effects[id] = 0 /\ Issued(id)
      BY <2>1, <3>2 DEF Effects, Table
    <3>4. effects' = [effects EXCEPT ![id] = 1]
      BY <2>1, <2>5, <3>3 DEF CountEffect
    <3> HIDE DEF id
    <3>5. effects'[id] = 1 /\ \A i \in OperationIds \ {id} : effects'[i] = effects[i]
      BY <3>2, <3>4 DEF TypeOK
    <3>6. \A r \in Slots : Operations[r].Id = id => r = s
      BY <3>2 DEF Table
    <3>7. \A r \in Slots \ {s} : Operations[r].State # "Pending"
      BY <2>3, <3>2, <3>6 DEF PendingRecords, InProgress, Command, id
    <3>8. \A i \in OperationIds : Issued(i)' <=> Issued(i)
      BY <2>1 DEF Issued
    <3>9. \A i \in OperationIds : effects'[i] \in {0, 1} /\ (~Issued(i)' => effects'[i] = 0)
      BY <3>2, <3>3, <3>5, <3>8 DEF Effects
    <3>10. ASSUME NEW r \in Slots, Operations'[r].Id # 0
           PROVE  /\ Operations'[r].State \in {"Reserved", "Failed"} => effects'[Operations'[r].Id] = 0
                  /\ Operations'[r].State \in {"Succeeded", "Deleted"} =>
                       effects'[Operations'[r].Id] = 1
                  /\ Operations'[r].State = "Pending" =>
                       (effects'[Operations'[r].Id] = 1 <=> worker'.pc = "running" /\ Mutated')
      BY <1>0, <2>1, <2>2, <3>2, <3>5, <3>6, <3>7, <3>10 DEF Effects
    <3> QED
      BY <3>9, <3>10 DEF Effects
  <2> QED
    BY <2>4, <2>5
<1>7. ASSUME NEW t \in Threads, FinalizeDiskRemoval(t)
      PROVE  Effects'
  <2>1. UNCHANGED <<NextOperationId, effects, worker>>
    BY <1>7 DEF FinalizeDiskRemoval
  <2>2. Running' <=> Running
    BY <1>7, <2>1, MutatedSteps
  <2>3. \A s \in Slots :
          /\ Operations'[s].Id = Operations[s].Id
          /\ \/ Operations'[s] = Operations[s]
             \/ Operations[s].State = "Succeeded" /\ Operations'[s].State = "Deleted"
    BY <1>7, DeletedRecords
  <2> QED
    BY <2>1, <2>2, <2>3 DEF Effects, Issued
<1>8. ASSUME NEW mutation \in Mutations, ReserveOperation(mutation)
      PROVE  Effects'
  <2>1. PICK s \in Slots :
          /\ Operations'[s].Id = NextOperationId /\ Operations'[s].State = "Reserved"
          /\ OnlyRecord(s)
    BY <1>8, ReservedRecord
  <2>2. /\ NextOperationId # 0
        /\ NextOperationId' = 0 \/ NextOperationId' = NextOperationId + 1
    BY <1>8, ReservedRecord
  <2>3. UNCHANGED <<effects, worker, call>>
    BY <1>8 DEF ReserveOperation, storeVars
  <2>4. effects[NextOperationId] = 0
    BY <1>0, <2>2 DEF Effects, Issued, TypeOK
  <2>5. \A i \in OperationIds : ~Issued(i)' => ~Issued(i)
    BY <1>0, <2>2 DEF Issued
  <2> QED
    BY <2>1, <2>3, <2>4, <2>5 DEF Effects, OnlyRecord, Mutated
<1>9. ASSUME NEW c \in Srbs, NEW command \in MutationCommand, PrepareSubmission(c, command)
      PROVE  Effects'
  <2>1. UNCHANGED <<NextOperationId, effects, worker>> /\ ~ManagementBusy
    BY <1>9 DEF PrepareSubmission, SubmissionStatus, BeginManagement
  <2>2. worker.pc # "running" /\ \A d \in Srbs : ~Submitted(d)
    BY <2>1, WorkerItem DEF Ownership, Working
  <2>3. CASE ~command.reserved
    <3>1. UNCHANGED Operations
      BY <1>9, <2>3 DEF PrepareSubmission
    <3> QED
      BY <1>1, <2>1, <2>2, <3>1
  <2>4. CASE command.reserved
    <3>1. PICK s \in Slots :
            /\ Operations[s].Id # 0 /\ Operations[s].State = "Reserved"
            /\ Operations'[s].Id = Operations[s].Id /\ Operations'[s].State = "Pending"
            /\ OnlyRecord(s)
      BY <1>9, <2>4, AcceptedRecord DEF OnlyRecord
    <3>2. effects[Operations[s].Id] = 0 /\ \A r \in Slots : Operations[r].State # "Pending"
      BY <2>2, <3>1 DEF Effects, PendingRecords, InProgress
    <3> QED
      BY <1>2, <2>1, <2>2, <3>1, <3>2
  <2> QED
    BY <2>3, <2>4
<1>10. ASSUME NEW c \in Srbs, InProgress(c), worker.pc # "running", worker'.pc # "running",
              UNCHANGED <<NextOperationId, effects>>, NEW status \in Status,
              Operations' = FailOperation(srb[c].command.operation, status)
       PROVE  Effects'
  <2>1. PICK s \in Slots :
           /\ RecordFor(s, srb[c].command) /\ Operations'[s].Id = Operations[s].Id
           /\ Operations'[s].State = "Failed" /\ OnlyRecord(s)
    BY <1>10, FailedRecord
  <2>2. Operations[s].Id # 0 /\ Operations[s].State = "Pending"
    BY <1>10, <2>1 DEF RecordFor, InProgress, Commands
  <2>3. effects[Operations[s].Id] = 0
    BY <1>0, <1>10, <2>2 DEF Effects
  <2>4. \A r \in Slots : Operations[r].State = "Pending" => r = s
    BY <1>10, <2>1, <2>2 DEF PendingRecords, InProgress, Ownership, Table, RecordFor
  <2> QED
    BY <1>2, <1>10, <2>1, <2>2, <2>3, <2>4
<1>11. ASSUME NEW c \in Srbs, QueueFails(c)
       PROVE  Effects'
  <2>1. /\ UNCHANGED <<NextOperationId, effects, worker>>
        /\ Operations' = IF srb[c].command.reserved
                   THEN FailOperation(srb[c].command.operation, "INSUFFICIENT_RESOURCES")
                   ELSE Operations
    BY <1>11 DEF QueueFails
  <2>2. /\ srb[c].command.reserved => InProgress(c)
        /\ worker.pc \in {"none", "unwinding"}
    BY <1>11, FailingSteps
  <2> QED
    BY <1>1, <1>10, <2>1, <2>2 DEF Status
<1>12. CASE RejectOperation
  <2>1. worker.pc = "started" /\ worker'.pc = "complete" /\ UNCHANGED <<NextOperationId, effects>>
    BY <1>12 DEF RejectOperation, TypeOK, Worker
  <2> QED
    BY <1>10, <1>12, <2>1, FailingSteps DEF Status, Command
<1>13. CASE SnapshotPendingOperation \/ ProcessLegacyRequest
  <2>1. worker.pc = "started" /\ UNCHANGED <<Operations, NextOperationId, effects>>
    BY <1>13 DEF SnapshotPendingOperation, ProcessLegacyRequest
  <2>2. worker'.pc = "running" => call'["worker"].pc \in {"select", "mark"}
    <3>1. worker'.pc = "running" =>
            \/ \E request : BeginCreate("worker", request)
            \/ \E deviceId : BeginDelete("worker", deviceId)
      BY <1>13 DEF SnapshotPendingOperation, ProcessLegacyRequest, TypeOK, Worker
    <3> QED
      BY <3>1, CallBegins DEF TypeOK
  <2> QED
    BY <1>1, <2>1, <2>2 DEF Mutated
<1>14. CASE PublishOperationResult
  <2>1. /\ worker.pc = "running" /\ worker'.pc = "complete" /\ Command.reserved
        /\ UNCHANGED <<NextOperationId, effects>> /\ call["worker"].pc = "returned"
    BY <1>14 DEF PublishOperationResult, TypeOK, Worker, Collect
  <2>2. PICK s \in Slots :
           /\ RecordFor(s, Command) /\ OnlyRecord(s) /\ Operations'[s].Id = Operations[s].Id
           /\ Operations'[s].State = IF call["worker"].status = "SUCCESS" THEN "Succeeded"
                                     ELSE "Failed"
    BY <1>14, PublishedRecord
  <2>3. /\ Operations[s].Id # 0 /\ Operations[s].State = "Pending" /\ worker.item \in Srbs
        /\ \A c \in Srbs : Submitted(c) => c = worker.item
    BY <2>1, <2>2, WorkerItem DEF RecordFor, Working
  <2>4. effects[Operations[s].Id] = IF call["worker"].status = "SUCCESS" THEN 1 ELSE 0
    BY <1>0, <2>1, <2>3 DEF Effects, Mutated
  <2>5. \A r \in Slots : Operations[r].State = "Pending" => r = s
    BY <2>2, <2>3 DEF PendingRecords, InProgress, Table, RecordFor, Command
  <2> QED
    BY <1>2, <2>1, <2>2, <2>3, <2>4, <2>5
<1>15. CASE WriteLegacyResponse
  <2>1. /\ worker.pc = "running" /\ ~Command.reserved
        /\ UNCHANGED <<Operations, NextOperationId, effects>>
    BY <1>15 DEF WriteLegacyResponse
  <2>2. \A s \in Slots : Operations[s].State # "Pending"
    BY <2>1, WorkerItem DEF PendingRecords, InProgress, Command, Working
  <2> QED
    BY <1>1, <2>1, <2>2
<1>16. CASE \/ (\E c \in Srbs : QueueWorkItem(c)) \/ StartWorkItem \/ CompleteRequest
            \/ BusChangeDetected \/ FinishManagement \/ ReleaseLunLock \/ WorkerReturns
  <2>1. /\ worker.pc # "running" /\ worker'.pc # "running"
        /\ UNCHANGED <<Operations, NextOperationId, effects>>
    BY <1>16 DEF QueueWorkItem, StartWorkItem, CompleteRequest, BusChangeDetected,
       FinishManagement, ReleaseLunLock, WorkerReturns, Unwind, TypeOK, Worker, NoWork
  <2> QED
    BY <1>1, <2>1
<1>17. CASE Initialize
  BY <1>17 DEF Initialize, Effects, NoRecord
<1>18. CASE HandBackStep
  <2>1. UNCHANGED <<Operations, NextOperationId, effects, worker, call>>
    BY <1>18, HandBackSteps DEF storeVars
  <2> QED
    BY <1>1, <2>1 DEF Mutated
<1> QED
  BY <1>3, <1>4, <1>5, <1>6, <1>7, <1>8, <1>9, <1>11, <1>12, <1>13, <1>14, <1>15, <1>16, <1>17,
     <1>18, StepKinds DEF QuietKinds, WorkStep

-----------------------------------------------------------------------------
(***************************************************************************)
(* The table and the disks.                                                *)
(***************************************************************************)

\* The steps that leave the disks alone, besides the looks and the still ones.
LEMMA DisksUntouched ==
  ASSUME ManagementInv,
         \/ (\E mutation \in Mutations : ReserveOperation(mutation))
         \/ (\E c \in Srbs, command \in MutationCommand : PrepareSubmission(c, command))
         \/ (\E c \in Srbs : QueueFails(c) \/ QueueWorkItem(c))
         \/ StartWorkItem \/ RejectOperation \/ SnapshotPendingOperation
         \/ ProcessLegacyRequest \/ WriteLegacyResponse \/ CompleteRequest \/ BusChangeDetected
         \/ FinishManagement \/ ReleaseLunLock \/ WorkerReturns \/ HandBackStep
  PROVE  UNCHANGED <<luns, NextDeviceId>>
  BY HandBackSteps DEF ReserveOperation, PrepareSubmission, QueueFails, QueueWorkItem, StartWorkItem,
     RejectOperation, SnapshotPendingOperation, ProcessLegacyRequest, WriteLegacyResponse,
     CompleteRequest, BusChangeDetected, FinishManagement, ReleaseLunLock, WorkerReturns,
     Unwind, storeVars

\* Publishing, eviction, marking, removal and commit keep the records of the creates and
\* the LUN table in step.
LEMMA ConsistencyStep ==
  ASSUME ManagementInv, [Next]_vars
  PROVE  OperationLunConsistency'
<1> USE DEF ManagementInv
<1>0. /\ StoreInv /\ \A s \in Slots : Operations[s] \in Record /\ Operations[s].Lun \in Luns
      /\ luns \in [Luns -> Lun] /\ "worker" \in Threads /\ "teardown" \in Threads
  BY DEF TypeOK, StoreTypeOK, Record, Threads
<1> DEFINE LiveCreate(record) == record.Mutation = "Create" /\ record.State = "Succeeded"
<1>1. ASSUME \A s \in Slots : LiveCreate(Operations[s]) \/ LiveCreate(Operations'[s]) =>
               Operations'[s] = Operations[s],
             \A l \in Luns :
               /\ luns'[l].CreateOperationId = luns[l].CreateOperationId
               /\ luns[l].State # "Empty" =>
                    luns'[l].State # "Empty" /\ luns'[l].DeviceId = luns[l].DeviceId
      PROVE  OperationLunConsistency'
  BY <1>0, <1>1 DEF OperationLunConsistency
<1>2. ASSUME UNCHANGED Operations, \A l \in Luns : SameIdentity(l)
      PROVE  OperationLunConsistency'
  BY <1>1, <1>2 DEF SameIdentity
<1>3. CASE StillStep
  BY <1>2, <1>3 DEF StillStep
<1>4. ASSUME NEW t \in Threads, LookStep(t)
      PROVE  OperationLunConsistency'
  BY <1>2, <1>4, LookSteps DEF managementVars
<1>5. CASE CommitDisk
  <2> DEFINE l == call["worker"].lun
  <2>1. /\ l \in Luns /\ luns[l].State = "Empty" /\ luns'[l].State = "Online"
        /\ luns'[l].CreateOperationId = 0 /\ \A k \in Luns \ {l} : luns'[k] = luns[k]
    BY <1>0, <1>5, IdentityChanges DEF CommitDisk
  <2> HIDE DEF l
  <2>2. UNCHANGED Operations
    BY <1>5 DEF CommitDisk, MutatingStep
  <2>3. \A s \in Slots : LiveCreate(Operations[s]) => Operations[s].Lun # l
    BY <2>1 DEF OperationLunConsistency
  <2> QED
    BY <1>0, <2>1, <2>2, <2>3 DEF OperationLunConsistency
<1>6. CASE MarkDisk
  <2>1. PICK l \in Luns :
          /\ luns[l].State = "Online" /\ luns'[l].State = "Stopping"
          /\ luns'[l].DeviceId = luns[l].DeviceId
          /\ luns'[l].CreateOperationId = luns[l].CreateOperationId
          /\ \A k \in Luns \ {l} : luns'[k] = luns[k]
    BY <1>0, <1>6, IdentityChanges DEF MarkDisk
  <2>2. UNCHANGED Operations
    BY <1>6 DEF MarkDisk, MutatingStep
  <2> QED
    BY <1>1, <2>1, <2>2
<1>7. CASE MarkAllDisks
  <2>1. \A l \in Luns :
          /\ luns'[l].State = IF luns[l].State = "Online" THEN "Stopping" ELSE luns[l].State
          /\ luns'[l].DeviceId = luns[l].DeviceId
          /\ luns'[l].CreateOperationId = luns[l].CreateOperationId
    BY <1>0, <1>7, IdentityChanges DEF MarkAllDisks
  <2>2. UNCHANGED Operations
    BY <1>7 DEF MarkAllDisks, managementVars
  <2> QED
    BY <1>1, <2>1, <2>2
<1>8. ASSUME NEW t \in Threads, FinalizeDiskRemoval(t)
      PROVE  OperationLunConsistency'
  <2> DEFINE l == call[t].lun
             id == call[t].deviceId
  <2>1. /\ l \in Luns /\ luns[l].State = "Stopping" /\ luns[l].DeviceId = id
        /\ luns'[l].State = "Empty" /\ luns'[l].CreateOperationId = 0
        /\ \A k \in Luns \ {l} : luns'[k] = luns[k]
    BY <1>0, <1>8, IdentityChanges DEF FinalizeDiskRemoval
  <2>2. \A s \in Slots :
          /\ LiveCreate(Operations'[s]) =>
               Operations'[s] = Operations[s] /\ Operations[s].DeviceId # id
          /\ LiveCreate(Operations[s]) /\ Operations[s].DeviceId # id =>
               Operations'[s] = Operations[s]
    BY <1>8, DeletedRecords
  <2> HIDE DEF l, id
  <2>3. ASSUME NEW s \in Slots, LiveCreate(Operations'[s])
        PROVE  LET lun == luns'[Operations'[s].Lun] IN
                 /\ lun.State # "Empty" /\ lun.DeviceId = Operations'[s].DeviceId
                 /\ lun.CreateOperationId = Operations'[s].Id
    <3>1. Operations[s].Lun # l /\ Operations'[s] = Operations[s]
      BY <2>1, <2>2, <2>3 DEF OperationLunConsistency
    <3> QED
      BY <1>0, <2>1, <2>3, <3>1 DEF OperationLunConsistency
  <2>4. ASSUME NEW k \in Luns, luns'[k].CreateOperationId # 0
        PROVE  \E s \in Slots : /\ Operations'[s].Id = luns'[k].CreateOperationId
                                /\ LiveCreate(Operations'[s]) /\ Operations'[s].Lun = k
    <3>1. k # l /\ luns'[k] = luns[k]
      BY <2>1, <2>4
    <3>2. PICK s \in Slots : /\ Operations[s].Id = luns[k].CreateOperationId
                             /\ LiveCreate(Operations[s]) /\ Operations[s].Lun = k
      BY <2>4, <3>1 DEF OperationLunConsistency
    <3>3. luns[k].State # "Empty" /\ luns[k].DeviceId = Operations[s].DeviceId
      BY <3>2 DEF OperationLunConsistency
    <3>4. Operations[s].DeviceId # id
      BY <1>0, <2>1, <3>1, <3>3 DEF StoreInv, DeviceIdsUnique
    <3> QED
      BY <2>2, <3>1, <3>2, <3>4
  <2> QED
    BY <2>3, <2>4 DEF OperationLunConsistency
<1>9. ASSUME NEW mutation \in Mutations, ReserveOperation(mutation)
      PROVE  OperationLunConsistency'
  <2>1. \A s \in Slots : LiveCreate(Operations[s]) \/ LiveCreate(Operations'[s]) =>
          Operations'[s] = Operations[s]
    BY <1>9, ReservedRecord DEF OnlyRecord
  <2>2. UNCHANGED luns
    BY <1>9, DisksUntouched
  <2> QED
    BY <1>1, <2>1, <2>2
<1>10. ASSUME NEW c \in Srbs, NEW command \in MutationCommand, PrepareSubmission(c, command)
       PROVE  OperationLunConsistency'
  <2>1. UNCHANGED luns
    BY <1>10, DisksUntouched
  <2>2. CASE ~command.reserved
    BY <1>1, <1>10, <2>1, <2>2 DEF PrepareSubmission
  <2>3. CASE command.reserved
    <3>1. \A s \in Slots : LiveCreate(Operations[s]) \/ LiveCreate(Operations'[s]) =>
            Operations'[s] = Operations[s]
      BY <1>10, <2>3, AcceptedRecord
    <3> QED
      BY <1>1, <2>1, <3>1
  <2> QED
    BY <2>2, <2>3
<1>11. ASSUME NEW c \in Srbs, InProgress(c), NEW status \in Status, UNCHANGED luns,
              Operations' = FailOperation(srb[c].command.operation, status)
       PROVE  OperationLunConsistency'
  <2>1. PICK s \in Slots :
           /\ RecordFor(s, srb[c].command) /\ Operations'[s].State = "Failed" /\ OnlyRecord(s)
    BY <1>11, FailedRecord
  <2> QED
    BY <1>1, <1>11, <2>1 DEF RecordFor, OnlyRecord
<1>12. ASSUME NEW c \in Srbs, QueueFails(c)
       PROVE  OperationLunConsistency'
  <2>1. Operations' = IF srb[c].command.reserved
                   THEN FailOperation(srb[c].command.operation, "INSUFFICIENT_RESOURCES")
                   ELSE Operations
    BY <1>12 DEF QueueFails
  <2> QED
    BY <1>1, <1>11, <1>12, <2>1, FailingSteps, DisksUntouched DEF Status
<1>13. CASE RejectOperation
  BY <1>11, <1>13, FailingSteps, DisksUntouched DEF Status, Command
<1>14. CASE PublishOperationResult
  <2> DEFINE l == call["worker"].lun
             status == call["worker"].status
  <2>1. PICK s \in Slots :
           /\ RecordFor(s, Command) /\ OnlyRecord(s)
           /\ Operations'[s].Id = Operations[s].Id
           /\ Operations'[s].Mutation = Command.mutation
           /\ Operations'[s].State = IF status = "SUCCESS" THEN "Succeeded" ELSE "Failed"
           /\ Operations'[s].DeviceId = call["worker"].deviceId
           /\ status = "SUCCESS" /\ Command.mutation = "Create" =>
                /\ Operations'[s].Lun = l
                /\ luns' = [luns EXCEPT ![l].CreateOperationId = Operations[s].Id]
           /\ ~(status = "SUCCESS" /\ Command.mutation = "Create") => UNCHANGED luns
    BY <1>14, PublishedRecord
  <2>2. /\ worker.pc = "running" /\ call["worker"].pc = "returned" /\ l \in Luns
        /\ Operations[s].State = "Pending"
    BY <1>14, <2>1 DEF PublishOperationResult, Collect, TypeOK, StoreTypeOK, Threads, Call, RecordFor
  <2>3. CASE ~(status = "SUCCESS" /\ Command.mutation = "Create")
    BY <1>1, <2>1, <2>2, <2>3 DEF OnlyRecord
  <2>4. CASE status = "SUCCESS" /\ Command.mutation = "Create"
    <3>1. /\ luns[l].State = "Online" /\ luns[l].DeviceId = call["worker"].deviceId
          /\ luns[l].CreateOperationId = 0
      BY <2>2, <2>4 DEF WorkerCall
    <3>2. Operations[s].Id # 0
      BY <1>14, <2>1, <2>2, WorkerItem DEF PublishOperationResult, RecordFor, Working
    <3>3. /\ luns'[l].State = "Online" /\ luns'[l].DeviceId = call["worker"].deviceId
          /\ luns'[l].CreateOperationId = Operations[s].Id
          /\ \A k \in Luns \ {l} : luns'[k] = luns[k]
      BY <1>0, <2>1, <2>2, <2>4, <3>1 DEF Lun
    <3> HIDE DEF l, status
    <3>4. \A r \in Slots : LiveCreate(Operations[r]) => Operations[r].Lun # l
      BY <3>1 DEF OperationLunConsistency, Table, NoRecord
    <3>5. \A r \in Slots \ {s} : Operations'[r] = Operations[r]
      BY <2>1 DEF OnlyRecord
    <3>6. ASSUME NEW r \in Slots, LiveCreate(Operations'[r])
          PROVE  LET lun == luns'[Operations'[r].Lun] IN
                   /\ lun.State # "Empty" /\ lun.DeviceId = Operations'[r].DeviceId
                   /\ lun.CreateOperationId = Operations'[r].Id
      <4>1. CASE r = s
        BY <2>1, <2>4, <3>3, <4>1
      <4>2. CASE r # s
        BY <1>0, <3>3, <3>4, <3>5, <3>6, <4>2 DEF OperationLunConsistency
      <4> QED
        BY <4>1, <4>2
    <3>7. ASSUME NEW k \in Luns, luns'[k].CreateOperationId # 0
          PROVE  \E r \in Slots : /\ Operations'[r].Id = luns'[k].CreateOperationId
                                  /\ LiveCreate(Operations'[r]) /\ Operations'[r].Lun = k
      <4>1. CASE k = l
        BY <2>1, <2>4, <3>3, <4>1
      <4>2. CASE k # l
        <5>1. PICK r \in Slots : /\ Operations[r].Id = luns[k].CreateOperationId
                                 /\ LiveCreate(Operations[r]) /\ Operations[r].Lun = k
          BY <3>3, <3>7, <4>2 DEF OperationLunConsistency
        <5>2. r # s
          BY <2>2, <5>1
        <5> QED
          BY <3>3, <3>5, <4>2, <5>1, <5>2
      <4> QED
        BY <4>1, <4>2
    <3> QED
      BY <3>6, <3>7 DEF OperationLunConsistency
  <2> QED
    BY <2>3, <2>4
<1>15. CASE \/ (\E c \in Srbs : QueueWorkItem(c)) \/ StartWorkItem \/ SnapshotPendingOperation
            \/ ProcessLegacyRequest \/ WriteLegacyResponse \/ CompleteRequest
            \/ BusChangeDetected \/ FinishManagement \/ ReleaseLunLock \/ WorkerReturns
            \/ HandBackStep
  BY <1>1, <1>15, TableUntouched, DisksUntouched
<1>16. CASE Initialize
  BY <1>16 DEF Initialize, InitializeStore, OperationLunConsistency, NoRecord, ZeroedLun
<1> QED
  BY <1>3, <1>4, <1>5, <1>6, <1>7, <1>8, <1>9, <1>10, <1>12, <1>13, <1>14, <1>15, <1>16,
     StepKinds DEF QuietKinds, WorkStep

\* A record that reports a removed disk stays true: its device ID is not issued again.
LEMMA DeletionsStep ==
  ASSUME ManagementInv, [Next]_vars
  PROVE  Deletions'
<1> USE DEF ManagementInv
<1>0. /\ StoreInv /\ "worker" \in Threads
      /\ \A s \in Slots : Operations[s] \in Record /\ Operations[s].DeviceId \in DeviceIds
  BY DEF TypeOK, StoreTypeOK, Record, Threads
<1> DEFINE Reports(record) == \/ record.Mutation = "Create" /\ record.State = "Deleted"
                              \/ record.Mutation = "Delete" /\ record.State = "Succeeded"
           GoneNext(d) == /\ NextDeviceId' = 0 \/ d < NextDeviceId'
                          /\ \A l \in Luns : luns'[l].State # "Empty" => luns'[l].DeviceId # d
<1>1. ASSUME ~Initialize
      PROVE  \A s \in Slots : Reports(Operations[s]) => GoneNext(Operations[s].DeviceId)
  BY <1>0, <1>1, GoneStays DEF Deletions
<1>2. ASSUME ~Initialize,
             \A s \in Slots : Reports(Operations'[s]) =>
               Operations'[s] = Operations[s] \/ GoneNext(Operations'[s].DeviceId)
      PROVE  Deletions'
  <2>1. \A s \in Slots : Reports(Operations'[s]) => GoneNext(Operations'[s].DeviceId)
    BY <1>1, <1>2
  <2> QED
    BY <2>1 DEF Deletions, Gone, DeviceIdIssued
<1>3. CASE Initialize
  BY <1>3 DEF Initialize, Deletions, NoRecord
<1>4. CASE ~Initialize
  <2>1. CASE UNCHANGED Operations
    BY <1>2, <1>4, <2>1
  <2>2. ASSUME NEW t \in Threads, FinalizeDiskRemoval(t)
        PROVE  Deletions'
    <3>1. GoneNext(call[t].deviceId)
      <4>1. FinalizeRemoval(t)
        BY <2>2 DEF FinalizeDiskRemoval
      <4>2. Gone(call[t].deviceId)' /\ call'[t].deviceId = call[t].deviceId
        BY <1>0, <4>1, RemovedIsGone, IdentityChanges
      <4> QED
        BY <4>2 DEF Gone, DeviceIdIssued
    <3>2. \A s \in Slots :
            \/ Operations'[s] = Operations[s]
            \/ Operations[s].DeviceId = call[t].deviceId
               /\ Operations'[s].DeviceId = Operations[s].DeviceId
      BY <2>2, DeletedRecords
    <3> HIDE DEF GoneNext
    <3> QED
      BY <1>2, <1>4, <3>1, <3>2
  <2>3. ASSUME NEW mutation \in Mutations, ReserveOperation(mutation)
        PROVE  Deletions'
    BY <1>2, <1>4, <2>3, ReservedRecord DEF OnlyRecord
  <2>4. ASSUME NEW c \in Srbs, NEW command \in MutationCommand, PrepareSubmission(c, command)
        PROVE  Deletions'
    <3>1. CASE ~command.reserved
      BY <2>1, <2>4, <3>1 DEF PrepareSubmission
    <3>2. CASE command.reserved
      BY <1>2, <1>4, <2>4, <3>2, AcceptedRecord
    <3> QED
      BY <3>1, <3>2
  <2>5. ASSUME NEW c \in Srbs, InProgress(c), NEW status \in Status,
               Operations' = FailOperation(srb[c].command.operation, status)
        PROVE  Deletions'
    <3>1. PICK s \in Slots : Operations'[s].State = "Failed" /\ OnlyRecord(s)
      BY <2>5, FailedRecord
    <3> QED
      BY <1>2, <1>4, <3>1 DEF OnlyRecord
  <2>6. ASSUME NEW c \in Srbs, QueueFails(c)
        PROVE  Deletions'
    <3>1. Operations' = IF srb[c].command.reserved
                     THEN FailOperation(srb[c].command.operation, "INSUFFICIENT_RESOURCES")
                     ELSE Operations
      BY <2>6 DEF QueueFails
    <3> QED
      BY <2>1, <2>5, <2>6, <3>1, FailingSteps DEF Status
  <2>7. CASE RejectOperation
    BY <2>5, <2>7, FailingSteps DEF Status, Command
  <2>8. CASE PublishOperationResult
    <3>1. PICK s \in Slots :
             /\ OnlyRecord(s) /\ Operations'[s].Mutation = Command.mutation
             /\ Operations'[s].State = IF call["worker"].status = "SUCCESS" THEN "Succeeded"
                                       ELSE "Failed"
             /\ Operations'[s].DeviceId = call["worker"].deviceId
      BY <2>8, PublishedRecord
    <3>2. worker.pc = "running" /\ call["worker"].pc = "returned"
      BY <2>8 DEF PublishOperationResult, Collect
    <3>3. ASSUME Reports(Operations'[s])
          PROVE  GoneNext(Operations'[s].DeviceId)
      <4>1. Command.mutation = "Delete" /\ call["worker"].status = "SUCCESS"
        BY <3>1, <3>3
      <4>2. Gone(call["worker"].deviceId) /\ call["worker"].deviceId \in DeviceIds
        BY <3>2, <4>1 DEF WorkerCall, TypeOK, StoreTypeOK, Threads, Call
      <4> QED
        BY <1>4, <3>1, <4>2, GoneStays
    <3> HIDE DEF GoneNext
    <3> QED
      BY <1>2, <1>4, <3>1, <3>3 DEF OnlyRecord
  <2> QED
    BY <1>4, <2>1, <2>2, <2>3, <2>4, <2>6, <2>7, <2>8, StepKinds, TableUntouched
       DEF QuietKinds, WorkStep
<1> QED
  BY <1>3, <1>4

\* The reply keeps matching its record until it is delivered: nothing but an eviction, by
\* a reservation with another ID, touches the table while the worker completes.
LEMMA ReplyStep ==
  ASSUME ManagementInv, [Next]_vars
  PROVE  Reply'
<1> USE DEF ManagementInv
<1>0. /\ NextOperationId \in Nat /\ OperationIds \subseteq Nat
      /\ \A s \in Slots : Operations[s] \in Record /\ Operations[s].Id \in OperationIds
      /\ \A c \in Srbs : srb[c] \in Srb /\ srb[c].result.operationId \in OperationIds
  BY ModulusAssumption DEF TypeOK, Record, OperationIds, Srb, Result
<1>1. CASE worker'.pc # "complete"
  BY <1>1 DEF Reply
<1>2. ASSUME UNCHANGED <<Operations, NextOperationId, effects, srb, worker>>
      PROVE  Reply'
  BY <1>2 DEF Reply, Command, Issued, CopyResult
<1>3. ASSUME NEW mutation \in Mutations, ReserveOperation(mutation), worker'.pc = "complete"
      PROVE  Reply'
  <2>1. UNCHANGED <<srb, worker, effects>> /\ Command' = Command
    BY <1>3 DEF ReserveOperation, Command
  <2>2. PICK s \in Slots : Operations'[s].Id = NextOperationId /\ OnlyRecord(s)
    BY <1>3, ReservedRecord
  <2>3. /\ NextOperationId # 0
        /\ NextOperationId' = 0 \/ NextOperationId' = NextOperationId + 1
    BY <1>3, ReservedRecord
  <2>4. CASE Command.reserved
    <3> DEFINE id == srb[worker.item].result.operationId
    <3>1. worker.item \in Srbs
      BY <1>3, <2>1, WorkerItem DEF Working
    <3>2. id \in Nat /\ id < NextOperationId
      BY <1>0, <1>3, <2>1, <2>3, <2>4, <3>1 DEF Reply, Issued
    <3>3. NextOperationId' = 0 \/ id < NextOperationId'
      BY <1>0, <2>3, <3>2
    <3>4. \A r \in Slots : Operations'[r].Id = id => Operations'[r] = Operations[r]
      BY <1>0, <2>2, <3>2 DEF OnlyRecord
    <3> HIDE DEF id
    <3>5. /\ id = Command.operation
          /\ srb[worker.item].result.state = "Succeeded" <=> effects[id] = 1
          /\ srb[worker.item].result.state = "Succeeded" =>
               srb[worker.item].result.status = "SUCCESS"
          /\ \A r \in Slots : Operations[r].Id = id => CopyResult(Operations[r]) = srb[worker.item].result
      BY <1>3, <2>1, <2>4 DEF Reply, id
    <3>6. \A r \in Slots : Operations'[r].Id = id => CopyResult(Operations'[r]) = srb[worker.item].result
      BY <3>4, <3>5
    <3> QED
      BY <2>1, <3>3, <3>5, <3>6 DEF Reply, Issued, CopyResult, id
  <2> QED
    BY <2>1, <2>4 DEF Reply
<1>4. ASSUME NEW s \in Slots, RecordFor(s, Command), OnlyRecord(s), WorkStep,
             Command.reserved, NEW result \in Result,
             Operations'[s].Id = Operations[s].Id, Operations'[s] \in Record,
             result = CopyResult(Operations'[s]),
             Respond("SUCCESS", result), worker'.item = worker.item,
             Operations'[s].State = "Succeeded" <=> effects[Operations[s].Id] = 1,
             Operations'[s].State = "Succeeded" => Operations'[s].Result = "SUCCESS"
      PROVE  Reply'
  <2>1. /\ worker.item \in Srbs /\ Command' = Command /\ UNCHANGED <<NextOperationId, effects>>
        /\ Command.operation # 0 /\ Operations[s].Id = Command.operation
    BY <1>4, WorkSteps, WorkerItem DEF RecordFor
  <2>2. srb'[worker.item].result = result
    BY <1>4, <2>1, RespondTypes DEF Status
  <2>3. /\ result.operationId = Operations[s].Id /\ result.state = Operations'[s].State
        /\ result.status = Operations'[s].Result
    BY <1>4 DEF CopyResult
  <2>4. Issued(Operations[s].Id)
    BY <2>1 DEF Table
  <2>5. \A r \in Slots : Operations'[r].Id = Operations[s].Id => r = s
    BY <1>4, <2>1 DEF Table, OnlyRecord
  <2>6. \A r \in Slots : Operations'[r].Id = result.operationId => CopyResult(Operations'[r]) = result
    BY <1>4, <2>3, <2>5
  <2>7. NextOperationId' = 0 \/ result.operationId < NextOperationId'
    BY <2>1, <2>3, <2>4 DEF Issued
  <2>8. srb'[worker'.item].result = result
    BY <1>4, <2>2
  <2>9. \A r \in Slots : CopyResult(Operations[r])' = CopyResult(Operations'[r])
    BY DEF CopyResult
  <2> QED
    BY <1>4, <2>1, <2>3, <2>6, <2>7, <2>8, <2>9 DEF Reply, Issued
<1>5. CASE RejectOperation
  <2>1. /\ worker.pc = "started" /\ Command.reserved /\ InProgress(worker.item) /\ WorkStep
        /\ worker.item \in Srbs /\ worker'.item = worker.item
        /\ Operations' = FailOperation(Command.operation, "INSUFFICIENT_RESOURCES")
    BY <1>5, FailingSteps, WorkSteps DEF RejectOperation, WorkStep
  <2>2. PICK s \in Slots :
           /\ s = FindOperation(Command.operation) /\ RecordFor(s, Command)
           /\ Operations'[s] = [Operations[s] EXCEPT !.State = "Failed",
                                                     !.Result = "INSUFFICIENT_RESOURCES"]
           /\ Operations'[s].Id = Operations[s].Id
           /\ Operations'[s].State = "Failed" /\ OnlyRecord(s)
    BY <2>1, FailedRecord DEF Status, Command
  <2>3. Operations'[s] \in Record
    BY <1>0, <2>2 DEF Record, OperationState, Status
  <2>4. CopyResult(Operations'[s]) \in Result
    BY <2>3, RecordTypes
  <2>5. Operations[s].Id # 0 /\ Operations[s].State = "Pending"
    BY <2>1, <2>2, WorkerItem DEF RecordFor, Working
  <2>6. SlotsOf(Command.operation) # {}
    BY <2>2, <2>5 DEF SlotsOf, RecordFor
  <2>7. Respond("SUCCESS", CopyResult(Operations'[s]))
    BY <1>5, <2>2, <2>6 DEF RejectOperation
  <2>8. effects[Operations[s].Id] # 1
    BY <1>0, <2>1, <2>5 DEF Effects
  <2> QED
    BY <1>4, <2>1, <2>2, <2>3, <2>4, <2>7, <2>8
<1>6. CASE PublishOperationResult
  <2>1. /\ worker.pc = "running" /\ Command.reserved /\ WorkStep
        /\ worker.item \in Srbs /\ worker'.item = worker.item
        /\ call["worker"].pc = "returned"
    BY <1>6, WorkSteps, WorkerItem DEF PublishOperationResult, WorkStep, Collect
  <2>2. PICK s \in Slots :
           /\ RecordFor(s, Command) /\ OnlyRecord(s)
           /\ Operations'[s].Id = Operations[s].Id
           /\ Operations'[s].State = IF call["worker"].status = "SUCCESS" THEN "Succeeded"
                                     ELSE "Failed"
           /\ Operations'[s].Result = call["worker"].status
           /\ Operations'[s] \in Record
           /\ Respond("SUCCESS", CopyResult(Operations'[s]))
    BY <1>6, PublishedRecord
  <2>3. CopyResult(Operations'[s]) \in Result
    BY <2>2, RecordTypes
  <2>4. Operations[s].Id # 0 /\ Operations[s].State = "Pending"
    BY <2>1, <2>2, WorkerItem DEF RecordFor, Working
  <2>5. call["worker"].status = "SUCCESS" <=> effects[Operations[s].Id] = 1
    BY <1>0, <2>1, <2>4 DEF Effects, Mutated
  <2> QED
    BY <1>4, <2>1, <2>2, <2>3, <2>5
<1>7. CASE WriteLegacyResponse
  <2>1. ~Command.reserved /\ Command' = Command
    BY <1>7, WorkSteps DEF WriteLegacyResponse, WorkStep
  <2> QED
    BY <2>1 DEF Reply
<1>8. CASE SnapshotPendingOperation
  <2>1. worker.pc = "started" /\ Command.reserved
    BY <1>8 DEF SnapshotPendingOperation
  <2>2. StillPending
    BY <2>1, RunningRecord, WorkerItem DEF StillPending, Known, RecordFor, Working
  <2> QED
    BY <1>1, <1>8, <2>2 DEF SnapshotPendingOperation, TypeOK, Worker
<1>9. CASE StartWorkItem \/ ProcessLegacyRequest \/ CompleteRequest \/ BusChangeDetected
           \/ FinishManagement \/ ReleaseLunLock \/ WorkerReturns
           \/ (\E c \in Srbs : QueueWorkItem(c)) \/ Initialize
  <2>1. worker'.pc # "complete"
    BY <1>9 DEF StartWorkItem, ProcessLegacyRequest, CompleteRequest, BusChangeDetected,
       FinishManagement, ReleaseLunLock, WorkerReturns, Unwind, QueueWorkItem, Initialize,
       TypeOK, Worker, NoWork, TeardownOrder
  <2> QED
    BY <1>1, <2>1
<1>10. ASSUME NEW c \in Srbs, QueueFails(c)
       PROVE  Reply'
  BY <1>1, <1>10, FailingSteps DEF QueueFails
<1>11. ASSUME NEW c \in Srbs, NEW command \in MutationCommand, PrepareSubmission(c, command)
       PROVE  Reply'
  <2>1. UNCHANGED worker /\ ~ManagementBusy
    BY <1>11 DEF PrepareSubmission, SubmissionStatus, BeginManagement
  <2>2. worker.pc # "complete"
    BY <2>1, WorkerItem DEF Working
  <2> QED
    BY <1>1, <2>1, <2>2
<1>12. CASE StillStep
  BY <1>2, <1>12 DEF StillStep
<1>13. ASSUME NEW t \in Threads, \/ LookStep(t) \/ FinalizeDiskRemoval(t) \/ CommitDisk
                                 \/ MarkDisk \/ MarkAllDisks
       PROVE  Reply'
  <2>1. UNCHANGED worker
    BY <1>13 DEF LookStep, FinalizeDiskRemoval, CommitDisk, MarkDisk, MutatingStep,
       MarkAllDisks, managementVars
  <2>2. StoreCall(t) \/ StoreCall("worker") \/ StoreCall("teardown")
    BY <1>13 DEF LookStep, FinalizeDiskRemoval, CommitDisk, MarkDisk, MarkAllDisks, StoreCall,
       LockedCallStep, UnlockedCallStep
  <2>3. worker.pc # "complete"
    BY <2>2, WhoCalls DEF Threads, Working
  <2> QED
    BY <1>1, <2>1, <2>3
<1>14. CASE HandBackStep
  <2>1. /\ UNCHANGED <<worker, Operations, NextOperationId, effects>>
        /\ worker.pc \in Working =>
             srb'[worker.item] = srb[worker.item] /\ Command' = Command
    BY <1>14, HandBackSteps
  <2>2. \A s \in Slots : CopyResult(Operations[s])' = CopyResult(Operations[s])
    BY <2>1 DEF CopyResult
  <2> QED
    BY <2>1, <2>2 DEF Reply, Working, Issued
<1> QED
  BY <1>1, <1>3, <1>5, <1>6, <1>7, <1>8, <1>9, <1>10, <1>11, <1>12, <1>13, <1>14, StepKinds
     DEF QuietKinds, WorkStep, Threads

\* Whatever changes the set of online disks is on its way to StorPort.
LEMMA AnnouncementStep ==
  ASSUME ManagementInv, [Next]_vars
  PROVE  Announcement'
<1> USE DEF ManagementInv
<1>0. /\ StoreTypeOK /\ "worker" \in Threads /\ "teardown" \in Threads
      /\ luns \in [Luns -> Lun]
  BY DEF TypeOK, StoreTypeOK, Threads
<1>1. ASSUME \A l \in Luns : luns'[l].State = luns[l].State /\ luns'[l].DeviceId = luns[l].DeviceId
      PROVE  OnlineDisks' = OnlineDisks
  BY <1>1 DEF OnlineDisks, LunsIn
<1>2. \A l \in Luns : SameIdentity(l) => /\ luns'[l].State = luns[l].State
                                         /\ luns'[l].DeviceId = luns[l].DeviceId
  BY DEF SameIdentity
<1>3. CASE StillStep
  <2>1. OnlineDisks' = OnlineDisks
    BY <1>1, <1>2, <1>3 DEF StillStep
  <2>2. /\ UNCHANGED <<announced, worker, srb>> /\ (Mutated' <=> Mutated)
        /\ (BusChanged' <=> BusChanged)
    BY <1>3 DEF StillStep, Mutated, BusChanged, Command
  <2>3. teardown' \in {"up", "waitIdle", "waitLock"} =>
          teardown \in {"up", "waitIdle", "waitLock"}
    <3>1. ~Initialize
      BY <1>3 DEF StillStep, Initialize, TypeOK, Instances
    <3> QED
      BY <3>1, TeardownMoves
  <2> QED
    BY <2>1, <2>2, <2>3 DEF Announcement
<1>4. ASSUME NEW t \in Threads, LookStep(t)
      PROVE  Announcement'
  <2>1. OnlineDisks' = OnlineDisks
    BY <1>1, <1>2, <1>4, LookSteps
  <2>2. /\ UNCHANGED <<announced, worker, srb, teardown>> /\ (Mutated' <=> Mutated)
        /\ (BusChanged' <=> BusChanged)
    BY <1>4, MutatedSteps DEF LookStep, managementVars, BusChanged, Command
  <2> QED
    BY <2>1, <2>2 DEF Announcement
<1>5. CASE CommitDisk \/ MarkDisk
  <2>1. UNCHANGED worker /\ Mutated'
    BY <1>5, MutatedSteps DEF CommitDisk, MarkDisk, MutatingStep
  <2>2. worker.pc = "running"
    BY <1>0, <1>5, WhoCalls DEF CommitDisk, MarkDisk, StoreCall, LockedCallStep
  <2> QED
    BY <2>1, <2>2 DEF Announcement
<1>6. CASE MarkAllDisks
  <2>1. teardown = "drain" /\ UNCHANGED teardown
    BY <1>0, <1>6, WhoCalls DEF MarkAllDisks, StoreCall, LockedCallStep, managementVars
  <2> QED
    BY <2>1 DEF Announcement
<1>7. ASSUME NEW t \in Threads, FinalizeDiskRemoval(t)
      PROVE  Announcement'
  <2>1. UNCHANGED <<worker, teardown>>
    BY <1>7 DEF FinalizeDiskRemoval
  <2>2. CASE worker.pc = "running"
    BY <1>7, <2>1, <2>2, MutatedSteps DEF Announcement
  <2>3. CASE worker.pc # "running"
    <3>1. teardown = "drain"
      BY <1>7, <2>3, MutatedSteps, WhoCalls DEF FinalizeDiskRemoval, StoreCall
    <3> QED
      BY <2>1, <3>1 DEF Announcement
  <2> QED
    BY <2>2, <2>3
<1>8. ASSUME worker.pc \notin {"running", "complete", "notify"}, UNCHANGED <<announced, luns>>,
             UNCHANGED teardown
      PROVE  Announcement'
  <2>1. OnlineDisks' = OnlineDisks
    BY <1>1, <1>8
  <2> QED
    BY <1>8, <2>1 DEF Announcement
<1>9. ASSUME NEW mutation \in Mutations, ReserveOperation(mutation)
      PROVE  Announcement'
  <2>1. UNCHANGED <<announced, worker, srb, teardown, call, luns>>
    BY <1>9 DEF ReserveOperation, storeVars
  <2>2. OnlineDisks' = OnlineDisks
    BY <1>1, <2>1
  <2> QED
    BY <2>1, <2>2 DEF Announcement, Mutated, BusChanged, Command
<1>10. ASSUME NEW c \in Srbs, NEW command \in MutationCommand, PrepareSubmission(c, command)
       PROVE  Announcement'
  <2>1. UNCHANGED <<announced, luns, teardown>> /\ ~ManagementBusy
    BY <1>10 DEF PrepareSubmission, SubmissionStatus, BeginManagement, storeVars
  <2>2. worker.pc \notin {"running", "complete", "notify"}
    BY <2>1, WorkerItem DEF Ownership, Working
  <2> QED
    BY <1>8, <2>1, <2>2
<1>11. ASSUME NEW c \in Srbs, QueueFails(c) \/ QueueWorkItem(c)
       PROVE  Announcement'
  <2>1. UNCHANGED <<announced, luns, teardown>> /\ srb[c].owner = "startIo"
    BY <1>11 DEF QueueFails, QueueWorkItem, storeVars
  <2>2. worker.pc \in {"none", "unwinding"}
    BY <2>1 DEF Ownership
  <2> QED
    BY <1>8, <2>1, <2>2
<1>12. CASE \/ StartWorkItem \/ RejectOperation \/ SnapshotPendingOperation
            \/ ProcessLegacyRequest
  <2>1. WorkStep
    BY <1>12 DEF WorkStep
  <2>2. UNCHANGED <<announced, luns, teardown>>
    BY <1>12, <2>1, WorkSteps, DisksUntouched
  <2>3. worker.pc \in {"queued", "started"}
    BY <1>12 DEF StartWorkItem, RejectOperation, SnapshotPendingOperation, ProcessLegacyRequest
  <2> QED
    BY <1>8, <2>2, <2>3
<1>13. ASSUME WorkStep, worker.pc = "running", worker'.pc = "complete",
              call["worker"].pc = "returned",
              call["worker"].status = "SUCCESS" => BusChanged',
              call["worker"].status # "SUCCESS" => UNCHANGED luns
       PROVE  Announcement'
  <2>1. UNCHANGED <<announced, teardown>>
    BY <1>13, WorkSteps
  <2>2. CASE call["worker"].status = "SUCCESS"
    BY <1>13, <2>2 DEF Announcement
  <2>3. CASE call["worker"].status # "SUCCESS"
    <3>1. OnlineDisks' = OnlineDisks
      BY <1>1, <1>13, <2>3
    <3>2. teardown \in {"up", "waitIdle", "waitLock"} => announced = OnlineDisks
      BY <1>13, <2>3 DEF Announcement, Mutated
    <3> QED
      BY <2>1, <3>1, <3>2 DEF Announcement
  <2> QED
    BY <2>2, <2>3
<1>14. CASE PublishOperationResult
  <2>1. /\ worker.pc = "running" /\ Command.reserved /\ WorkStep /\ worker'.pc = "complete"
        /\ worker.item \in Srbs /\ worker'.item = worker.item /\ Command' = Command
        /\ call["worker"].pc = "returned" /\ Command.operation # 0
    BY <1>14, WorkSteps, WorkerItem
       DEF PublishOperationResult, WorkStep, Collect, TypeOK, Worker, Working
  <2>2. PICK s \in Slots :
           /\ RecordFor(s, Command) /\ Operations'[s].Id = Operations[s].Id
           /\ Operations'[s].State = IF call["worker"].status = "SUCCESS" THEN "Succeeded"
                                     ELSE "Failed"
           /\ Operations'[s].Result = call["worker"].status
           /\ Operations'[s] \in Record
           /\ Respond("SUCCESS", CopyResult(Operations'[s]))
           /\ ~(call["worker"].status = "SUCCESS" /\ Command.mutation = "Create") => UNCHANGED luns
    BY <1>14, PublishedRecord
  <2>3. CopyResult(Operations'[s]) \in Result
    BY <2>2, RecordTypes
  <2>4. srb'[worker.item].result = CopyResult(Operations'[s])
    BY <2>1, <2>2, <2>3, RespondTypes DEF Status
  <2>5. ASSUME call["worker"].status = "SUCCESS"
        PROVE  /\ srb'[worker.item].result.operationId = Command.operation
               /\ srb'[worker.item].result.state = "Succeeded"
               /\ srb'[worker.item].result.status = "SUCCESS"
    BY <2>2, <2>4, <2>5 DEF CopyResult, RecordFor
  <2>6. call["worker"].status = "SUCCESS" => BusChanged'
    BY <2>1, <2>5 DEF BusChanged
  <2> QED
    BY <1>13, <2>1, <2>2, <2>6
<1>15. CASE WriteLegacyResponse
  <2>1. /\ worker.pc = "running" /\ ~Command.reserved /\ WorkStep /\ worker'.pc = "complete"
        /\ worker.item \in Srbs /\ worker'.item = worker.item /\ Command' = Command
        /\ call["worker"].pc = "returned" /\ UNCHANGED luns
    BY <1>15, WorkSteps, WorkerItem
       DEF WriteLegacyResponse, WorkStep, Collect, TypeOK, Worker, Working
  <2>2. srb'[worker.item].ReturnCode = call["worker"].status
    BY <1>15, <2>1 DEF WriteLegacyResponse, Respond, TypeOK, Srb
  <2>3. call["worker"].status = "SUCCESS" => BusChanged'
    BY <2>1, <2>2 DEF BusChanged
  <2> QED
    BY <1>13, <2>1, <2>3
<1>16. CASE CompleteRequest
  <2>1. /\ worker.pc = "complete" /\ worker'.pc = "notify" /\ worker'.busChanged = BusChanged
        /\ UNCHANGED <<announced, teardown, luns>>
    BY <1>16 DEF CompleteRequest, TypeOK, Worker, storeVars
  <2>2. OnlineDisks' = OnlineDisks
    BY <1>1, <2>1
  <2> QED
    BY <2>1, <2>2 DEF Announcement
<1>17. CASE BusChangeDetected
  <2>1. /\ worker.pc = "notify" /\ UNCHANGED <<teardown, luns>>
        /\ announced' = IF worker.busChanged THEN OnlineDisks ELSE announced
    BY <1>17 DEF BusChangeDetected, storeVars
  <2>2. OnlineDisks' = OnlineDisks
    BY <1>1, <2>1
  <2> QED
    BY <2>1, <2>2 DEF Announcement
<1>18. CASE FinishManagement \/ ReleaseLunLock \/ WorkerReturns
  <2>1. /\ worker.pc \in {"end", "unlocking", "unwinding"}
        /\ UNCHANGED <<announced, luns, teardown>>
    BY <1>18 DEF FinishManagement, ReleaseLunLock, WorkerReturns, Unwind, storeVars
  <2> QED
    BY <1>8, <2>1
<1>19. CASE Initialize
  <2>1. announced' = {} /\ \A l \in Luns : luns'[l].State = "Empty"
    BY <1>19 DEF Initialize, InitializeStore, ZeroedLun
  <2>2. OnlineDisks' = {}
    BY <2>1 DEF OnlineDisks, LunsIn
  <2> QED
    BY <2>1, <2>2 DEF Announcement
<1>20. CASE HandBackStep
  <2>1. /\ UNCHANGED <<announced, worker, teardown, call, luns>>
        /\ worker.pc = "complete" => (BusChanged' <=> BusChanged)
    BY <1>20, HandBackSteps DEF storeVars, BusChanged, Working
  <2>2. OnlineDisks' = OnlineDisks
    BY <1>1, <2>1
  <2> QED
    BY <2>1, <2>2 DEF Announcement, Mutated
<1> QED
  BY <1>3, <1>4, <1>5, <1>6, <1>7, <1>9, <1>10, <1>11, <1>12, <1>14, <1>15, <1>16, <1>17, <1>18,
     <1>19, <1>20, StepKinds DEF QuietKinds, WorkStep

-----------------------------------------------------------------------------
(***************************************************************************)
(* The invariant holds, and what follows from it.                          *)
(***************************************************************************)

\* A zeroed extension satisfies every part of it.
LEMMA ManagementInvInit == Init => ManagementInv
<1> SUFFICES ASSUME Init  PROVE ManagementInv
  OBVIOUS
<1> USE DEF Init
<1>1. StoreInv /\ StoreTypeOK
  BY StoreInvInit DEF StoreInv
<1>2. TypeOK
  BY <1>1, ManagementTypes DEF TypeOK, TeardownPc
<1>3. /\ \A l \in Luns : luns[l] = ZeroedLun
      /\ \A t \in Threads : call[t].pc = "idle"
      /\ \A c \in Srbs : srb[c].owner = "client"
      /\ \A s \in Slots : Operations[s] = NoRecord
      /\ worker.pc = "none" /\ worker.item = NoSrb
  BY DEF StoreInit, NoCall, NoSubmission, NoWork
<1>4. Ownership /\ Commands /\ TeardownOrder /\ SubmitLock
  BY <1>3 DEF Ownership, Commands, TeardownOrder, SubmitLock, Submitted, Working
<1>5. Drain /\ WorkerCall
  BY <1>3 DEF Drain, WorkerCall, Threads
<1>6. Table /\ PendingRecords /\ Deletions /\ Reply
  BY <1>3 DEF Table, PendingRecords, Deletions, Reply, InProgress, Submitted, NoRecord
<1>7. Effects /\ OperationLunConsistency
  BY <1>3 DEF Effects, OperationLunConsistency, NoRecord, ZeroedLun
<1>8. Announcement
  BY <1>3 DEF Announcement, OnlineDisks, LunsIn, ZeroedLun
<1> QED
  BY <1>1, <1>2, <1>4, <1>5, <1>6, <1>7, <1>8 DEF ManagementInv

\* No step of the controller, of I/O or of teardown breaks it.
LEMMA ManagementInvStep == ManagementInv /\ [Next]_vars => ManagementInv'
<1> SUFFICES ASSUME ManagementInv, [Next]_vars  PROVE ManagementInv'
  OBVIOUS
<1>1. StoreInv'
  BY StoreRefinement, StoreInvStep DEF ManagementInv
<1>2. TypeOK'
  BY <1>1, ManagementTypeStep DEF StoreInv
<1> QED
  BY <1>1, <1>2, OwnershipStep, CommandsStep, TeardownOrderStep, SubmitLockStep, DrainStep,
     WorkerCallStep, TableStep, PendingRecordsStep, EffectsStep, ConsistencyStep, DeletionsStep, ReplyStep,
     AnnouncementStep DEF ManagementInv

\* The invariant holds in every reachable state of the controller, of its worker, of the
\* store and of teardown together.
THEOREM ManagementInvariant == Spec => []ManagementInv
  BY ManagementInvInit, ManagementInvStep, PTL DEF Spec

\* Every variable keeps its type: no counter leaves its width, no SRB and no record is
\* left half written, the observer of effects included.
THEOREM ManagementTypeCorrect == Spec => []TypeOK
<1>1. ManagementInv => TypeOK
  BY DEF ManagementInv
<1> QED
  BY ManagementInvariant, <1>1, PTL

\* The controller uses the LUN store as its interface requires: CreateDisk, DeleteDisk and
\* DrainAndReleaseDisks never overlap, an operation is bound only to the disk its create
\* made, and HwFindAdapter never zeroes an extension that still holds a disk.  With it
\* every theorem about the store holds of the whole driver.
THEOREM StoreIsUsedAsRequired == Spec => StoreSpec
<1>1. Init => StoreInit
  BY DEF Init
<1>2. ManagementInv /\ [Next]_vars => [StoreNext]_storeVars
  BY StoreRefinement
<1> QED
  BY ManagementInvariant, <1>1, <1>2, PTL DEF Spec, StoreSpec

\* The whole driver, with StartIo, the worker, faults, restarts and teardown, keeps what the
\* LUN store promises: leased memory stays with its disk, leases are counted, every block has
\* one owner, disks show no other disk's data, device IDs are unique and the quota holds.
THEOREM DriverKeepsDisksSafe ==
  Spec => [](/\ LeaseSafety /\ LeaseCount /\ PoolOwnership
             /\ DataIsolation /\ DeviceIdsUnique /\ QuotaRespected)
  BY StoreIsUsedAsRequired, LeasesAreSafe, LeasesAreCounted, MemoryIsOwnedOnce,
     DisksAreIsolated, DeviceIdsAreUnique, QuotaIsRespected, PTL

\* A retained create record and the disk it names agree, through publication, eviction,
\* deletion and drain.
THEOREM TableAndDisksAgree == Spec => []OperationLunConsistency
<1>1. ManagementInv => OperationLunConsistency
  BY DEF ManagementInv
<1> QED
  BY ManagementInvariant, <1>1, PTL

\* A disk that a record reports as removed does not exist and its ID is not given out
\* again, as long as the adapter lives.
THEOREM RemovedDisksStayGone == Spec => []DeletedMeansGone
<1>1. ManagementInv => DeletedMeansGone
  BY DEF ManagementInv, Deletions, Gone, DeletedMeansGone
<1> QED
  BY ManagementInvariant, <1>1, PTL

\* Whenever no mutation is in progress, StorPort has been told of every disk that came
\* and went.
THEOREM BusPictureIsCurrent == Spec => []AnnouncedWhenIdle
<1>1. ASSUME ManagementInv, ~ManagementBusy, teardown = "up"
      PROVE  announced = OnlineDisks
  <2>1. worker.pc \notin Working /\ worker.pc # "notify"
    BY <1>1, WorkerItem DEF ManagementInv, Ownership
  <2> QED
    BY <1>1, <2>1 DEF ManagementInv, Announcement, Working
<1>2. ManagementInv => AnnouncedWhenIdle
  BY <1>1 DEF AnnouncedWhenIdle
<1> QED
  BY ManagementInvariant, <1>2, PTL

\* The response that the worker completes is the outcome of its own operation, says
\* Succeeded exactly when the disk table was changed for it, and is what a query answers
\* for as long as the record is retained.
THEOREM RepliesAreTrue == Spec => []ReplyMatchesOutcome
<1>1. ASSUME ManagementInv, worker.pc = "complete", Command.reserved
      PROVE  LET result == srb[worker.item].result IN
               /\ result.operationId = Command.operation
               /\ SlotsOf(result.operationId) # {} =>
                    QueryOperation(Command.instance, result.operationId) = result
               /\ result.state = "Succeeded" <=> effects[result.operationId] = 1
  <2> DEFINE result == srb[worker.item].result
  <2>1. /\ result.operationId = Command.operation
        /\ result.state = "Succeeded" <=> effects[result.operationId] = 1
        /\ \A s \in Slots : Operations[s].Id = result.operationId =>
             CopyResult(Operations[s]) = result
    BY <1>1 DEF ManagementInv, Reply
  <2>2. Command.instance = AdapterInstance
    BY <1>1, WorkerItem DEF Working
  <2> HIDE DEF result
  <2>3. ASSUME SlotsOf(result.operationId) # {}
        PROVE  QueryOperation(Command.instance, result.operationId) = result
    <3>1. PICK s \in Slots : result.operationId # 0 /\ Operations[s].Id = result.operationId
      BY <2>3 DEF SlotsOf
    <3>2. FindOperation(result.operationId) = s
      BY <1>1, <3>1, FindSlot DEF ManagementInv
    <3> QED
      BY <2>1, <2>2, <2>3, <3>1, <3>2 DEF QueryOperation, Known
  <2> QED
    BY <2>1, <2>3 DEF result
<1>2. ManagementInv => ReplyMatchesOutcome
  BY <1>1 DEF ReplyMatchesOutcome
<1> QED
  BY ManagementInvariant, <1>2, PTL

\* Teardown comes after the last access of every other thread: it drains when no SRB is
\* pending, the worker is past its last critical section and so is a StartIo whose
\* queueing failed, which may yet hand its SRB back but uses no field of the extension;
\* and when it has freed everything there is no lease, no block of pool and no running
\* callback.
THEOREM TeardownComesLast == Spec => []FinalAccess
<1>1. ASSUME ManagementInv, teardown \in {"drain", "freeWorker", "released"}
      PROVE  /\ worker.pc \in {"none", "unwinding"}
             /\ \A c \in Srbs : srb[c].owner \in {"client", "completing"}
             /\ teardown = "released" => worker.pc = "none"
  <2> USE DEF ManagementInv
  <2>1. ~ManagementBusy /\ worker.pc # "unlocking" /\ (teardown = "released" => worker.pc = "none")
    BY <1>1 DEF TeardownOrder
  <2>2. worker.pc \notin Working
    BY <1>1, <2>1, WorkerItem
  <2>3. worker.pc \notin {"notify", "end"} /\ \A c \in Srbs : ~Submitted(c)
    BY <1>1, <2>1 DEF Ownership
  <2>4. \A c \in Srbs : srb[c].owner \in {"client", "completing"}
    BY <1>1, <2>3 DEF SubmitLock, Submitted, TypeOK, Srb
  <2> QED
    BY <1>1, <2>1, <2>2, <2>3, <2>4 DEF TypeOK, Worker, WorkerPc, Working
<1>2. ASSUME ManagementInv, teardown \in {"freeWorker", "released"}
      PROVE  (\A i \in IoThreads : ~io[i].held) /\ (\A b \in Blocks : pool[b] = 0)
  <2> USE DEF ManagementInv
  <2>1. StoreInv /\ \A l \in Luns : luns[l].State = "Empty"
    BY <1>2 DEF Drain
  <2>2. \A i \in IoThreads : ~io[i].held
    BY <2>1 DEF StoreInv, StoreTypeOK, Lease, LeaseSafety
  <2>3. call["teardown"].pc = "idle" /\ call["worker"].pc = "idle"
    BY <1>1, <1>2 DEF Drain, WorkerCall
  <2>4. \A t \in Threads : call[t].backing = NoBlock
    BY <2>1, <2>3 DEF StoreInv, CallsKnow, CallKnows, Threads
  <2>5. \A l \in Luns : luns[l].BackingStore = NoBlock
    BY <2>1 DEF StoreInv, EmptyOwnsNothing
  <2>6. \A b \in Blocks : pool[b] = 0
    BY <2>1, <2>4, <2>5, BlocksAssumption DEF StoreInv, PoolOwnership
  <2> QED
    BY <2>2, <2>6
<1>3. ManagementInv => FinalAccess
  BY <1>1, <1>2 DEF FinalAccess
<1> QED
  BY ManagementInvariant, <1>3, PTL

\* A mutation in progress was reserved from the adapter it changes.
THEOREM HandlesNeverCrossInstances == Spec => []HandlesStayWithInstance
<1>1. ManagementInv => HandlesStayWithInstance
  BY DEF ManagementInv, Commands, Submitted, HandlesStayWithInstance
<1> QED
  BY ManagementInvariant, <1>1, PTL

\* Only one record is Pending.
LEMMA OnePending ==
  ASSUME ManagementInv, NEW r \in Slots, NEW s \in Slots,
         Operations[r].State = "Pending", Operations[s].State = "Pending"
  PROVE  r = s
<1> USE DEF ManagementInv
<1>1. PICK c \in Srbs : InProgress(c) /\ srb[c].command.operation = Operations[r].Id
  BY DEF PendingRecords
<1>2. PICK d \in Srbs : InProgress(d) /\ srb[d].command.operation = Operations[s].Id
  BY DEF PendingRecords
<1>3. c = d
  BY <1>1, <1>2 DEF InProgress, Ownership
<1>4. Operations[r].Id # 0
  BY DEF Table, NoRecord
<1> QED
  BY <1>1, <1>2, <1>3, <1>4 DEF Table

\* A reservation never fails for want of a record: the records it may not give up are the
\* one of the mutation in progress and the creates of disks that exist, which share no LUN,
\* so a table with room for more than those has one to spare.
THEOREM ReservationsFindARecord == Spec => []ReservationAlwaysPossible
<1>1. ASSUME ManagementInv, MaximumOperationCount >= MaximumDiskCount + 2,
             FreeSlots = {}, {s \in Slots : Evictable(s)} = {}
      PROVE  FALSE
  <2> USE DEF ManagementInv
  <2> DEFINE f == [s \in Slots |-> IF Operations[s].State = "Pending" THEN MaximumDiskCount
                                   ELSE Operations[s].Lun]
             T == 0..MaximumDiskCount
  <2>1. IsFiniteSet(Slots) /\ Cardinality(Slots) = MaximumOperationCount
    BY FS_Interval, OperationCountAssumption DEF Slots
  <2>2. IsFiniteSet(T) /\ Cardinality(T) = MaximumDiskCount + 1
    BY FS_Interval, DiskCountAssumption
  <2>3. Cardinality(T) < Cardinality(Slots)
    BY <1>1, <2>1, <2>2, DiskCountAssumption, OperationCountAssumption
  <2>4. \A s \in Slots : Operations[s].Lun \in 0..(MaximumDiskCount - 1)
    BY <1>1 DEF TypeOK, Record, Luns
  <2>5. f \in [Slots -> T]
    BY <2>4, DiskCountAssumption
  <2> HIDE DEF T, f
  <2>6. PICK r, s \in Slots : r # s /\ f[r] = f[s]
    BY <2>1, <2>2, <2>3, <2>5, FS_PigeonHole
  <2>7. \A q \in Slots : /\ Operations[q].Id # 0
                         /\ \/ Operations[q].State = "Pending"
                            \/ Operations[q].State = "Succeeded" /\ Operations[q].Mutation = "Create"
    BY <1>1 DEF FreeSlots, Evictable
  <2>8. CASE Operations[r].State = "Pending" /\ Operations[s].State = "Pending"
    BY <1>1, <2>6, <2>8, OnePending
  <2>9. CASE Operations[r].State # "Pending" /\ Operations[s].State # "Pending"
    <3>1. Operations[r].Lun = Operations[s].Lun
      BY <2>6, <2>9 DEF f
    <3>2. Operations[r].Id = Operations[s].Id
      BY <1>1, <2>7, <2>9, <3>1 DEF OperationLunConsistency
    <3> QED
      BY <1>1, <2>6, <2>7, <3>2 DEF Table
  <2>10. CASE Operations[r].State = "Pending" /\ Operations[s].State # "Pending"
    BY <2>4, <2>6, <2>10, DiskCountAssumption DEF f
  <2>11. CASE Operations[r].State # "Pending" /\ Operations[s].State = "Pending"
    BY <2>4, <2>6, <2>11, DiskCountAssumption DEF f
  <2> QED
    BY <2>8, <2>9, <2>10, <2>11
<1>2. ManagementInv => ReservationAlwaysPossible
  BY <1>1 DEF ReservationAlwaysPossible, ReservationStatus
<1> QED
  BY ManagementInvariant, <1>2, PTL

-----------------------------------------------------------------------------
(***************************************************************************)
(* The contract.  What a query of an ID answers, and how each step of the  *)
(* controller is a step of the contract or none.                           *)
(***************************************************************************)
\* The IDs a client can hold, and what a query of one answers.
Ids == OperationIds \ {0}
HandleOf(id) ==
  [state |-> Observed(id),
   mutation |-> IF SlotsOf(id) = {} THEN "None" ELSE Operations[FindOperation(id)].Mutation]

\* An ID answers with its record, or with what its absence means.
LEMMA HandleRecords ==
  ManagementInv =>
    \A id \in Ids :
      /\ \A s \in Slots : Operations[s].Id = id =>
           HandleOf(id) = [state |-> Operations[s].State, mutation |-> Operations[s].Mutation]
      /\ (\A s \in Slots : Operations[s].Id # id) =>
           HandleOf(id) = [state |-> IF Issued(id) THEN "Expired" ELSE "Unissued",
                           mutation |-> "None"]
<1> SUFFICES ASSUME ManagementInv, NEW id \in Ids
    PROVE  /\ \A s \in Slots : Operations[s].Id = id =>
                HandleOf(id) = [state |-> Operations[s].State, mutation |-> Operations[s].Mutation]
           /\ (\A s \in Slots : Operations[s].Id # id) =>
                HandleOf(id) = [state |-> IF Issued(id) THEN "Expired" ELSE "Unissued",
                                mutation |-> "None"]
  OBVIOUS
<1>1. id # 0
  BY DEF Ids
<1>2. ASSUME NEW s \in Slots, Operations[s].Id = id
      PROVE  HandleOf(id) = [state |-> Operations[s].State, mutation |-> Operations[s].Mutation]
  <2>1. SlotsOf(id) = {s} /\ FindOperation(id) = s
    BY <1>1, <1>2, FindSlot DEF ManagementInv
  <2> QED
    BY <2>1 DEF HandleOf, Observed
<1>3. ASSUME \A s \in Slots : Operations[s].Id # id
      PROVE  HandleOf(id) = [state |-> IF Issued(id) THEN "Expired" ELSE "Unissued",
                             mutation |-> "None"]
  <2>1. SlotsOf(id) = {}
    BY <1>3 DEF SlotsOf
  <2> QED
    BY <2>1 DEF HandleOf, Observed
<1> QED
  BY <1>2, <1>3

\* The contract's steps in terms of HandleOf: first a step that changes no answer.
LEMMA ContractStutter ==
  ASSUME UNCHANGED AdapterInstance, \A x \in Ids : HandleOf(x)' = HandleOf(x),
         \A x \in Ids : effects'[x] = effects[x]
  PROVE  Contract!ContractNext
<1>1. UNCHANGED Contract!contractVars
  BY DEF Contract!contractVars, HandleOf, Ids
<1> QED
  BY <1>1 DEF Contract!ContractNext

\* One handle changes its state.
LEMMA ContractBecome ==
  ASSUME NEW id \in Ids, NEW state, HandleOf(id)' = [HandleOf(id) EXCEPT !.state = state],
         \A x \in Ids \ {id} : HandleOf(x)' = HandleOf(x)
  PROVE  Contract!Become(id, state)
  BY DEF Contract!Become, HandleOf, Ids

\* A reserved handle is bound.
LEMMA ContractAccept ==
  ASSUME UNCHANGED AdapterInstance, \A x \in Ids : effects'[x] = effects[x],
         NEW id \in Ids, HandleOf(id).state = "Reserved",
         \A x \in Ids : HandleOf(x).state # "Pending",
         HandleOf(id)' = [HandleOf(id) EXCEPT !.state = "Pending"],
         \A x \in Ids \ {id} : HandleOf(x)' = HandleOf(x)
  PROVE  Contract!ContractNext
<1>1. Contract!Become(id, "Pending")
  BY ContractBecome
<1>2. Contract!PendingHandles = {}
  BY DEF Contract!PendingHandles, HandleOf, Ids
<1>3. Contract!Accept(id)
  BY <1>1, <1>2 DEF Contract!Accept, HandleOf, Ids
<1> QED
  BY <1>3 DEF Contract!ContractNext, Ids

\* The one mutation of a handle.
LEMMA ContractMutate ==
  ASSUME UNCHANGED AdapterInstance, \A x \in Ids : HandleOf(x)' = HandleOf(x),
         NEW id \in Ids, HandleOf(id).state = "Pending", effects[id] = 0, effects'[id] = 1,
         \A x \in Ids \ {id} : effects'[x] = effects[x]
  PROVE  Contract!ContractNext
<1>1. Contract!Mutate(id)
  BY DEF Contract!Mutate, HandleOf, Ids
<1> QED
  BY <1>1 DEF Contract!ContractNext, Ids

\* The outcome of a handle.
LEMMA ContractFinish ==
  ASSUME UNCHANGED AdapterInstance, \A x \in Ids : effects'[x] = effects[x],
         NEW id \in Ids, HandleOf(id).state = "Pending", NEW state,
         state = (IF effects[id] = 1 THEN "Succeeded" ELSE "Failed"),
         HandleOf(id)' = [HandleOf(id) EXCEPT !.state = state],
         \A x \in Ids \ {id} : HandleOf(x)' = HandleOf(x)
  PROVE  Contract!ContractNext
<1>1. Contract!Become(id, state)
  BY ContractBecome
<1>2. Contract!Finish(id)
  BY <1>1 DEF Contract!Finish, HandleOf, Ids
<1> QED
  BY <1>2 DEF Contract!ContractNext, Ids

\* The removal of the disk that a create made.
LEMMA ContractRemove ==
  ASSUME UNCHANGED AdapterInstance, \A x \in Ids : effects'[x] = effects[x],
         NEW id \in Ids, HandleOf(id).state = "Succeeded", HandleOf(id).mutation = "Create",
         HandleOf(id)' = [HandleOf(id) EXCEPT !.state = "Deleted"],
         \A x \in Ids \ {id} : HandleOf(x)' = HandleOf(x)
  PROVE  Contract!ContractNext
<1>1. Contract!Become(id, "Deleted")
  BY ContractBecome
<1>2. Contract!Remove(id)
  BY <1>1 DEF Contract!Remove, HandleOf, Ids
<1> QED
  BY <1>2 DEF Contract!ContractNext, Ids

\* A new handle, at the cost of at most one that may expire.
LEMMA ContractReserve ==
  ASSUME UNCHANGED AdapterInstance, \A x \in Ids : effects'[x] = effects[x],
         NEW id \in Ids, NEW mutation \in Mutations, NEW evicted,
         evicted \in {{}} \cup {{e} : e \in Ids}, id \notin evicted,
         HandleOf(id).state = "Unissued",
         HandleOf(id)' = [state |-> "Reserved", mutation |-> mutation],
         \A x \in evicted :
           /\ \/ HandleOf(x).state \in {"Reserved", "Failed", "Deleted"}
              \/ HandleOf(x).state = "Succeeded" /\ HandleOf(x).mutation = "Delete"
           /\ HandleOf(x)' = [state |-> "Expired", mutation |-> "None"],
         \A x \in Ids \ (evicted \cup {id}) : HandleOf(x)' = HandleOf(x)
  PROVE  Contract!ContractNext
<1>1. \A e \in evicted : Contract!Expirable(e)
  BY DEF Contract!Expirable, HandleOf, Ids
<1>2. Contract!Reserve(id, mutation, evicted)
  BY <1>1 DEF Contract!Reserve, Contract!Expired, HandleOf, Ids
<1> QED
  BY <1>2 DEF Contract!ContractNext, Ids, Mutations

\* A new adapter instance.
LEMMA ContractRestart ==
  ASSUME AdapterInstance' = AdapterInstance + 1, \A x \in Ids : effects'[x] = 0,
         \A x \in Ids : HandleOf(x).state # "Pending",
         \A x \in Ids : HandleOf(x)' = [state |-> "Unissued", mutation |-> "None"]
  PROVE  Contract!ContractNext
<1>1. Contract!PendingHandles = {}
  BY DEF Contract!PendingHandles, HandleOf, Ids
<1>2. Contract!Restart
  BY <1>1 DEF Contract!Restart, Contract!Unissued, HandleOf, Ids
<1> QED
  BY <1>2 DEF Contract!ContractNext

\* HandleRecords, after a step.
LEMMA NextHandleRecords ==
  ManagementInv' =>
    \A id \in Ids :
      /\ \A s \in Slots : Operations'[s].Id = id =>
           HandleOf(id)' = [state |-> Operations'[s].State, mutation |-> Operations'[s].Mutation]
      /\ (\A s \in Slots : Operations'[s].Id # id) =>
           HandleOf(id)' = [state |-> IF Issued(id)' THEN "Expired" ELSE "Unissued",
                            mutation |-> "None"]
<1>1. (ManagementInv =>
         \A id \in Ids :
           /\ \A s \in Slots : Operations[s].Id = id =>
                HandleOf(id) = [state |-> Operations[s].State, mutation |-> Operations[s].Mutation]
           /\ (\A s \in Slots : Operations[s].Id # id) =>
                HandleOf(id) = [state |-> IF Issued(id) THEN "Expired" ELSE "Unissued",
                                mutation |-> "None"])'
  BY HandleRecords, PTL
<1> QED
  BY <1>1

\* A step that leaves the table alone changes no answer.
LEMMA SameTable ==
  ASSUME UNCHANGED <<Operations, NextOperationId>>
  PROVE  \A x \in Ids : HandleOf(x)' = HandleOf(x)
  BY DEF HandleOf, Observed, SlotsOf, FindOperation, Issued

\* A record that is rewritten under its ID changes one answer.
LEMMA RecordMoves ==
  ASSUME ManagementInv, ManagementInv', NEW s \in Slots, OnlyRecord(s), UNCHANGED NextOperationId,
         NEW id, id # 0, Operations[s].Id = id, Operations'[s].Id = id,
         Operations'[s].Mutation = Operations[s].Mutation
  PROVE  /\ id \in Ids
         /\ HandleOf(id) = [state |-> Operations[s].State, mutation |-> Operations[s].Mutation]
         /\ HandleOf(id)' = [HandleOf(id) EXCEPT !.state = Operations'[s].State]
         /\ \A x \in Ids \ {id} : HandleOf(x)' = HandleOf(x)
<1>1. id \in Ids
  BY DEF ManagementInv, TypeOK, Record, Ids
<1>2. HandleOf(id) = [state |-> Operations[s].State, mutation |-> Operations[s].Mutation]
  BY <1>1, HandleRecords
<1>3. HandleOf(id)' = [state |-> Operations'[s].State, mutation |-> Operations'[s].Mutation]
  BY <1>1, NextHandleRecords
<1>4. ASSUME NEW x \in Ids \ {id}
      PROVE  HandleOf(x)' = HandleOf(x)
  <2>1. \A r \in Slots : Operations[r].Id = x \/ Operations'[r].Id = x => Operations'[r] = Operations[r]
    BY <1>4 DEF OnlyRecord
  <2>2. Issued(x)' <=> Issued(x)
    BY DEF Issued
  <2>3. CASE \E r \in Slots : Operations[r].Id = x
    BY <1>4, <2>1, <2>3, HandleRecords, NextHandleRecords
  <2>4. CASE \A r \in Slots : Operations[r].Id # x
    BY <1>4, <2>1, <2>2, <2>4, HandleRecords, NextHandleRecords
  <2> QED
    BY <2>3, <2>4
<1> QED
  BY <1>1, <1>2, <1>3, <1>4

\* A reservation is a step of the contract: the new ID was never issued, and the record it
\* displaces, if any, is one that may expire.
LEMMA ReserveMeetsContract ==
  ASSUME ManagementInv, ManagementInv', NEW mutation \in Mutations, ReserveOperation(mutation)
  PROVE  Contract!ContractNext
<1> USE DEF ManagementInv
<1>0. /\ NextOperationId \in OperationIds /\ OperationIds \subseteq Nat
      /\ \A x \in OperationIds : x < OperationIdModulus
      /\ \A s \in Slots : Operations[s] \in Record /\ Operations[s].Id \in OperationIds
  BY ModulusAssumption DEF TypeOK, Record, OperationIds
<1>1. PICK s \in Slots :
        /\ Operations[s].State # "Pending"
        /\ ~(Operations[s].State = "Succeeded" /\ Operations[s].Mutation = "Create")
        /\ Operations'[s].Id = NextOperationId /\ Operations'[s].Mutation = mutation
        /\ Operations'[s].State = "Reserved"
        /\ OnlyRecord(s)
  BY ReservedRecord
<1>2. /\ NextOperationId # 0
      /\ NextOperationId' = IF NextOperationId + 1 = OperationIdModulus THEN 0
                            ELSE NextOperationId + 1
  BY ReservedRecord
<1>3. UNCHANGED <<AdapterInstance, effects>>
  BY DEF ReserveOperation
<1>4. PICK id : id = NextOperationId
  OBVIOUS
<1>5. PICK old : old = Operations[s].Id
  OBVIOUS
<1>6. id \in Ids /\ old \in OperationIds
  BY <1>0, <1>2, <1>4, <1>5 DEF Ids
<1>7. \A r \in Slots : Operations[r].Id # id
  BY <1>0, <1>2, <1>4 DEF Table, Issued
<1>8. HandleOf(id).state = "Unissued"
  <2>1. ~Issued(id)
    BY <1>0, <1>2, <1>4 DEF Issued
  <2> QED
    BY <1>6, <1>7, <2>1, HandleRecords
<1>9. HandleOf(id)' = [state |-> "Reserved", mutation |-> mutation]
  BY <1>1, <1>4, <1>6, NextHandleRecords
<1>10. \A x \in Ids \ {id} : Issued(x)' <=> Issued(x)
  BY <1>0, <1>2, <1>4 DEF Issued, Ids
<1>11. \A r \in Slots \ {s} : Operations'[r] = Operations[r]
  BY <1>1 DEF OnlyRecord
<1>12. ASSUME NEW x \in Ids \ {id, old}
       PROVE  HandleOf(x)' = HandleOf(x)
  <2>1. CASE \E r \in Slots : Operations[r].Id = x
    BY <1>1, <1>4, <1>5, <1>11, <1>12, <2>1, HandleRecords, NextHandleRecords
  <2>2. CASE \A r \in Slots : Operations[r].Id # x
    <3>1. \A r \in Slots : Operations'[r].Id # x
      BY <1>1, <1>4, <1>11, <1>12, <2>2
    <3> QED
      BY <1>10, <1>12, <2>2, <3>1, HandleRecords, NextHandleRecords
  <2> QED
    BY <2>1, <2>2
<1>13. CASE old = 0
  <2>1. \A x \in Ids \ {id} : x \in Ids \ {id, old}
    BY <1>13 DEF Ids
  <2>2. PICK evicted : evicted = {}
    OBVIOUS
  <2> QED
    BY <1>3, <1>6, <1>8, <1>9, <1>12, <2>1, <2>2, ContractReserve
<1>14. CASE old # 0
  <2>1. old \in Ids \ {id}
    BY <1>5, <1>6, <1>7, <1>14 DEF Ids
  <2>2. /\ HandleOf(old) = [state |-> Operations[s].State, mutation |-> Operations[s].Mutation]
        /\ Operations[s].Mutation \in Mutations /\ Operations[s].State \in OperationState
        /\ Issued(old)
    BY <1>5, <1>14, <2>1, HandleRecords DEF Table
  <2>3. \/ HandleOf(old).state \in {"Reserved", "Failed", "Deleted"}
        \/ HandleOf(old).state = "Succeeded" /\ HandleOf(old).mutation = "Delete"
    BY <1>1, <2>2 DEF Mutations, OperationState
  <2>4. \A r \in Slots : Operations'[r].Id # old
    BY <1>1, <1>4, <1>5, <1>11, <1>14, <2>1 DEF Table
  <2>5. HandleOf(old)' = [state |-> "Expired", mutation |-> "None"]
    BY <1>10, <2>1, <2>2, <2>4, NextHandleRecords
  <2>6. PICK evicted : evicted = {old}
    OBVIOUS
  <2> QED
    BY <1>3, <1>6, <1>8, <1>9, <1>12, <2>1, <2>3, <2>5, <2>6, ContractReserve
<1> QED
  BY <1>13, <1>14

\* Every step of the controller is a step of the contract, or none of its business.
LEMMA ContractStep ==
  ASSUME ManagementInv, ManagementInv', [Next]_vars
  PROVE  Contract!ContractNext
<1> USE DEF ManagementInv
<1>0. /\ \A s \in Slots : Operations[s] \in Record /\ Operations[s].Id \in OperationIds
      /\ \A x \in Ids : x \in OperationIds
  BY DEF TypeOK, Record, Ids
<1>1. ASSUME UNCHANGED <<AdapterInstance, Operations, NextOperationId, effects>>
      PROVE  Contract!ContractNext
  BY <1>1, SameTable, ContractStutter
<1>2. ASSUME NEW s \in Slots, OnlyRecord(s),
             UNCHANGED <<AdapterInstance, NextOperationId, effects>>,
             Operations[s].Id # 0, Operations[s].State = "Pending",
             Operations'[s].Id = Operations[s].Id,
             Operations'[s].Mutation = Operations[s].Mutation,
             Operations'[s].State \in {"Succeeded", "Failed"}
      PROVE  Contract!ContractNext
  <2>1. PICK id : id = Operations[s].Id
    OBVIOUS
  <2>2. PICK state : state = Operations'[s].State
    OBVIOUS
  <2>3. state = IF effects[id] = 1 THEN "Succeeded" ELSE "Failed"
    <3>1. Operations'[s].State = IF effects'[Operations'[s].Id] = 1 THEN "Succeeded" ELSE "Failed"
      BY <1>2 DEF Effects
    <3> QED
      BY <1>2, <2>1, <2>2, <3>1
  <2>4. /\ id \in Ids
        /\ HandleOf(id) = [state |-> Operations[s].State, mutation |-> Operations[s].Mutation]
        /\ HandleOf(id)' = [HandleOf(id) EXCEPT !.state = state]
        /\ \A x \in Ids \ {id} : HandleOf(x)' = HandleOf(x)
    BY <1>2, <2>1, <2>2, RecordMoves
  <2> QED
    BY <1>2, <2>3, <2>4, ContractFinish
<1>3. ASSUME NEW mutation \in Mutations, ReserveOperation(mutation)
      PROVE  Contract!ContractNext
  BY <1>3, ReserveMeetsContract
<1>4. ASSUME NEW c \in Srbs, NEW command \in MutationCommand, PrepareSubmission(c, command)
      PROVE  Contract!ContractNext
  <2>1. UNCHANGED <<AdapterInstance, NextOperationId, effects>> /\ ~ManagementBusy
    BY <1>4 DEF PrepareSubmission, SubmissionStatus, BeginManagement
  <2>2. CASE ~command.reserved
    <3>1. UNCHANGED Operations
      BY <1>4, <2>2 DEF PrepareSubmission
    <3> QED
      BY <1>1, <2>1, <3>1
  <2>3. CASE command.reserved
    <3>1. PICK s \in Slots :
            /\ Operations[s].Id # 0 /\ Operations[s].State = "Reserved"
            /\ Operations'[s].Id = Operations[s].Id /\ Operations'[s].State = "Pending"
            /\ Operations'[s].Mutation = Operations[s].Mutation
            /\ OnlyRecord(s)
      BY <1>4, <2>3, AcceptedRecord DEF OnlyRecord
    <3>2. PICK id : id = Operations[s].Id
      OBVIOUS
    <3>3. /\ id \in Ids
          /\ HandleOf(id) = [state |-> Operations[s].State, mutation |-> Operations[s].Mutation]
          /\ HandleOf(id)' = [HandleOf(id) EXCEPT !.state = Operations'[s].State]
          /\ \A x \in Ids \ {id} : HandleOf(x)' = HandleOf(x)
      BY <2>1, <3>1, <3>2, RecordMoves
    <3>4. \A r \in Slots : Operations[r].State # "Pending"
      BY <2>1 DEF PendingRecords, InProgress, Ownership
    <3>5. \A x \in Ids : HandleOf(x).state # "Pending"
      BY <3>4, HandleRecords
    <3> QED
      BY <2>1, <3>1, <3>3, <3>5, ContractAccept
  <2> QED
    BY <2>2, <2>3
<1>5. ASSUME NEW c \in Srbs, InProgress(c), UNCHANGED <<AdapterInstance, NextOperationId, effects>>,
             NEW status \in Status, Operations' = FailOperation(srb[c].command.operation, status)
      PROVE  Contract!ContractNext
  <2>1. PICK s \in Slots :
           /\ RecordFor(s, srb[c].command) /\ Operations'[s].Id = Operations[s].Id
           /\ Operations'[s].Mutation = Operations[s].Mutation
           /\ Operations'[s].State = "Failed" /\ OnlyRecord(s)
    BY <1>5, FailedRecord
  <2>2. Operations[s].Id # 0 /\ Operations[s].State = "Pending"
    BY <1>5, <2>1 DEF RecordFor, InProgress, Commands
  <2> QED
    BY <1>2, <1>5, <2>1, <2>2
<1>6. ASSUME NEW c \in Srbs, QueueFails(c)
      PROVE  Contract!ContractNext
  <2>1. /\ UNCHANGED <<AdapterInstance, NextOperationId, effects>>
        /\ Operations' = IF srb[c].command.reserved
                   THEN FailOperation(srb[c].command.operation, "INSUFFICIENT_RESOURCES")
                   ELSE Operations
    BY <1>6 DEF QueueFails
  <2> QED
    BY <1>1, <1>5, <1>6, <2>1, FailingSteps DEF Status
<1>7. CASE RejectOperation
  <2>1. UNCHANGED <<AdapterInstance, NextOperationId, effects>>
    BY <1>7 DEF RejectOperation
  <2> QED
    BY <1>5, <1>7, <2>1, FailingSteps DEF Status, Command
<1>8. CASE PublishOperationResult
  <2>1. PICK s \in Slots :
           /\ RecordFor(s, Command) /\ OnlyRecord(s)
           /\ Operations'[s].Id = Operations[s].Id /\ Operations'[s].Mutation = Command.mutation
           /\ Operations'[s].State \in {"Succeeded", "Failed"}
    BY <1>8, PublishedRecord
  <2>2. /\ Operations[s].Id # 0 /\ Operations[s].Mutation = Command.mutation
        /\ Operations[s].State = "Pending"
    BY <1>8, <2>1, WorkerItem DEF RecordFor, PublishOperationResult, Working
  <2>3. UNCHANGED <<AdapterInstance, NextOperationId, effects>>
    BY <1>8 DEF PublishOperationResult
  <2> QED
    BY <1>2, <2>1, <2>2, <2>3
<1>9. CASE CommitDisk \/ MarkDisk
  <2>1. /\ UNCHANGED <<AdapterInstance, Operations, NextOperationId>> /\ ~Mutated /\ CountEffect
    BY <1>9, MutatedSteps DEF CommitDisk, MarkDisk, MutatingStep
  <2>2. worker.pc = "running"
    BY <1>9, WhoCalls DEF CommitDisk, MarkDisk, StoreCall, LockedCallStep, Threads
  <2>3. CASE ~Command.reserved
    BY <1>1, <2>1, <2>3 DEF CountEffect
  <2>4. CASE Command.reserved
    <3>1. PICK s \in Slots : RecordFor(s, Command)
      BY <2>2, <2>4 DEF PendingRecords
    <3>2. PICK id : id = Command.operation
      OBVIOUS
    <3>3. id \in Ids /\ Operations[s].Id = id /\ Operations[s].State = "Pending"
      BY <1>0, <2>2, <2>4, <3>1, <3>2, WorkerItem DEF RecordFor, Working, Ids
    <3>4. effects[id] = 0
      BY <1>0, <2>1, <3>3 DEF Effects, Ids
    <3>5. effects' = [effects EXCEPT ![id] = 1]
      BY <2>1, <2>4, <3>2, <3>4 DEF CountEffect
    <3>6. effects'[id] = 1 /\ \A x \in Ids \ {id} : effects'[x] = effects[x]
      BY <1>0, <3>3, <3>5 DEF TypeOK
    <3>7. HandleOf(id).state = "Pending"
      BY <3>3, HandleRecords
    <3> QED
      BY <2>1, <3>3, <3>4, <3>6, <3>7, SameTable, ContractMutate
  <2> QED
    BY <2>3, <2>4
<1>10. ASSUME NEW t \in Threads, FinalizeDiskRemoval(t)
       PROVE  Contract!ContractNext
  <2>1. UNCHANGED <<AdapterInstance, NextOperationId, effects>>
    BY <1>10 DEF FinalizeDiskRemoval
  <2> DEFINE Marked(s) == /\ Operations[s].Mutation = "Create"
                          /\ Operations[s].DeviceId = call[t].deviceId
                          /\ Operations[s].State = "Succeeded"
  <2>2. \A s \in Slots :
          /\ Operations'[s].Id = Operations[s].Id /\ Operations'[s].Mutation = Operations[s].Mutation
          /\ Marked(s) => Operations'[s].State = "Deleted"
          /\ ~Marked(s) => Operations'[s] = Operations[s]
    BY <1>10, DeletedRecords
  <2>3. ASSUME NEW r \in Slots, NEW s \in Slots, Marked(r), Marked(s)
        PROVE  r = s
    <3>1. /\ Operations[r].Lun \in Luns /\ Operations[s].Lun \in Luns
          /\ luns[Operations[r].Lun].State # "Empty" /\ luns[Operations[s].Lun].State # "Empty"
          /\ luns[Operations[r].Lun].DeviceId = luns[Operations[s].Lun].DeviceId
      BY <1>0, <2>3 DEF OperationLunConsistency, Record
    <3>2. Operations[r].Lun = Operations[s].Lun
      BY <3>1 DEF StoreInv, DeviceIdsUnique
    <3>3. Operations[r].Id = Operations[s].Id /\ Operations[r].Id # 0
      BY <2>3, <3>2 DEF OperationLunConsistency, Table, NoRecord
    <3> QED
      BY <3>3 DEF Table
  <2>4. CASE \E s \in Slots : Marked(s)
    <3>1. PICK s \in Slots : Marked(s)
      BY <2>4
    <3>2. PICK id : id = Operations[s].Id
      OBVIOUS
    <3>3. id # 0
      BY <3>1, <3>2 DEF Table, NoRecord
    <3>4. OnlyRecord(s)
      BY <2>2, <2>3, <3>1 DEF OnlyRecord
    <3>5. /\ id \in Ids
          /\ HandleOf(id) = [state |-> Operations[s].State, mutation |-> Operations[s].Mutation]
          /\ HandleOf(id)' = [HandleOf(id) EXCEPT !.state = Operations'[s].State]
          /\ \A x \in Ids \ {id} : HandleOf(x)' = HandleOf(x)
      BY <2>1, <2>2, <3>2, <3>3, <3>4, RecordMoves
    <3> QED
      BY <2>1, <2>2, <3>1, <3>5, ContractRemove
  <2>5. CASE \A s \in Slots : ~Marked(s)
    <3>1. UNCHANGED Operations
      BY <2>2, <2>5 DEF TypeOK
    <3> QED
      BY <1>1, <2>1, <3>1
  <2> QED
    BY <2>4, <2>5
<1>11. CASE Initialize
  <2>1. /\ teardown = "released" /\ AdapterInstance' = AdapterInstance + 1
        /\ \A s \in Slots : Operations'[s] = NoRecord
        /\ NextOperationId' = 1 /\ \A x \in OperationIds : effects'[x] = 0
    BY <1>11 DEF Initialize
  <2>2. \A r \in Slots : Operations[r].State # "Pending"
    BY <2>1 DEF TeardownOrder, PendingRecords, InProgress, Ownership
  <2>3. \A x \in Ids : HandleOf(x).state # "Pending"
    BY <2>2, HandleRecords
  <2>4. ASSUME NEW x \in Ids
        PROVE  HandleOf(x)' = [state |-> "Unissued", mutation |-> "None"]
    <3>1. x # 0 /\ x \in Nat
      BY <2>4, ModulusAssumption DEF Ids, OperationIds
    <3>2. ~Issued(x)'
      BY <2>1, <3>1 DEF Issued
    <3> QED
      BY <2>1, <2>4, <3>1, <3>2, NextHandleRecords DEF NoRecord
  <2> QED
    BY <1>0, <2>1, <2>3, <2>4, ContractRestart
<1>12. CASE \/ StillStep \/ (\E t \in Threads : LookStep(t)) \/ MarkAllDisks
            \/ (\E c \in Srbs : QueueWorkItem(c)) \/ StartWorkItem \/ SnapshotPendingOperation
            \/ ProcessLegacyRequest \/ WriteLegacyResponse \/ CompleteRequest \/ BusChangeDetected
            \/ FinishManagement \/ ReleaseLunLock \/ WorkerReturns \/ HandBackStep
  <2>1. UNCHANGED <<AdapterInstance, Operations, NextOperationId, effects>>
    BY <1>12, HandBackSteps DEF StillStep, LookStep, MarkAllDisks, QueueWorkItem, StartWorkItem,
       SnapshotPendingOperation, ProcessLegacyRequest, WriteLegacyResponse, CompleteRequest,
       BusChangeDetected, FinishManagement, ReleaseLunLock, WorkerReturns, Unwind, managementVars
  <2> QED
    BY <1>1, <2>1
<1> QED
  BY <1>3, <1>4, <1>6, <1>7, <1>8, <1>9, <1>10, <1>11, <1>12, StepKinds DEF QuietKinds, WorkStep

\* The controller implements the contract of its operations.  Every answer a client can get
\* about a handle moves as the contract allows, and every mutation is one the contract
\* counts, whatever the other clients, the worker, I/O, stop and teardown do meanwhile.
THEOREM ControllerMeetsContract == Spec => ImplementsContract
<1>1. Init => Contract!ContractInit
  <2> SUFFICES ASSUME Init  PROVE Contract!ContractInit
    OBVIOUS
  <2>1. \A x \in Ids : HandleOf(x) = [state |-> "Unissued", mutation |-> "None"]
    <3> SUFFICES ASSUME NEW x \in Ids
        PROVE  HandleOf(x) = [state |-> "Unissued", mutation |-> "None"]
      OBVIOUS
    <3>1. x # 0 /\ x \in Nat
      BY ModulusAssumption DEF Ids, OperationIds
    <3>2. ManagementInv /\ ~Issued(x) /\ \A s \in Slots : Operations[s].Id # x
      BY <3>1, ManagementInvInit DEF Init, Issued, NoRecord
    <3> QED
      BY <3>2, HandleRecords
  <2> QED
    BY <2>1 DEF Contract!ContractInit, Contract!Unissued, HandleOf, Ids, Init
<1>2. ManagementInv /\ ManagementInv' /\ [Next]_vars
        => [Contract!ContractNext]_(Contract!contractVars)
  BY ContractStep
<1> QED
  BY ManagementInvariant, <1>1, <1>2, PTL DEF Spec, ImplementsContract, Contract!ContractSpec

=============================================================================
