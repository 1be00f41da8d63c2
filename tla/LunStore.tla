------------------------------- MODULE LunStore -------------------------------
(***************************************************************************)
(* The LUN table of one adapter (driver/src/storage): RAM disks, the       *)
(* non-paged pool behind them, the I/O leases that let HwStartIo touch     *)
(* backing memory outside LunLock, and the create, delete and drain        *)
(* primitives that a management thread runs.                               *)
(*                                                                         *)
(* One action is one critical section of LunLock, or one call made outside *)
(* it (pool allocation, pool free, event wait, memory copy).  The locals a *)
(* thread carries from one step to the next are in call[t].                *)
(*                                                                         *)
(* Some definitions follow a wrong form of themselves, named for the       *)
(* mistake (FollowingIdUnbounded before FollowingId).  The model does not  *)
(* use those: they show that a property fails when the code is wrong so.   *)
(***************************************************************************)
EXTENDS Integers, FiniteSets, Functions

CONSTANTS
  MaximumDiskCount,     \* kMaximumDiskCount (16)
  Sizes,                \* SizeBytes values that pass ValidateCreateRequest
  MediaKinds,           \* MediaKind, with the other replayed create fields
  MaximumTotalBytes,    \* kMaximumTotalDiskBytes
  DeviceIdModulus,      \* 2^32: NextDeviceId is a ULONG that wraps to 0
  OperationIdModulus,   \* 2^64: NextOperationId is a ULONGLONG
  Blocks,               \* addresses the StorPort pool can return
  NoBlock,              \* nullptr
  IoThreads             \* SRBs that can be inside HwStartIo at once

ASSUME DiskCountAssumption == MaximumDiskCount \in Nat \ {0}
ASSUME SizesAssumption ==
  /\ MaximumTotalBytes \in Nat
  /\ Sizes \subseteq 1..MaximumTotalBytes
ASSUME MediaKindsAssumption == MediaKinds \subseteq Nat \ {0}
ASSUME ModulusAssumption ==
  /\ DeviceIdModulus \in Nat /\ DeviceIdModulus > 1
  /\ OperationIdModulus \in Nat /\ OperationIdModulus > 1
ASSUME BlocksAssumption == NoBlock \notin Blocks /\ IsFiniteSet(Blocks)
ASSUME IoThreadsAssumption == IsFiniteSet(IoThreads)

VARIABLES
  luns,                 \* extension_.Luns
  TotalAllocatedBytes,
  NextDeviceId,
  AdapterStopping,
  pool,                 \* length of each live pool block, 0 when free
  memory,               \* device whose data a block holds, 0 when zeroed
  io,                   \* the LunIoLease of each I/O thread
  call                  \* locals of the threads that mutate the table

storeVars == <<luns, TotalAllocatedBytes, NextDeviceId, AdapterStopping,
               pool, memory, io, call>>

-----------------------------------------------------------------------------
(***************************************************************************)
(* Types.                                                                  *)
(***************************************************************************)
Luns == 0..(MaximumDiskCount - 1)
DeviceIds == 0..(DeviceIdModulus - 1)
OperationIds == 0..(OperationIdModulus - 1)
BlocksOrNull == Blocks \cup {NoBlock}

\* The management worker runs CreateDisk and DeleteDisk, teardown drains.
Threads == {"worker", "teardown"}

LunState == {"Empty", "Online", "Stopping"}

Status == {"SUCCESS", "PENDING", "DEVICE_NOT_READY", "DEVICE_BUSY",
           "QUOTA_EXCEEDED", "INSUFFICIENT_RESOURCES", "NO_SUCH_DEVICE",
           "NOT_FOUND", "INVALID_PARAMETER"}

CreateRequest == [SizeBytes : Sizes, MediaKind : MediaKinds]
NoCreate == [SizeBytes |-> 0, MediaKind |-> 0]
CreateOrNone == CreateRequest \cup {NoCreate}

Lun == [State : LunState, DeviceId : DeviceIds, MediaKind : MediaKinds \cup {0},
        SizeBytes : Sizes \cup {0}, CreateOperationId : OperationIds,
        BackingStore : BlocksOrNull, ActiveRequests : Nat,
        NoActiveRequests : BOOLEAN]

LunView == [backingStore : BlocksOrNull, sizeBytes : Sizes \cup {0},
            mediaKind : MediaKinds \cup {0}, deviceId : DeviceIds]
NoView == [backingStore |-> NoBlock, sizeBytes |-> 0, mediaKind |-> 0,
           deviceId |-> 0]

Lease == [held : BOOLEAN, lun : Luns, view : LunView]
NoLease == [held |-> FALSE, lun |-> 0, view |-> NoView]

CallPc == {"idle", "select", "allocate", "commit", "mark", "markAll", "first",
           "wait", "detach", "free", "finalize", "returned"}

Call == [pc : CallPc, request : CreateOrNone, lun : Luns, deviceId : DeviceIds,
         backing : BlocksOrNull, status : Status]
NoCall == [pc |-> "idle", request |-> NoCreate, lun |-> 0, deviceId |-> 0,
           backing |-> NoBlock, status |-> "PENDING"]

StoreTypeOK ==
  /\ luns \in [Luns -> Lun]
  /\ TotalAllocatedBytes \in Nat
  /\ NextDeviceId \in DeviceIds
  /\ AdapterStopping \in BOOLEAN
  /\ pool \in [Blocks -> Sizes \cup {0}]
  /\ memory \in [Blocks -> DeviceIds]
  /\ io \in [IoThreads -> Lease]
  /\ call \in [Threads -> Call]

-----------------------------------------------------------------------------
(***************************************************************************)
(* Initialize: the zeroed extension with its events signalled.  Pool       *)
(* memory belongs to StorPort and keeps its contents across instances.     *)
(***************************************************************************)
ZeroedLun ==
  [State |-> "Empty", DeviceId |-> 0, MediaKind |-> 0, SizeBytes |-> 0,
   CreateOperationId |-> 0, BackingStore |-> NoBlock, ActiveRequests |-> 0,
   NoActiveRequests |-> TRUE]

StoreInit ==
  /\ luns = [l \in Luns |-> ZeroedLun]
  /\ TotalAllocatedBytes = 0
  /\ NextDeviceId = 1
  /\ AdapterStopping = FALSE
  /\ pool = [b \in Blocks |-> 0]
  /\ memory = [b \in Blocks |-> 0]
  /\ io = [i \in IoThreads |-> NoLease]
  /\ call = [t \in Threads |-> NoCall]

\* HwFindAdapter initialises the extension again for a new adapter instance.
InitializeStore ==
  /\ luns' = [l \in Luns |-> ZeroedLun]
  /\ TotalAllocatedBytes' = 0
  /\ NextDeviceId' = 1
  /\ AdapterStopping' = FALSE
  /\ UNCHANGED <<pool, memory, io, call>>

\* Stop, restart and CloseAdmission all come down to this exchange.
SetStopping(stopping) ==
  /\ AdapterStopping' = stopping
  /\ UNCHANGED <<luns, TotalAllocatedBytes, NextDeviceId, pool, memory, io, call>>

-----------------------------------------------------------------------------
(***************************************************************************)
(* Calls and returns.                                                      *)
(***************************************************************************)
\* Thread t goes on with new locals.
Advance(t, locals) == call' = [call EXCEPT ![t] = locals]

\* A call is entered by a thread that is in no other.
Enter(t, locals) ==
  /\ call[t].pc = "idle"
  /\ Advance(t, locals)

BeginCreate(t, request) ==
  Enter(t, [NoCall EXCEPT !.pc = "select", !.request = request])
BeginDelete(t, deviceId) ==
  Enter(t, [NoCall EXCEPT !.pc = "mark", !.deviceId = deviceId])
BeginDrain(t) ==
  Enter(t, [NoCall EXCEPT !.pc = "markAll"])

Return(t, status) ==
  Advance(t, [call[t] EXCEPT !.pc = "returned", !.status = status,
                             !.backing = NoBlock])

\* The caller takes the result and drops the locals.
Collect(t) ==
  /\ call[t].pc = "returned"
  /\ Advance(t, NoCall)

\* A successful reserved create is published with the operation that made it.
BindCreateOperation(lun, operation) ==
  luns' = [luns EXCEPT ![lun].CreateOperationId = operation]

First(S) == CHOOSE l \in S : \A k \in S : l <= k

\* Device and operation IDs are unsigned counters that wrap to 0.
FollowingIdUnbounded(id, modulus) == id + 1
FollowingId(id, modulus) == (id + 1) % modulus

\* StorPortFreePool; freeing nullptr does nothing.
PoolUnchangedByFree(block) == pool
PoolWithout(block) == [b \in Blocks |-> IF b = block THEN 0 ELSE pool[b]]

-----------------------------------------------------------------------------
(***************************************************************************)
(* CreateDisk.                                                             *)
(***************************************************************************)
LunsIn(state) == {l \in Luns : luns[l].State = state}

OverQuotaOffByOne(sizeBytes) == TotalAllocatedBytes > MaximumTotalBytes - sizeBytes + 1
OverQuota(sizeBytes) == TotalAllocatedBytes > MaximumTotalBytes - sizeBytes

SelectStatus(sizeBytes) ==
  IF AdapterStopping THEN "DEVICE_NOT_READY"
  ELSE IF OverQuota(sizeBytes) THEN "QUOTA_EXCEEDED"
  ELSE IF LunsIn("Empty") = {} THEN "INSUFFICIENT_RESOURCES"
  ELSE "SUCCESS"

SelectAvailableLun(t) ==
  /\ call[t].pc = "select"
  /\ LET status == SelectStatus(call[t].request.SizeBytes) IN
     \/ /\ status = "SUCCESS"
        /\ Advance(t, [call[t] EXCEPT !.pc = "allocate",
                                      !.lun = First(LunsIn("Empty"))])
     \/ /\ status # "SUCCESS"
        /\ Return(t, status)
  /\ UNCHANGED <<luns, TotalAllocatedBytes, NextDeviceId, AdapterStopping,
                 pool, memory, io>>

MemoryNotCleared(block) == memory
MemoryCleared(block) == [memory EXCEPT ![block] = 0]

\* The pool hands out any free address, or none; a fresh block is zeroed
\* while it is still private to the thread.
AllocateBacking(t) ==
  /\ call[t].pc = "allocate"
  /\ \E b \in Blocks :
       /\ pool[b] = 0
       /\ pool' = [pool EXCEPT ![b] = call[t].request.SizeBytes]
       /\ memory' = MemoryCleared(b)
       /\ Advance(t, [call[t] EXCEPT !.pc = "commit", !.backing = b])
  /\ UNCHANGED <<luns, TotalAllocatedBytes, NextDeviceId, AdapterStopping, io>>

AllocateFails(t) ==
  /\ call[t].pc = "allocate"
  /\ Return(t, "INSUFFICIENT_RESOURCES")
  /\ UNCHANGED <<luns, TotalAllocatedBytes, NextDeviceId, AdapterStopping,
                 pool, memory, io>>

CommitStatusIdZeroAllowed(lun) ==
  IF AdapterStopping \/ luns[lun].State # "Empty" THEN "DEVICE_NOT_READY" ELSE "SUCCESS"
CommitStatus(lun) ==
  IF AdapterStopping \/ luns[lun].State # "Empty" THEN "DEVICE_NOT_READY"
  ELSE IF NextDeviceId = 0 THEN "INSUFFICIENT_RESOURCES"
  ELSE "SUCCESS"

CommittedLun(t) ==
  [State |-> "Online", DeviceId |-> NextDeviceId,
   MediaKind |-> call[t].request.MediaKind,
   SizeBytes |-> call[t].request.SizeBytes, CreateOperationId |-> 0,
   BackingStore |-> call[t].backing, ActiveRequests |-> 0,
   NoActiveRequests |-> TRUE]

CommitNewLun(t) ==
  /\ call[t].pc = "commit"
  /\ CommitStatus(call[t].lun) = "SUCCESS"
  /\ NextDeviceId' = FollowingId(NextDeviceId, DeviceIdModulus)
  /\ luns' = [luns EXCEPT ![call[t].lun] = CommittedLun(t)]
  /\ TotalAllocatedBytes' = TotalAllocatedBytes + call[t].request.SizeBytes
  /\ Advance(t, [call[t] EXCEPT !.pc = "returned", !.status = "SUCCESS",
                                !.backing = NoBlock, !.deviceId = NextDeviceId])
  /\ UNCHANGED <<AdapterStopping, pool, memory, io>>

\* The StorPortPoolAllocation destructor frees the block that was not adopted.
CommitFails(t) ==
  /\ call[t].pc = "commit"
  /\ CommitStatus(call[t].lun) # "SUCCESS"
  /\ pool' = PoolWithout(call[t].backing)
  /\ Return(t, CommitStatus(call[t].lun))
  /\ UNCHANGED <<luns, TotalAllocatedBytes, NextDeviceId, AdapterStopping,
                 memory, io>>

-----------------------------------------------------------------------------
(***************************************************************************)
(* DeleteDisk and DrainAndReleaseDisks.                                    *)
(***************************************************************************)
OnlineWithId(deviceId) ==
  {l \in Luns : luns[l].State = "Online" /\ luns[l].DeviceId = deviceId}

MarkLunStopping(t) ==
  /\ call[t].pc = "mark"
  /\ OnlineWithId(call[t].deviceId) # {}
  /\ LET l == First(OnlineWithId(call[t].deviceId)) IN
       /\ luns' = [luns EXCEPT ![l].State = "Stopping"]
       /\ Advance(t, [call[t] EXCEPT !.pc = "wait", !.lun = l])
  /\ UNCHANGED <<TotalAllocatedBytes, NextDeviceId, AdapterStopping,
                 pool, memory, io>>

MarkUnknownDisk(t) ==
  /\ call[t].pc = "mark"
  /\ OnlineWithId(call[t].deviceId) = {}
  /\ Return(t, "NO_SUCH_DEVICE")
  /\ UNCHANGED <<luns, TotalAllocatedBytes, NextDeviceId, AdapterStopping,
                 pool, memory, io>>

MarkAllLunsStopping(t) ==
  /\ call[t].pc = "markAll"
  /\ luns' = [l \in Luns |->
                [luns[l] EXCEPT !.State = IF @ = "Online" THEN "Stopping" ELSE @]]
  /\ Advance(t, [call[t] EXCEPT !.pc = "first"])
  /\ UNCHANGED <<TotalAllocatedBytes, NextDeviceId, AdapterStopping,
                 pool, memory, io>>

FirstStoppingLun(t) ==
  /\ call[t].pc = "first"
  /\ \/ /\ LunsIn("Stopping") # {}
        /\ LET l == First(LunsIn("Stopping")) IN
             Advance(t, [call[t] EXCEPT !.pc = "wait", !.lun = l,
                                        !.deviceId = luns[l].DeviceId])
     \/ /\ LunsIn("Stopping") = {}
        /\ Return(t, "SUCCESS")
  /\ UNCHANGED <<luns, TotalAllocatedBytes, NextDeviceId, AdapterStopping,
                 pool, memory, io>>

IoDrainedNotAwaited(lun) == TRUE
IoDrained(lun) == luns[lun].NoActiveRequests

WaitForLunIo(t) ==
  /\ call[t].pc = "wait"
  /\ IoDrained(call[t].lun)
  /\ Advance(t, [call[t] EXCEPT !.pc = "detach"])
  /\ UNCHANGED <<luns, TotalAllocatedBytes, NextDeviceId, AdapterStopping,
                 pool, memory, io>>

DetachBackingStore(t) ==
  /\ call[t].pc = "detach"
  /\ LET l == call[t].lun
         matches == luns[l].State = "Stopping" /\ luns[l].DeviceId = call[t].deviceId
     IN  /\ luns' = IF matches THEN [luns EXCEPT ![l].BackingStore = NoBlock] ELSE luns
         /\ Advance(t, [call[t] EXCEPT !.pc = "free",
              !.backing = IF matches THEN luns[l].BackingStore ELSE NoBlock])
  /\ UNCHANGED <<TotalAllocatedBytes, NextDeviceId, AdapterStopping,
                 pool, memory, io>>

FreeBacking(t) ==
  /\ call[t].pc = "free"
  /\ pool' = PoolWithout(call[t].backing)
  /\ Advance(t, [call[t] EXCEPT !.pc = "finalize", !.backing = NoBlock])
  /\ UNCHANGED <<luns, TotalAllocatedBytes, NextDeviceId, AdapterStopping,
                 memory, io>>

\* ActiveRequests and its event are left as they are.
FinalizedLun(lun) ==
  [luns[lun] EXCEPT !.BackingStore = NoBlock, !.SizeBytes = 0, !.DeviceId = 0,
                    !.MediaKind = 0, !.CreateOperationId = 0, !.State = "Empty"]

FinalizeRemoval(t) ==
  /\ call[t].pc = "finalize"
  /\ LET l == call[t].lun IN
       /\ TotalAllocatedBytes' =
            IF TotalAllocatedBytes >= luns[l].SizeBytes
            THEN TotalAllocatedBytes - luns[l].SizeBytes ELSE 0
       /\ luns' = [luns EXCEPT ![l] = FinalizedLun(l)]
  /\ Advance(t, [call[t] EXCEPT !.pc = IF t = "teardown" THEN "first" ELSE "returned",
                                !.status = "SUCCESS"])
  /\ UNCHANGED <<NextDeviceId, AdapterStopping, pool, memory, io>>

-----------------------------------------------------------------------------
(***************************************************************************)
(* I/O: WispDiskHandleExecuteScsi holds a lease for the whole command.     *)
(* AcquireLunIo does not look at AdapterStopping.                          *)
(***************************************************************************)
WithLease(lun) ==
  [lun EXCEPT !.ActiveRequests = @ + 1,
              !.NoActiveRequests = IF lun.ActiveRequests = 0 THEN FALSE ELSE @]

WithoutLeaseSignalledEarly(lun) ==
  [lun EXCEPT !.ActiveRequests = IF @ # 0 THEN @ - 1 ELSE @, !.NoActiveRequests = TRUE]
WithoutLeaseNeverSignalled(lun) ==
  [lun EXCEPT !.ActiveRequests = IF @ # 0 THEN @ - 1 ELSE @]
WithoutLease(lun) ==
  [lun EXCEPT !.ActiveRequests = IF @ # 0 THEN @ - 1 ELSE @,
              !.NoActiveRequests = IF lun.ActiveRequests = 1 THEN TRUE ELSE @]

AcquireLunIo(i, l) ==
  /\ ~io[i].held
  /\ luns[l].State = "Online" /\ luns[l].BackingStore # NoBlock
  /\ luns' = [luns EXCEPT ![l] = WithLease(@)]
  /\ io' = [io EXCEPT ![i] =
       [held |-> TRUE, lun |-> l,
        view |-> [backingStore |-> luns[l].BackingStore,
                  sizeBytes |-> luns[l].SizeBytes,
                  mediaKind |-> luns[l].MediaKind,
                  deviceId |-> luns[l].DeviceId]]]
  /\ UNCHANGED <<TotalAllocatedBytes, NextDeviceId, AdapterStopping,
                 pool, memory, call>>

\* A WRITE copies caller data into the block the view names, under no lock.
WriteBacking(i) ==
  /\ io[i].held
  /\ memory' = [memory EXCEPT ![io[i].view.backingStore] = io[i].view.deviceId]
  /\ UNCHANGED <<luns, TotalAllocatedBytes, NextDeviceId, AdapterStopping,
                 pool, io, call>>

ReleaseLunIo(i) ==
  /\ io[i].held
  /\ luns' = [luns EXCEPT ![io[i].lun] = WithoutLease(@)]
  /\ io' = [io EXCEPT ![i] = NoLease]
  /\ UNCHANGED <<TotalAllocatedBytes, NextDeviceId, AdapterStopping,
                 pool, memory, call>>

-----------------------------------------------------------------------------
(***************************************************************************)
(* The store on its own, used the way its private interface requires: one  *)
(* mutating call at a time, and an adapter initialised again only when it  *)
(* holds nothing.  ManagementController is shown to keep to this.          *)
(***************************************************************************)
Exclusive == \A t \in Threads : call[t].pc = "idle"

StartCall ==
  /\ Exclusive
  /\ \/ \E request \in CreateRequest : BeginCreate("worker", request)
     \/ \E deviceId \in DeviceIds : BeginDelete("worker", deviceId)
     \/ BeginDrain("teardown")
  /\ UNCHANGED <<luns, TotalAllocatedBytes, NextDeviceId, AdapterStopping,
                 pool, memory, io>>

\* The operation is bound only to the LUN of a create that succeeded.
EndCall(t) ==
  /\ Collect(t)
  /\ \/ UNCHANGED luns
     \/ /\ call[t].status = "SUCCESS" /\ call[t].request # NoCreate
        /\ \E operation \in OperationIds :
             BindCreateOperation(call[t].lun, operation)
  /\ UNCHANGED <<TotalAllocatedBytes, NextDeviceId, AdapterStopping,
                 pool, memory, io>>

Reinitialize ==
  /\ Exclusive
  /\ \A l \in Luns : luns[l].State = "Empty"
  /\ InitializeStore

LockedCallStep(t) ==
  \/ SelectAvailableLun(t) \/ CommitNewLun(t) \/ CommitFails(t)
  \/ MarkLunStopping(t) \/ MarkUnknownDisk(t)
  \/ MarkAllLunsStopping(t) \/ FirstStoppingLun(t) \/ DetachBackingStore(t)

UnlockedCallStep(t) ==
  \/ AllocateBacking(t) \/ AllocateFails(t) \/ WaitForLunIo(t) \/ FreeBacking(t)

IoStep(i) ==
  \/ \E l \in Luns : AcquireLunIo(i, l)
  \/ WriteBacking(i)
  \/ ReleaseLunIo(i)

StoreNext ==
  \/ \E stopping \in BOOLEAN : SetStopping(stopping)
  \/ Reinitialize
  \/ StartCall
  \/ \E t \in Threads : \/ LockedCallStep(t)
                        \/ UnlockedCallStep(t)
                        \/ FinalizeRemoval(t)
                        \/ EndCall(t)
  \/ \E i \in IoThreads : IoStep(i)

StoreSpec == StoreInit /\ [][StoreNext]_storeVars

-----------------------------------------------------------------------------
(***************************************************************************)
(* Properties.                                                             *)
(***************************************************************************)
Holders(l) == {i \in IoThreads : io[i].held /\ io[i].lun = l}

\* The view an I/O thread copied out of AcquireLunIo stays true while its
\* lease lives: the LUN is not recycled under it, and the block it reads and
\* writes without the lock is still allocated, to that disk, at the length
\* HandleReadWrite checks against.
LeaseSafety ==
  \A i \in IoThreads : io[i].held =>
    LET lun == luns[io[i].lun]
        view == io[i].view
    IN  /\ lun.State # "Empty"
        /\ view = [backingStore |-> lun.BackingStore,
                   sizeBytes |-> lun.SizeBytes,
                   mediaKind |-> lun.MediaKind, deviceId |-> lun.DeviceId]
        /\ view.backingStore \in Blocks
        /\ view.sizeBytes # 0 /\ pool[view.backingStore] = view.sizeBytes

\* ActiveRequests counts the leases that are out, and the event the drain
\* waits for is signalled exactly when there is none: across CommitNewLun,
\* which resets both, and FinalizeRemovalLocked, which resets neither.
LeaseCount ==
  \A l \in Luns :
    /\ luns[l].ActiveRequests = Cardinality(Holders(l))
    /\ luns[l].NoActiveRequests <=> Holders(l) = {}

\* Backing memory is owned once: every live block belongs to one LUN or to
\* one call in progress, every owner's block is live, so nothing leaks on the
\* failure paths and nothing is freed twice or shared by two disks.
PoolOwnership ==
  /\ \A b \in Blocks : pool[b] # 0 =>
       \/ \E l \in Luns : luns[l].BackingStore = b
       \/ \E t \in Threads : call[t].backing = b
  /\ \A l \in Luns : luns[l].BackingStore # NoBlock =>
       /\ luns[l].SizeBytes # 0
       /\ pool[luns[l].BackingStore] = luns[l].SizeBytes
       /\ \A k \in Luns \ {l} : luns[k].BackingStore # luns[l].BackingStore
       /\ \A t \in Threads : call[t].backing # luns[l].BackingStore
  /\ \A t \in Threads : call[t].backing # NoBlock =>
       /\ pool[call[t].backing] # 0
       /\ \A u \in Threads \ {t} : call[u].backing # call[t].backing

\* A disk never shows another disk's data: its block holds zeros or what was
\* written through a lease on that same device, although the pool hands the
\* block of a deleted disk to the next create.
DataIsolation ==
  \A l \in Luns : luns[l].BackingStore # NoBlock =>
    memory[luns[l].BackingStore] \in {0, luns[l].DeviceId}

\* A device ID names at most one LUN, is never the 0 that ValidateDeleteRequest
\* refuses, and is never issued again: every ID in use is below NextDeviceId,
\* which stays at 0 once the counter has wrapped.
DeviceIdsUnique ==
  \A l \in Luns : luns[l].State # "Empty" =>
    /\ luns[l].DeviceId # 0
    /\ NextDeviceId # 0 => luns[l].DeviceId < NextDeviceId
    /\ \A k \in Luns \ {l} :
         luns[k].State # "Empty" => luns[k].DeviceId # luns[l].DeviceId

\* TotalAllocatedBytes is the sum over the LUNs that still count, so the
\* saturating subtraction of FinalizeRemovalLocked never saturates, and the
\* blocks alive in the pool, the one of a create in progress included, stay
\* under the cap although CommitNewLun does not check the quota again.
QuotaRespected ==
  /\ TotalAllocatedBytes = SumFunction([l \in Luns |-> luns[l].SizeBytes])
  /\ SumFunction(pool) <= MaximumTotalBytes

=============================================================================
