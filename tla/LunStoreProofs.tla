---------------------------- MODULE LunStoreProofs ----------------------------
(***************************************************************************)
(* Proofs about LunStore, for every number of disks, blocks and I/O        *)
(* threads.                                                                *)
(***************************************************************************)
EXTENDS LunStore, FiniteSetTheorems, WellFoundedInduction, TLAPS

-----------------------------------------------------------------------------
(***************************************************************************)
(* Helpers.                                                                *)
(***************************************************************************)

\* The scans of the table end at a member: First picks one of the numbers
\* it is given, the least.
LEMMA FirstIsLeast ==
  ASSUME NEW S \in SUBSET Nat, S # {}
  PROVE  First(S) \in S /\ \A k \in S : First(S) <= k
<1> DEFINE R == OpToRel(<, Nat)
<1>1. IsWellFoundedOn(R, Nat)
  BY NatLessThanWellFounded
<1>2. PICK m \in S : \A y \in S : ~(<<y, m>> \in R)
  <2> HIDE DEF R
  <2> QED  BY <1>1, WFMin
<1>3. R = {pair \in Nat \X Nat : pair[1] < pair[2]}
  BY DEF OpToRel
<1>4. ASSUME NEW y \in S
      PROVE  m <= y
  <2>1. ~(y < m)
    <3>1. <<y, m>> \in Nat \X Nat /\ <<y, m>>[1] = y /\ <<y, m>>[2] = m
      OBVIOUS
    <3> HIDE DEF R
    <3> QED  BY <1>2, <1>3, <3>1, Zenon
  <2> QED  BY <2>1
<1> QED
  BY <1>4 DEF First

\* The counters stay in their width: the next number, or 0 at the end.
LEMMA FollowingIdRange ==
  ASSUME NEW modulus \in Nat, modulus > 1, NEW id \in 0..(modulus - 1)
  PROVE  FollowingId(id, modulus) = IF id + 1 = modulus THEN 0 ELSE id + 1
<1> QED
  BY DEF FollowingId

-----------------------------------------------------------------------------
(***************************************************************************)
(* The inductive invariant.  The safety properties do not carry themselves *)
(* from one step to the next: they need what a thread inside CreateDisk or *)
(* DrainAndFreeBacking knows at each of its steps.                         *)
(***************************************************************************)

\* Mutating calls do not overlap, which makes what a call knows stable.
SingleCall ==
  \A t, u \in Threads : call[t].pc # "idle" /\ call[u].pc # "idle" => t = u

\* What call t knows at each pc, about its locals and about its LUN.
CallKnows(t) ==
  /\ call[t].pc \in {"select", "allocate", "commit"} => call[t].request \in CreateRequest
  /\ call[t].pc \in {"allocate", "commit"} => luns[call[t].lun].State = "Empty"
  /\ call[t].pc = "commit" =>
       /\ call[t].backing \in Blocks /\ memory[call[t].backing] = 0
       /\ pool[call[t].backing] = call[t].request.SizeBytes
  /\ call[t].pc \in {"wait", "detach", "free", "finalize"} =>
       /\ luns[call[t].lun].State = "Stopping"
       /\ luns[call[t].lun].DeviceId = call[t].deviceId
  /\ call[t].pc \in {"detach", "free", "finalize"} => Holders(call[t].lun) = {}
  /\ call[t].pc \in {"free", "finalize"} => luns[call[t].lun].BackingStore = NoBlock
  /\ call[t].backing # NoBlock => call[t].pc \in {"commit", "free"}

CallsKnow == \A t \in Threads : CallKnows(t)

\* A LUN without a disk owns no memory.
EmptyOwnsNothing ==
  \A l \in Luns : luns[l].State = "Empty" => luns[l].BackingStore = NoBlock

StoreInv ==
  /\ StoreTypeOK
  /\ SingleCall
  /\ CallsKnow
  /\ EmptyOwnsNothing
  /\ LeaseSafety
  /\ LeaseCount
  /\ PoolOwnership
  /\ DataIsolation
  /\ DeviceIdsUnique

-----------------------------------------------------------------------------
(***************************************************************************)
(* Type correctness.                                                       *)
(***************************************************************************)

\* The constants of the initial state have their types.
LEMMA InitialTypes ==
  /\ 0 \in Luns /\ Luns \subseteq Nat
  /\ 0 \in DeviceIds /\ 1 \in DeviceIds /\ 0 \in OperationIds
  /\ Sizes \subseteq Nat /\ MediaKinds \subseteq Nat
  /\ ZeroedLun \in Lun /\ NoCall \in Call /\ NoLease \in Lease
<1>1. /\ 0 \in Luns /\ Luns \subseteq Nat
      /\ 0 \in DeviceIds /\ 1 \in DeviceIds /\ 0 \in OperationIds
      /\ Sizes \subseteq Nat /\ MediaKinds \subseteq Nat
  BY DiskCountAssumption, ModulusAssumption, SizesAssumption, MediaKindsAssumption
     DEF Luns, DeviceIds, OperationIds
<1>2. ZeroedLun \in Lun
  BY <1>1 DEF ZeroedLun, Lun, LunState, BlocksOrNull
<1>3. NoCall \in Call
  BY <1>1 DEF NoCall, Call, CallPc, CreateOrNone, BlocksOrNull, Status
<1>4. NoLease \in Lease
  BY <1>1 DEF NoLease, Lease, NoView, LunView, BlocksOrNull
<1> QED
  BY <1>1, <1>2, <1>3, <1>4

\* Advance replaces the locals of one thread and of no other.
LEMMA AdvanceCall ==
  ASSUME StoreTypeOK, NEW t \in Threads, NEW locals \in Call, Advance(t, locals)
  PROVE  /\ call' \in [Threads -> Call]
         /\ call'[t] = locals
         /\ \A u \in Threads \ {t} : call'[u] = call[u]
  BY DEF StoreTypeOK, Advance

\* The same, of any locals.
LEMMA LocalsAdvance ==
  ASSUME StoreTypeOK, NEW t \in Threads, NEW locals, Advance(t, locals)
  PROVE  call'[t] = locals /\ \A u \in Threads \ {t} : call'[u] = call[u]
  BY DEF StoreTypeOK, Advance

\* Return keeps the request, and gives up the block.
LEMMA ReturnFields ==
  ASSUME StoreTypeOK, NEW t \in Threads, NEW status, Return(t, status)
  PROVE  /\ call'[t].pc = "returned" /\ call'[t].status = status
         /\ call'[t].request = call[t].request
         /\ \A u \in Threads \ {t} : call'[u] = call[u]
<1> DEFINE locals == [call[t] EXCEPT !.pc = "returned", !.status = status, !.backing = NoBlock]
<1>1. Advance(t, locals)
  BY DEF Return
<1>2. call[t] \in Call
  BY DEF StoreTypeOK
<1>3. locals.pc = "returned" /\ locals.status = status /\ locals.request = call[t].request
  BY <1>2 DEF Call
<1> HIDE DEF locals
<1> QED
  BY <1>1, <1>3, LocalsAdvance

\* The zeroed extension that Initialize leaves is well typed.
LEMMA TypeCorrectInit == StoreInit => StoreTypeOK
  BY InitialTypes DEF StoreInit, StoreTypeOK

\* A leased or released LUN record is still one.
LEMMA LeaseRecords ==
  ASSUME NEW lun \in Lun
  PROVE  WithLease(lun) \in Lun /\ WithoutLease(lun) \in Lun
<1>1. \A n \in Nat, signalled \in BOOLEAN :
        [lun EXCEPT !.ActiveRequests = n, !.NoActiveRequests = signalled] \in Lun
  BY DEF Lun
<1>2. lun.ActiveRequests \in Nat /\ lun.NoActiveRequests \in BOOLEAN
  BY DEF Lun
<1>3. WithLease(lun) \in Lun
  <2> DEFINE n == lun.ActiveRequests + 1
             signalled == IF lun.ActiveRequests = 0 THEN FALSE ELSE lun.NoActiveRequests
  <2>1. n \in Nat
    BY <1>2
  <2>2. signalled \in BOOLEAN
    BY <1>2
  <2>3. WithLease(lun) = [lun EXCEPT !.ActiveRequests = n, !.NoActiveRequests = signalled]
    BY DEF WithLease
  <2> HIDE DEF n, signalled
  <2> QED
    BY <1>1, <2>1, <2>2, <2>3
<1>4. WithoutLease(lun) \in Lun
  <2> DEFINE n == IF lun.ActiveRequests # 0 THEN lun.ActiveRequests - 1
                  ELSE lun.ActiveRequests
             signalled == IF lun.ActiveRequests = 1 THEN TRUE ELSE lun.NoActiveRequests
  <2>1. n \in Nat
    BY <1>2
  <2>2. signalled \in BOOLEAN
    BY <1>2
  <2>3. WithoutLease(lun) = [lun EXCEPT !.ActiveRequests = n, !.NoActiveRequests = signalled]
    BY DEF WithoutLease
  <2> HIDE DEF n, signalled
  <2> QED
    BY <1>1, <2>1, <2>2, <2>3
<1> QED
  BY <1>3, <1>4

\* No step of a call, of I/O or of the adapter leaves the types.
LEMMA TypeCorrectStep ==
  ASSUME StoreTypeOK, StoreNext
  PROVE  StoreTypeOK'
<1> USE InitialTypes DEF StoreTypeOK
<1>1. CASE \E stopping \in BOOLEAN : SetStopping(stopping)
  BY <1>1 DEF SetStopping
<1>2. CASE Reinitialize
  BY <1>2 DEF Reinitialize, InitializeStore
<1>3. CASE StartCall
  <2>1. ASSUME NEW request \in CreateRequest, BeginCreate("worker", request)
        PROVE  call' \in [Threads -> Call]
    BY <2>1 DEF BeginCreate, Enter, Advance, NoCall, Call, CallPc, CreateOrNone
  <2>2. ASSUME NEW deviceId \in DeviceIds, BeginDelete("worker", deviceId)
        PROVE  call' \in [Threads -> Call]
    BY <2>2 DEF BeginDelete, Enter, Advance, NoCall, Call, CallPc
  <2>3. ASSUME BeginDrain("teardown")
        PROVE  call' \in [Threads -> Call]
    BY <2>3 DEF BeginDrain, Enter, Advance, NoCall, Call, CallPc
  <2> QED
    BY <1>3, <2>1, <2>2, <2>3 DEF StartCall
<1>4. ASSUME NEW t \in Threads, NEW status \in Status, Return(t, status)
      PROVE  call' \in [Threads -> Call]
  <2>1. [call[t] EXCEPT !.pc = "returned", !.status = status, !.backing = NoBlock] \in Call
    BY DEF Call, CallPc, BlocksOrNull
  <2> QED
    BY <1>4, <2>1, AdvanceCall DEF Return
<1>5. ASSUME NEW t \in Threads, LockedCallStep(t)
      PROVE  StoreTypeOK'
  <2>0. call[t] \in Call /\ luns \in [Luns -> Lun]
    OBVIOUS
  <2>1. CASE SelectAvailableLun(t)
    <3>1. SelectStatus(call[t].request.SizeBytes) \in Status
      BY DEF SelectStatus, Status
    <3>2. CASE SelectStatus(call[t].request.SizeBytes) = "SUCCESS"
      <4>1. First(LunsIn("Empty")) \in Luns
        BY <3>2, FirstIsLeast DEF LunsIn, SelectStatus
      <4>2. [call[t] EXCEPT !.pc = "allocate", !.lun = First(LunsIn("Empty"))] \in Call
        BY <4>1 DEF Call, CallPc
      <4> QED
        BY <2>1, <3>2, <4>2, AdvanceCall DEF SelectAvailableLun
    <3>3. CASE SelectStatus(call[t].request.SizeBytes) # "SUCCESS"
      BY <1>4, <2>1, <3>1, <3>3 DEF SelectAvailableLun
    <3> QED
      BY <3>2, <3>3
  <2>2. CASE CommitNewLun(t)
    <3>1. NextDeviceId' \in DeviceIds
      BY <2>2, FollowingIdRange, ModulusAssumption DEF CommitNewLun, DeviceIds
    <3>2. CommittedLun(t) \in Lun
      BY <2>0 DEF CommittedLun, Call, Lun, LunState, CreateOrNone, CreateRequest, NoCreate
    <3>3. luns' \in [Luns -> Lun]
      BY <2>2, <3>2 DEF CommitNewLun
    <3>4. [call[t] EXCEPT !.pc = "returned", !.status = "SUCCESS",
                          !.backing = NoBlock, !.deviceId = NextDeviceId] \in Call
      BY DEF Call, CallPc, BlocksOrNull, Status
    <3>5. call' \in [Threads -> Call]
      BY <2>2, <3>4, AdvanceCall DEF CommitNewLun
    <3>6. TotalAllocatedBytes' \in Nat
      BY <2>0, <2>2 DEF CommitNewLun, Call, CreateOrNone, CreateRequest, NoCreate
    <3> QED
      BY <2>2, <3>1, <3>3, <3>5, <3>6 DEF CommitNewLun
  <2>3. CASE CommitFails(t)
    <3>1. CommitStatus(call[t].lun) \in Status
      BY DEF CommitStatus, Status
    <3> QED
      BY <1>4, <2>3, <3>1 DEF CommitFails, PoolWithout
  <2>4. CASE MarkLunStopping(t)
    <3> DEFINE l == First(OnlineWithId(call[t].deviceId))
    <3>1. l \in Luns
      BY <2>4, FirstIsLeast DEF OnlineWithId, MarkLunStopping
    <3>2. [call[t] EXCEPT !.pc = "wait", !.lun = l] \in Call
      BY <3>1 DEF Call, CallPc
    <3>3. call' \in [Threads -> Call]
      BY <2>4, <3>2, AdvanceCall DEF MarkLunStopping
    <3>4. luns' \in [Luns -> Lun]
      BY <2>4, <3>1 DEF MarkLunStopping, Lun, LunState
    <3> QED
      BY <2>4, <3>3, <3>4 DEF MarkLunStopping
  <2>5. CASE MarkUnknownDisk(t)
    BY <1>4, <2>5 DEF MarkUnknownDisk, Status
  <2>6. CASE MarkAllLunsStopping(t)
    <3>1. [call[t] EXCEPT !.pc = "first"] \in Call
      BY <2>0 DEF Call, CallPc
    <3>2. call' \in [Threads -> Call]
      BY <2>6, <3>1, AdvanceCall DEF MarkAllLunsStopping
    <3>3. \A l \in Luns :
            [luns[l] EXCEPT !.State = IF @ = "Online" THEN "Stopping" ELSE @] \in Lun
      BY <2>0 DEF Lun, LunState
    <3>4. luns' \in [Luns -> Lun]
      BY <2>6, <3>3 DEF MarkAllLunsStopping
    <3> QED
      BY <2>6, <3>2, <3>4 DEF MarkAllLunsStopping
  <2>7. CASE FirstStoppingLun(t)
    <3> DEFINE l == First(LunsIn("Stopping"))
    <3>1. CASE LunsIn("Stopping") # {}
      <4>1. l \in Luns
        BY <3>1, FirstIsLeast DEF LunsIn
      <4>2. luns[l].DeviceId \in DeviceIds
        BY <4>1 DEF Lun
      <4> HIDE DEF l
      <4>3. [call[t] EXCEPT !.pc = "wait", !.lun = l, !.deviceId = luns[l].DeviceId]
              \in Call
        BY <4>1, <4>2 DEF Call, CallPc
      <4> QED
        BY <2>7, <3>1, <4>3, AdvanceCall DEF FirstStoppingLun, l
    <3>2. CASE LunsIn("Stopping") = {}
      BY <1>4, <2>7, <3>2 DEF FirstStoppingLun, Status
    <3> QED
      BY <3>1, <3>2
  <2>8. CASE DetachBackingStore(t)
    <3> DEFINE detached(b) == [call[t] EXCEPT !.pc = "free", !.backing = b]
    <3>1. call[t].lun \in Luns
      BY DEF Call
    <3>2. luns[call[t].lun].BackingStore \in BlocksOrNull
      BY <3>1 DEF Lun
    <3>3. \A b \in BlocksOrNull : detached(b) \in Call
      BY DEF Call, CallPc
    <3>4. \E b \in BlocksOrNull : Advance(t, detached(b))
      BY <2>8, <3>2 DEF DetachBackingStore, BlocksOrNull
    <3>5. call' \in [Threads -> Call]
      <4> HIDE DEF detached
      <4> QED  BY <3>3, <3>4, AdvanceCall
    <3>6. luns' \in [Luns -> Lun]
      BY <2>8, <3>1 DEF DetachBackingStore, Lun, BlocksOrNull
    <3> QED
      BY <2>8, <3>5, <3>6 DEF DetachBackingStore
  <2> QED
    BY <1>5, <2>1, <2>2, <2>3, <2>4, <2>5, <2>6, <2>7, <2>8 DEF LockedCallStep
<1>6. ASSUME NEW t \in Threads, UnlockedCallStep(t)
      PROVE  StoreTypeOK'
  <2>1. CASE AllocateBacking(t)
    <3>1. PICK b \in Blocks :
            /\ pool' = [pool EXCEPT ![b] = call[t].request.SizeBytes]
            /\ memory' = MemoryCleared(b)
            /\ Advance(t, [call[t] EXCEPT !.pc = "commit", !.backing = b])
      BY <2>1 DEF AllocateBacking
    <3>2. [call[t] EXCEPT !.pc = "commit", !.backing = b] \in Call
      BY DEF Call, CallPc, BlocksOrNull
    <3>3. call[t].request.SizeBytes \in Sizes \cup {0}
      BY DEF Call, CreateOrNone, CreateRequest, NoCreate
    <3> QED
      BY <2>1, <3>1, <3>2, <3>3, AdvanceCall DEF AllocateBacking, MemoryCleared
  <2>2. CASE AllocateFails(t)
    BY <1>4, <2>2 DEF AllocateFails, Status
  <2>3. CASE WaitForLunIo(t)
    BY <2>3 DEF WaitForLunIo, Advance, Call, CallPc
  <2>4. CASE FreeBacking(t)
    BY <2>4 DEF FreeBacking, PoolWithout, Advance, Call, CallPc, BlocksOrNull
  <2> QED
    BY <1>6, <2>1, <2>2, <2>3, <2>4 DEF UnlockedCallStep
<1>7. ASSUME NEW t \in Threads, FinalizeRemoval(t)
      PROVE  StoreTypeOK'
  <2>1. luns' \in [Luns -> Lun]
    <3>1. call[t].lun \in Luns /\ luns[call[t].lun] \in Lun
      BY DEF Call
    <3>2. FinalizedLun(call[t].lun) \in Lun
      BY <3>1 DEF FinalizedLun, Lun, LunState, BlocksOrNull
    <3> QED
      BY <1>7, <3>2 DEF FinalizeRemoval
  <2>2. \A pc \in CallPc : [call[t] EXCEPT !.pc = pc, !.status = "SUCCESS"] \in Call
    BY DEF Call, Status
  <2>3. call' \in [Threads -> Call]
    BY <1>7, <2>2, AdvanceCall DEF FinalizeRemoval, CallPc
  <2>4. TotalAllocatedBytes' \in Nat
    BY <1>7 DEF FinalizeRemoval, Lun, Call
  <2> QED
    BY <1>7, <2>1, <2>3, <2>4 DEF FinalizeRemoval
<1>8. ASSUME NEW t \in Threads, EndCall(t)
      PROVE  StoreTypeOK'
  <2>1. call' \in [Threads -> Call]
    BY <1>8, AdvanceCall DEF EndCall, Collect
  <2>2. luns' \in [Luns -> Lun]
    <3>1. \A l \in Luns, operation \in OperationIds :
            [luns[l] EXCEPT !.CreateOperationId = operation] \in Lun
      BY DEF Lun
    <3>2. call[t].lun \in Luns
      BY DEF Call
    <3> QED
      BY <1>8, <3>1, <3>2 DEF EndCall, BindCreateOperation
  <2> QED
    BY <1>8, <2>1, <2>2 DEF EndCall
<1>9. ASSUME NEW i \in IoThreads, IoStep(i)
      PROVE  StoreTypeOK'
  <2>1. ASSUME NEW l \in Luns, AcquireLunIo(i, l)
        PROVE  StoreTypeOK'
    <3>1. luns' \in [Luns -> Lun]
      BY <2>1, LeaseRecords DEF AcquireLunIo
    <3>2. io' \in [IoThreads -> Lease]
      BY <2>1 DEF AcquireLunIo, Lun, Lease, LunView
    <3> QED
      BY <2>1, <3>1, <3>2 DEF AcquireLunIo
  <2>2. CASE WriteBacking(i)
    BY <2>2 DEF WriteBacking, Lease, LunView
  <2>3. CASE ReleaseLunIo(i)
    BY <2>3, LeaseRecords DEF ReleaseLunIo, Lease
  <2> QED
    BY <1>9, <2>1, <2>2, <2>3 DEF IoStep
<1> QED
  BY <1>1, <1>2, <1>3, <1>5, <1>6, <1>7, <1>8, <1>9 DEF StoreNext

\* Every reachable state of the LUN store is well typed, whatever the number of
\* disks and of threads: the counters stay in their width, every slot holds a
\* LUN record and the locals of a call are of their kinds at every step.
THEOREM StoreTypeCorrect == StoreSpec => []StoreTypeOK
<1>1. StoreTypeOK /\ UNCHANGED storeVars => StoreTypeOK'
  BY DEF StoreTypeOK, storeVars
<1> QED
  BY TypeCorrectInit, TypeCorrectStep, <1>1, PTL DEF StoreSpec

-----------------------------------------------------------------------------
(***************************************************************************)
(* The steps, taken in groups by what they disturb.                        *)
(***************************************************************************)

\* Thread t, inside a call, goes on: the other threads are idle and own
\* nothing, so only what t knows has to be shown again.
LEMMA OneMoves ==
  ASSUME StoreInv, NEW t \in Threads, call[t].pc # "idle",
         NEW locals, Advance(t, locals)
  PROVE  /\ call'[t] = locals
         /\ \A u \in Threads \ {t} :
              call'[u] = call[u] /\ call[u].pc = "idle" /\ call[u].backing = NoBlock
         /\ SingleCall'
         /\ CallKnows(t)' => CallsKnow'
<1>1. /\ call'[t] = locals
      /\ \A u \in Threads \ {t} : call'[u] = call[u]
  BY DEF StoreInv, StoreTypeOK, Advance
<1>2. \A u \in Threads \ {t} : call[u].pc = "idle" /\ call[u].backing = NoBlock
  BY DEF StoreInv, SingleCall, CallsKnow, CallKnows
<1>3. SingleCall'
  BY <1>1, <1>2 DEF SingleCall
<1>4. \A u \in Threads \ {t} : CallKnows(u)'
  BY <1>1, <1>2 DEF CallKnows
<1> QED
  BY <1>1, <1>2, <1>3, <1>4 DEF CallsKnow

\* A step that leaves the disk of LUN l, and whether there is one, alone.
SameDisk(l) ==
  /\ luns'[l].State = "Empty" <=> luns[l].State = "Empty"
  /\ luns'[l].BackingStore = luns[l].BackingStore
  /\ luns'[l].SizeBytes = luns[l].SizeBytes
  /\ luns'[l].MediaKind = luns[l].MediaKind
  /\ luns'[l].DeviceId = luns[l].DeviceId

\* Such a step, if it allocates, frees and writes nothing, keeps what the
\* invariant says of disks and memory.
LEMMA SameDisksKept ==
  ASSUME StoreInv, \A l \in Luns : SameDisk(l),
         UNCHANGED <<pool, memory, NextDeviceId>>,
         \A t \in Threads : call'[t].backing = call[t].backing
  PROVE  /\ EmptyOwnsNothing'
         /\ PoolOwnership'
         /\ DataIsolation'
         /\ DeviceIdsUnique'
         /\ UNCHANGED io => LeaseSafety'
<1>1. EmptyOwnsNothing'
  BY DEF StoreInv, EmptyOwnsNothing, SameDisk
<1>2. PoolOwnership'
  BY DEF StoreInv, PoolOwnership, SameDisk
<1>3. DataIsolation'
  BY DEF StoreInv, DataIsolation, SameDisk
<1>4. DeviceIdsUnique'
  BY DEF StoreInv, DeviceIdsUnique, SameDisk
<1>5. ASSUME UNCHANGED io
      PROVE  LeaseSafety'
  <2>1. \A i \in IoThreads : io[i].lun \in Luns
    BY DEF StoreInv, StoreTypeOK, Lease
  <2> QED
    BY <1>5, <2>1 DEF StoreInv, LeaseSafety, SameDisk
<1> QED
  BY <1>1, <1>2, <1>3, <1>4, <1>5

\* LeaseSafety field by field.
LEMMA LeaseView ==
  ASSUME StoreTypeOK, LeaseSafety, NEW i \in IoThreads, io[i].held
  PROVE  /\ io[i].lun \in Luns
         /\ luns[io[i].lun].State # "Empty"
         /\ io[i].view.backingStore = luns[io[i].lun].BackingStore
         /\ io[i].view.sizeBytes = luns[io[i].lun].SizeBytes
         /\ io[i].view.mediaKind = luns[io[i].lun].MediaKind
         /\ io[i].view.deviceId = luns[io[i].lun].DeviceId
         /\ io[i].view.backingStore \in Blocks
<1>1. io[i].lun \in Luns
  BY DEF StoreTypeOK, Lease
<1>2. io[i].view = [backingStore |-> luns[io[i].lun].BackingStore,
                    sizeBytes |-> luns[io[i].lun].SizeBytes,
                    mediaKind |-> luns[io[i].lun].MediaKind,
                    deviceId |-> luns[io[i].lun].DeviceId]
  BY DEF LeaseSafety
<1>3. luns[io[i].lun].State # "Empty" /\ io[i].view.backingStore \in Blocks
  BY DEF LeaseSafety
<1> QED
  BY <1>1, <1>2, <1>3

\* A step that takes and returns no lease, and leaves the counters alone.
LEMMA LeaseCountKept ==
  ASSUME LeaseCount, UNCHANGED io,
         \A l \in Luns : /\ luns'[l].ActiveRequests = luns[l].ActiveRequests
                         /\ luns'[l].NoActiveRequests = luns[l].NoActiveRequests
  PROVE  LeaseCount'
<1>1. \A l \in Luns : Holders(l)' = Holders(l)
  BY DEF Holders
<1> QED
  BY <1>1 DEF LeaseCount

\* A step that changes no LUN, no memory and no lease: only t's locals, and
\* those own nothing before or after.
LEMMA OnlyLocalsMove ==
  ASSUME StoreInv, NEW t \in Threads, call[t].pc # "idle",
         NEW locals, Advance(t, locals),
         call[t].pc \notin {"commit", "free"}, locals.backing = call[t].backing,
         UNCHANGED <<luns, NextDeviceId, pool, memory, io>>,
         StoreTypeOK', CallKnows(t)'
  PROVE  StoreInv'
<1>1. /\ SingleCall' /\ CallsKnow'
      /\ \A u \in Threads : call'[u].backing = call[u].backing
  BY OneMoves
<1>2. \A l \in Luns : SameDisk(l)
  BY DEF SameDisk
<1>3. LeaseCount'
  BY DEF StoreInv, LeaseCount, Holders
<1> QED
  BY <1>1, <1>2, <1>3, SameDisksKept DEF StoreInv

\* An adapter with no disk, no lease and no call satisfies the invariant.
LEMMA StoreInvInit == StoreInit => StoreInv
<1> SUFFICES ASSUME StoreInit PROVE StoreInv
  OBVIOUS
<1>1. StoreTypeOK
  BY TypeCorrectInit
<1>2. \A l \in Luns : Holders(l) = {} /\ luns[l] = ZeroedLun
  BY DEF StoreInit, Holders, NoLease
<1>3. \A t \in Threads : call[t] = NoCall
  BY DEF StoreInit
<1>4. SingleCall /\ CallsKnow /\ EmptyOwnsNothing /\ DataIsolation /\ DeviceIdsUnique
  BY <1>2, <1>3 DEF SingleCall, CallsKnow, CallKnows, EmptyOwnsNothing, DataIsolation,
                    DeviceIdsUnique, ZeroedLun, NoCall
<1>5. PoolOwnership
  BY <1>2, <1>3 DEF StoreInit, PoolOwnership, ZeroedLun, NoCall
<1>6. LeaseSafety
  BY DEF StoreInit, LeaseSafety, NoLease
<1>7. LeaseCount
  BY <1>2, FS_EmptySet DEF LeaseCount, ZeroedLun
<1> QED
  BY <1>1, <1>4, <1>5, <1>6, <1>7 DEF StoreInv

\* Stop, restart, initialising again, and entering a call.
LEMMA StepsOutsideCalls ==
  ASSUME StoreInv, StoreTypeOK',
         (\E stopping \in BOOLEAN : SetStopping(stopping)) \/ Reinitialize \/ StartCall
  PROVE  StoreInv'
<1>1. CASE \E stopping \in BOOLEAN : SetStopping(stopping)
  <2>1. UNCHANGED <<luns, TotalAllocatedBytes, NextDeviceId, pool, memory, io, call>>
    BY <1>1 DEF SetStopping
  <2>2. SingleCall' /\ CallsKnow' /\ EmptyOwnsNothing' /\ LeaseSafety'
    BY <2>1 DEF StoreInv, SingleCall, CallsKnow, CallKnows, EmptyOwnsNothing, LeaseSafety,
                Holders
  <2>3. LeaseCount'
    BY <2>1 DEF StoreInv, LeaseCount, Holders
  <2>5. DataIsolation' /\ DeviceIdsUnique'
    BY <2>1 DEF StoreInv, DataIsolation, DeviceIdsUnique
  <2>4. PoolOwnership'
    BY <2>1 DEF StoreInv, PoolOwnership
  <2> QED
    BY <2>2, <2>3, <2>4, <2>5 DEF StoreInv
<1>2. CASE Reinitialize
  <2>1. \A t \in Threads : call'[t] = call[t] /\ call[t].pc = "idle" /\ call[t].backing = NoBlock
    BY <1>2 DEF Reinitialize, InitializeStore, Exclusive, StoreInv, CallsKnow, CallKnows
  <2>2. \A l \in Luns : luns'[l] = ZeroedLun /\ luns[l].BackingStore = NoBlock
    BY <1>2 DEF Reinitialize, InitializeStore, StoreInv, EmptyOwnsNothing
  <2>3. \A i \in IoThreads : ~io[i].held
    BY <1>2 DEF Reinitialize, StoreInv, LeaseSafety, StoreTypeOK, Lease
  <2>4. \A b \in Blocks : pool[b] = 0
    BY <2>1, <2>2, BlocksAssumption DEF StoreInv, PoolOwnership
  <2>5. /\ SingleCall' /\ CallsKnow' /\ EmptyOwnsNothing' /\ DataIsolation'
        /\ DeviceIdsUnique'
    BY <2>1, <2>2 DEF SingleCall, CallsKnow, CallKnows, EmptyOwnsNothing, DataIsolation,
                      DeviceIdsUnique, ZeroedLun
  <2>6. PoolOwnership'
    BY <1>2, <2>1, <2>2, <2>4 DEF Reinitialize, InitializeStore, PoolOwnership, ZeroedLun
  <2>7. LeaseSafety'
    BY <1>2, <2>3 DEF Reinitialize, InitializeStore, LeaseSafety
  <2>8. LeaseCount'
    <3>1. \A l \in Luns : Holders(l)' = {}
      BY <1>2, <2>3 DEF Reinitialize, InitializeStore, Holders
    <3> QED
      BY <2>2, <3>1, FS_EmptySet DEF LeaseCount, ZeroedLun
  <2> QED
    BY <2>5, <2>6, <2>7, <2>8 DEF StoreInv
<1>3. CASE StartCall
  <2> DEFINE Begins(t, locals) ==
               /\ Advance(t, locals)
               /\ locals.pc \in {"select", "mark", "markAll"}
               /\ locals.pc = "select" => locals.request \in CreateRequest
               /\ locals.backing = NoBlock
  <2>1. PICK t \in Threads, locals \in Call : Begins(t, locals)
    <3>1. ASSUME NEW request \in CreateRequest, BeginCreate("worker", request)
          PROVE  \E t \in Threads, locals \in Call : Begins(t, locals)
      <4> DEFINE locals == [NoCall EXCEPT !.pc = "select", !.request = request]
      <4>1. locals \in Call /\ locals.pc = "select" /\ locals.request = request
            /\ locals.backing = NoBlock
        BY InitialTypes DEF NoCall, Call, CallPc, CreateOrNone
      <4>2. Advance("worker", locals) /\ "worker" \in Threads
        BY <3>1 DEF BeginCreate, Enter, Threads
      <4> HIDE DEF locals
      <4> QED
        BY <4>1, <4>2
    <3>2. ASSUME NEW deviceId \in DeviceIds, BeginDelete("worker", deviceId)
          PROVE  \E t \in Threads, locals \in Call : Begins(t, locals)
      <4> DEFINE locals == [NoCall EXCEPT !.pc = "mark", !.deviceId = deviceId]
      <4>1. locals \in Call /\ locals.pc = "mark" /\ locals.backing = NoBlock
        BY InitialTypes DEF NoCall, Call, CallPc
      <4>2. Advance("worker", locals) /\ "worker" \in Threads
        BY <3>2 DEF BeginDelete, Enter, Threads
      <4> HIDE DEF locals
      <4> QED
        BY <4>1, <4>2
    <3>3. ASSUME BeginDrain("teardown")
          PROVE  \E t \in Threads, locals \in Call : Begins(t, locals)
      <4> DEFINE locals == [NoCall EXCEPT !.pc = "markAll"]
      <4>1. locals \in Call /\ locals.pc = "markAll" /\ locals.backing = NoBlock
        BY InitialTypes DEF NoCall, Call, CallPc
      <4>2. Advance("teardown", locals) /\ "teardown" \in Threads
        BY <3>3 DEF BeginDrain, Enter, Threads
      <4> HIDE DEF locals
      <4> QED
        BY <4>1, <4>2
    <3> QED
      BY <1>3, <3>1, <3>2, <3>3 DEF StartCall
  <2>2. /\ UNCHANGED <<luns, NextDeviceId, pool, memory, io>>
        /\ \A u \in Threads : call[u].pc = "idle" /\ call[u].backing = NoBlock
    BY <1>3 DEF StartCall, Exclusive, StoreInv, CallsKnow, CallKnows
  <2>3. call'[t] = locals /\ \A u \in Threads \ {t} : call'[u] = call[u]
    BY <2>1, AdvanceCall DEF StoreInv
  <2>4. SingleCall' /\ CallsKnow'
    BY <2>1, <2>2, <2>3 DEF SingleCall, CallsKnow, CallKnows
  <2>5. \A u \in Threads : call'[u].backing = call[u].backing
    BY <2>1, <2>2, <2>3
  <2>6. (\A l \in Luns : SameDisk(l)) /\ LeaseCount'
    BY <2>2 DEF SameDisk, StoreInv, LeaseCount, Holders
  <2> QED
    BY <2>2, <2>4, <2>5, <2>6, SameDisksKept DEF StoreInv
<1> QED
  BY <1>1, <1>2, <1>3

\* The steps of a call that change its locals and nothing else.
LEMMA LocalCallSteps ==
  ASSUME StoreInv, StoreTypeOK', NEW t \in Threads,
         \/ SelectAvailableLun(t) \/ AllocateFails(t) \/ MarkUnknownDisk(t)
         \/ FirstStoppingLun(t) \/ WaitForLunIo(t)
  PROVE  StoreInv'
<1> USE DEF StoreInv, StoreTypeOK
<1>0. call[t] \in Call /\ call[t].lun \in Luns
  BY DEF Call
<1>1. ASSUME NEW status, Return(t, status), call[t].pc \notin {"idle", "commit", "free"},
             UNCHANGED <<luns, NextDeviceId, pool, memory, io>>
      PROVE  StoreInv'
  <2> DEFINE locals == [call[t] EXCEPT !.pc = "returned", !.status = status,
                                       !.backing = NoBlock]
  <2>1. call[t].backing = NoBlock
    BY <1>1 DEF CallsKnow, CallKnows
  <2>2. locals.pc = "returned" /\ locals.backing = NoBlock
    BY <1>0 DEF Call
  <2>3. Advance(t, locals)
    BY <1>1 DEF Return
  <2> HIDE DEF locals
  <2>4. CallKnows(t)'
    BY <1>1, <2>2, <2>3, OneMoves DEF CallKnows
  <2> QED
    BY <1>1, <2>1, <2>2, <2>3, <2>4, OnlyLocalsMove
<1>2. CASE SelectAvailableLun(t)
  <2>1. CASE SelectStatus(call[t].request.SizeBytes) = "SUCCESS"
    <3> DEFINE l == First(LunsIn("Empty"))
               locals == [call[t] EXCEPT !.pc = "allocate", !.lun = l]
    <3>1. l \in Luns /\ luns[l].State = "Empty"
      <4>1. LunsIn("Empty") # {}
        BY <2>1 DEF SelectStatus
      <4>2. LunsIn("Empty") \subseteq Nat
        BY InitialTypes DEF LunsIn
      <4>3. l \in LunsIn("Empty")
        BY <4>1, <4>2, FirstIsLeast
      <4> HIDE DEF l
      <4> QED
        BY <4>3 DEF LunsIn
    <3>2. Advance(t, locals) /\ call[t].pc = "select"
          /\ UNCHANGED <<luns, NextDeviceId, pool, memory, io>>
      BY <1>2, <2>1 DEF SelectAvailableLun
    <3> HIDE DEF l
    <3>3. /\ locals.pc = "allocate" /\ locals.lun = l
          /\ locals.backing = call[t].backing /\ locals.request = call[t].request
      BY <1>0 DEF Call
    <3>4. call[t].backing = NoBlock /\ call[t].request \in CreateRequest
      BY <3>2 DEF CallsKnow, CallKnows
    <3> HIDE DEF locals
    <3>5. CallKnows(t)'
      BY <3>1, <3>2, <3>3, <3>4, OneMoves DEF CallKnows
    <3> QED
      BY <3>2, <3>3, <3>5, OnlyLocalsMove
  <2>2. CASE SelectStatus(call[t].request.SizeBytes) # "SUCCESS"
    BY <1>1, <1>2, <2>2 DEF SelectAvailableLun
  <2> QED
    BY <2>1, <2>2
<1>3. CASE AllocateFails(t)
  BY <1>1, <1>3 DEF AllocateFails
<1>4. CASE MarkUnknownDisk(t)
  BY <1>1, <1>4 DEF MarkUnknownDisk
<1>5. CASE FirstStoppingLun(t)
  <2>1. CASE LunsIn("Stopping") # {}
    <3> DEFINE l == First(LunsIn("Stopping"))
               locals == [call[t] EXCEPT !.pc = "wait", !.lun = l,
                                         !.deviceId = luns[l].DeviceId]
    <3>1. l \in Luns /\ luns[l].State = "Stopping"
      BY <2>1, FirstIsLeast, InitialTypes DEF LunsIn
    <3>2. Advance(t, locals) /\ call[t].pc = "first"
          /\ UNCHANGED <<luns, NextDeviceId, pool, memory, io>>
      BY <1>5, <2>1 DEF FirstStoppingLun
    <3> HIDE DEF l
    <3>3. /\ locals.pc = "wait" /\ locals.lun = l /\ locals.deviceId = luns[l].DeviceId
          /\ locals.backing = call[t].backing
      BY <1>0 DEF Call
    <3>4. call[t].backing = NoBlock
      BY <3>2 DEF CallsKnow, CallKnows
    <3> HIDE DEF locals
    <3>5. CallKnows(t)'
      BY <3>1, <3>2, <3>3, <3>4, OneMoves DEF CallKnows
    <3> QED
      BY <3>2, <3>3, <3>5, OnlyLocalsMove
  <2>2. CASE LunsIn("Stopping") = {}
    BY <1>1, <1>5, <2>2 DEF FirstStoppingLun
  <2> QED
    BY <2>1, <2>2
<1>6. CASE WaitForLunIo(t)
  <2> DEFINE locals == [call[t] EXCEPT !.pc = "detach"]
  <2>1. /\ Advance(t, locals) /\ call[t].pc = "wait"
        /\ UNCHANGED <<luns, NextDeviceId, pool, memory, io>>
    BY <1>6 DEF WaitForLunIo
  <2>2. /\ locals.pc = "detach" /\ locals.lun = call[t].lun
        /\ locals.deviceId = call[t].deviceId /\ locals.backing = call[t].backing
    BY <1>0 DEF Call
  <2>3. /\ luns[call[t].lun].State = "Stopping"
        /\ luns[call[t].lun].DeviceId = call[t].deviceId
        /\ call[t].backing = NoBlock
    BY <2>1 DEF CallsKnow, CallKnows
  <2>4. Holders(call[t].lun) = {}
    BY <1>0, <1>6 DEF WaitForLunIo, IoDrained, LeaseCount
  <2> HIDE DEF locals
  <2>5. Holders(call[t].lun)' = {}
    BY <2>1, <2>2, <2>4, OneMoves DEF Holders
  <2>6. CallKnows(t)'
    BY <2>1, <2>2, <2>3, <2>5, OneMoves DEF CallKnows
  <2> QED
    BY <2>1, <2>2, <2>6, OnlyLocalsMove
<1> QED
  BY <1>2, <1>3, <1>4, <1>5, <1>6

\* AllocateBacking: the block comes from the free ones, so it is no disk's, and
\* it is cleared before CommitNewLun can publish it.
LEMMA AllocateStep ==
  ASSUME StoreInv, StoreTypeOK', NEW t \in Threads, AllocateBacking(t)
  PROVE  StoreInv'
<1> USE BlocksAssumption DEF StoreInv, StoreTypeOK
<1>1. PICK b \in Blocks :
        /\ pool[b] = 0
        /\ pool' = [pool EXCEPT ![b] = call[t].request.SizeBytes]
        /\ memory' = [memory EXCEPT ![b] = 0]
        /\ Advance(t, [call[t] EXCEPT !.pc = "commit", !.backing = b])
  BY DEF AllocateBacking, MemoryCleared
<1>2. call[t].pc = "allocate" /\ UNCHANGED <<luns, NextDeviceId, io>>
  BY DEF AllocateBacking
<1>3. /\ call[t].backing = NoBlock /\ call[t].request \in CreateRequest
      /\ luns[call[t].lun].State = "Empty"
  BY <1>2 DEF CallsKnow, CallKnows
<1>4. call[t].request.SizeBytes # 0
  BY <1>3, SizesAssumption DEF CreateRequest
<1> DEFINE locals == [call[t] EXCEPT !.pc = "commit", !.backing = b]
<1>5. /\ locals.pc = "commit" /\ locals.backing = b
      /\ locals.lun = call[t].lun /\ locals.request = call[t].request
  BY DEF Call
<1>6. Advance(t, locals)
  BY <1>1
<1> HIDE DEF locals
<1>7. /\ call'[t] = locals /\ SingleCall' /\ (CallKnows(t)' => CallsKnow')
      /\ \A u \in Threads \ {t} : call'[u].backing = NoBlock /\ call[u].backing = NoBlock
  BY <1>2, <1>6, OneMoves
<1>8. \A l \in Luns : luns[l].BackingStore # b
  BY <1>1 DEF PoolOwnership
<1>9. CallsKnow'
  <2>1. memory'[b] = 0 /\ pool'[b] = call[t].request.SizeBytes
    BY <1>1
  <2> QED
    BY <1>2, <1>3, <1>5, <1>7, <2>1 DEF CallKnows
<1>10. PoolOwnership'
  <2>1. \A c \in Blocks : pool'[c] = IF c = b THEN call[t].request.SizeBytes ELSE pool[c]
    BY <1>1
  <2>2. \A l \in Luns : luns[l].BackingStore \in BlocksOrNull
    BY DEF Lun
  <2>3. \A c \in Blocks : pool'[c] # 0 =>
          \/ \E l \in Luns : luns'[l].BackingStore = c
          \/ \E u \in Threads : call'[u].backing = c
    <3> SUFFICES ASSUME NEW c \in Blocks, pool'[c] # 0, c # b
                 PROVE  \E l \in Luns : luns'[l].BackingStore = c
      BY <1>5, <1>7
    <3> QED
      BY <1>2, <1>3, <1>7, <2>1 DEF PoolOwnership
  <2>4. \A l \in Luns : luns'[l].BackingStore # NoBlock =>
          /\ luns'[l].SizeBytes # 0
          /\ pool'[luns'[l].BackingStore] = luns'[l].SizeBytes
          /\ \A k \in Luns \ {l} : luns'[k].BackingStore # luns'[l].BackingStore
          /\ \A u \in Threads : call'[u].backing # luns'[l].BackingStore
    BY <1>2, <1>5, <1>7, <1>8, <2>1, <2>2 DEF PoolOwnership, BlocksOrNull
  <2>5. \A u \in Threads : call'[u].backing # NoBlock =>
          /\ pool'[call'[u].backing] # 0
          /\ \A v \in Threads \ {u} : call'[v].backing # call'[u].backing
    BY <1>4, <1>5, <1>7, <2>1
  <2> QED
    BY <2>3, <2>4, <2>5 DEF PoolOwnership
<1>11. LeaseSafety'
  <2>1. \A i \in IoThreads : io[i].held => io[i].view.backingStore # b
    BY <1>1 DEF LeaseSafety
  <2> QED
    BY <1>1, <1>2, <2>1 DEF LeaseSafety
<1>12. DataIsolation'
  <2>1. \A l \in Luns : luns[l].BackingStore \in BlocksOrNull
    BY DEF Lun
  <2>2. \A c \in Blocks \ {b} : memory'[c] = memory[c]
    BY <1>1
  <2> QED
    BY <1>2, <1>8, <2>1, <2>2 DEF DataIsolation, BlocksOrNull
<1>13. EmptyOwnsNothing' /\ DeviceIdsUnique'
  BY <1>2 DEF EmptyOwnsNothing, DeviceIdsUnique
<1>14. LeaseCount'
  BY <1>2, LeaseCountKept
<1> QED
  BY <1>7, <1>9, <1>10, <1>11, <1>12, <1>13, <1>14

\* CommitNewLun: the LUN was empty, so it has no lease and no block, and the
\* device ID is above every one in use.
LEMMA CommitStep ==
  ASSUME StoreInv, StoreTypeOK', NEW t \in Threads, CommitNewLun(t)
  PROVE  StoreInv'
<1> USE BlocksAssumption DEF StoreInv, StoreTypeOK
<1> DEFINE l == call[t].lun
           locals == [call[t] EXCEPT !.pc = "returned", !.status = "SUCCESS",
                                     !.backing = NoBlock, !.deviceId = NextDeviceId]
<1>1. /\ call[t].pc = "commit" /\ NextDeviceId # 0
      /\ luns' = [luns EXCEPT ![l] = CommittedLun(t)]
      /\ NextDeviceId' = FollowingId(NextDeviceId, DeviceIdModulus)
      /\ Advance(t, locals) /\ UNCHANGED <<pool, memory, io>>
  BY DEF CommitNewLun, CommitStatus
<1>2. /\ l \in Luns /\ luns[l].State = "Empty" /\ luns[l].BackingStore = NoBlock
      /\ call[t].backing \in Blocks /\ memory[call[t].backing] = 0
      /\ call[t].request \in CreateRequest
  BY <1>1 DEF CallsKnow, CallKnows, EmptyOwnsNothing, Call
<1>3. locals.pc = "returned" /\ locals.backing = NoBlock
  BY DEF Call
<1>4. /\ luns'[l] = CommittedLun(t)
      /\ \A k \in Luns \ {l} : luns'[k] = luns[k]
  BY <1>1, <1>2
<1>5. /\ CommittedLun(t).State = "Online"
      /\ CommittedLun(t).DeviceId = NextDeviceId
      /\ CommittedLun(t).BackingStore = call[t].backing
      /\ CommittedLun(t).SizeBytes = call[t].request.SizeBytes
      /\ CommittedLun(t).ActiveRequests = 0
      /\ CommittedLun(t).NoActiveRequests = TRUE
  BY DEF CommittedLun
<1> HIDE DEF l, locals
<1>6. /\ call'[t] = locals /\ SingleCall' /\ (CallKnows(t)' => CallsKnow')
      /\ \A u \in Threads \ {t} : call'[u].backing = NoBlock /\ call[u].backing = NoBlock
  BY <1>1, OneMoves
<1>7. CallsKnow'
  BY <1>3, <1>6 DEF CallKnows
<1>8. EmptyOwnsNothing'
  BY <1>4, <1>5 DEF EmptyOwnsNothing
<1>9. \A i \in IoThreads : io[i].held => io[i].lun # l /\ io[i].lun \in Luns
  BY <1>2 DEF LeaseSafety, Lease
<1>10. LeaseSafety'
  BY <1>1, <1>4, <1>9 DEF LeaseSafety
<1>11. LeaseCount'
  <2>1. \A k \in Luns : Holders(k)' = Holders(k)
    BY <1>1 DEF Holders
  <2>2. Holders(l) = {}
    BY <1>9 DEF Holders
  <2> QED
    BY <1>4, <1>5, <2>1, <2>2, FS_EmptySet DEF LeaseCount
<1>12. PoolOwnership'
  <2>1. pool[call[t].backing] # 0 /\ \A k \in Luns : luns[k].BackingStore # call[t].backing
    BY <1>2 DEF PoolOwnership
  <2>2. pool[call[t].backing] = call[t].request.SizeBytes
    BY <1>1, <1>2 DEF CallsKnow, CallKnows
  <2> QED
    BY <1>1, <1>2, <1>3, <1>4, <1>5, <1>6, <2>1, <2>2 DEF PoolOwnership
<1>13. DataIsolation'
  BY <1>1, <1>2, <1>4, <1>5 DEF DataIsolation
<1>14. DeviceIdsUnique'
  <2>1. NextDeviceId' = IF NextDeviceId + 1 = DeviceIdModulus THEN 0 ELSE NextDeviceId + 1
    BY <1>1, FollowingIdRange, ModulusAssumption DEF DeviceIds
  <2>2. \A k \in Luns : luns[k].State # "Empty" =>
          luns[k].DeviceId \in Nat /\ luns[k].DeviceId < NextDeviceId
    BY <1>1 DEF DeviceIdsUnique, Lun, DeviceIds
  <2>3. NextDeviceId \in Nat
    BY DEF DeviceIds
  <2> QED
    BY <1>1, <1>4, <1>5, <2>1, <2>2, <2>3 DEF DeviceIdsUnique
<1> QED
  BY <1>6, <1>7, <1>8, <1>10, <1>11, <1>12, <1>13, <1>14

\* CommitFails and FreeBacking free the block that only the call owns.
LEMMA FreeStep ==
  ASSUME StoreInv, StoreTypeOK', NEW t \in Threads, CommitFails(t) \/ FreeBacking(t)
  PROVE  StoreInv'
<1> USE BlocksAssumption DEF StoreInv, StoreTypeOK
<1>1. /\ call[t].pc \in {"commit", "free"} /\ UNCHANGED <<luns, NextDeviceId, memory, io>>
      /\ \A b \in Blocks : pool'[b] = IF b = call[t].backing THEN 0 ELSE pool[b]
  BY DEF CommitFails, FreeBacking, PoolWithout
<1>2. PICK locals :
        /\ Advance(t, locals) /\ locals.backing = NoBlock
        /\ locals.lun = call[t].lun /\ locals.deviceId = call[t].deviceId
        /\ \/ locals.pc = "returned"
           \/ locals.pc = "finalize" /\ call[t].pc = "free"
  <2>1. CASE CommitFails(t)
    <3> DEFINE locals == [call[t] EXCEPT !.pc = "returned",
                                         !.status = CommitStatus(call[t].lun),
                                         !.backing = NoBlock]
    <3>1. /\ locals.pc = "returned" /\ locals.backing = NoBlock
          /\ locals.lun = call[t].lun /\ locals.deviceId = call[t].deviceId
      BY DEF Call
    <3>2. Advance(t, locals)
      BY <2>1 DEF CommitFails, Return
    <3> HIDE DEF locals
    <3> QED
      BY <3>1, <3>2
  <2>2. CASE FreeBacking(t)
    <3> DEFINE locals == [call[t] EXCEPT !.pc = "finalize", !.backing = NoBlock]
    <3>1. /\ locals.pc = "finalize" /\ locals.backing = NoBlock
          /\ locals.lun = call[t].lun /\ locals.deviceId = call[t].deviceId
      BY DEF Call
    <3>2. Advance(t, locals) /\ call[t].pc = "free"
      BY <2>2 DEF FreeBacking
    <3> HIDE DEF locals
    <3> QED
      BY <3>1, <3>2
  <2> QED
    BY <2>1, <2>2
<1>3. /\ call'[t] = locals /\ SingleCall' /\ (CallKnows(t)' => CallsKnow')
      /\ \A u \in Threads \ {t} : call'[u].backing = NoBlock /\ call[u].backing = NoBlock
  BY <1>1, <1>2, OneMoves
<1>4. CallsKnow'
  <2>1. call[t].pc = "free" =>
          /\ luns[call[t].lun].State = "Stopping"
          /\ luns[call[t].lun].DeviceId = call[t].deviceId
          /\ luns[call[t].lun].BackingStore = NoBlock
          /\ Holders(call[t].lun) = {}
    BY DEF CallsKnow, CallKnows
  <2>2. Holders(call[t].lun)' = Holders(call[t].lun)
    BY <1>1, <1>2, <1>3 DEF Holders
  <2> QED
    BY <1>1, <1>2, <1>3, <2>1, <2>2 DEF CallKnows
<1>5. \A l \in Luns : /\ luns[l].BackingStore \in BlocksOrNull
                      /\ luns[l].BackingStore # NoBlock =>
                           luns[l].BackingStore # call[t].backing
  BY DEF PoolOwnership, Lun
<1>6. PoolOwnership'
  <2>1. \A b \in Blocks : pool'[b] # 0 =>
          \/ \E l \in Luns : luns'[l].BackingStore = b
          \/ \E u \in Threads : call'[u].backing = b
    BY <1>1, <1>3 DEF PoolOwnership
  <2>2. \A l \in Luns : luns'[l].BackingStore # NoBlock =>
          /\ luns'[l].SizeBytes # 0
          /\ pool'[luns'[l].BackingStore] = luns'[l].SizeBytes
          /\ \A k \in Luns \ {l} : luns'[k].BackingStore # luns'[l].BackingStore
          /\ \A u \in Threads : call'[u].backing # luns'[l].BackingStore
    BY <1>1, <1>2, <1>3, <1>5 DEF PoolOwnership, BlocksOrNull
  <2>3. \A u \in Threads : call'[u].backing = NoBlock
    BY <1>2, <1>3
  <2> QED
    BY <2>1, <2>2, <2>3 DEF PoolOwnership
<1>7. LeaseSafety'
  <2>1. \A i \in IoThreads : io[i].held =>
          pool'[io[i].view.backingStore] = pool[io[i].view.backingStore]
    BY <1>1, <1>5, LeaseView
  <2> QED
    BY <1>1, <2>1 DEF LeaseSafety
<1>8. EmptyOwnsNothing' /\ DeviceIdsUnique' /\ DataIsolation'
  BY <1>1 DEF EmptyOwnsNothing, DeviceIdsUnique, DataIsolation
<1>9. LeaseCount'
  BY <1>1, LeaseCountKept
<1> QED
  BY <1>3, <1>4, <1>6, <1>7, <1>8, <1>9

\* MarkLunStopping and MarkAllLunsStopping take LUNs offline and leave them
\* their memory and their leases.
LEMMA MarkStep ==
  ASSUME StoreInv, StoreTypeOK', NEW t \in Threads,
         MarkLunStopping(t) \/ MarkAllLunsStopping(t)
  PROVE  StoreInv'
<1> USE DEF StoreInv, StoreTypeOK
<1>1. /\ call[t].pc \in {"mark", "markAll"} /\ UNCHANGED <<NextDeviceId, pool, memory, io>>
      /\ call[t].backing = NoBlock
  BY DEF MarkLunStopping, MarkAllLunsStopping, CallsKnow, CallKnows
<1>2. \A l \in Luns : \E state \in LunState :
        /\ luns'[l] = [luns[l] EXCEPT !.State = state]
        /\ state = "Empty" <=> luns[l].State = "Empty"
  <2>1. CASE MarkLunStopping(t)
    <3> DEFINE m == First(OnlineWithId(call[t].deviceId))
    <3>1. m \in Luns /\ luns[m].State = "Online"
      BY <2>1, FirstIsLeast, InitialTypes DEF MarkLunStopping, OnlineWithId
    <3>2. luns' = [luns EXCEPT ![m].State = "Stopping"]
      BY <2>1 DEF MarkLunStopping
    <3> HIDE DEF m
    <3>3. luns'[m] = [luns[m] EXCEPT !.State = "Stopping"]
      BY <3>1, <3>2
    <3>4. \A l \in Luns \ {m} : luns'[l] = [luns[l] EXCEPT !.State = luns[l].State]
      BY <3>2 DEF Lun
    <3>5. \A l \in Luns : luns[l].State \in LunState
      BY DEF Lun
    <3> QED
      BY <3>1, <3>3, <3>4, <3>5 DEF LunState
  <2>2. CASE MarkAllLunsStopping(t)
    <3>1. \A l \in Luns : luns[l].State \in LunState
      BY DEF Lun
    <3>2. \A l \in Luns : luns'[l] = [luns[l] EXCEPT !.State =
              IF luns[l].State = "Online" THEN "Stopping" ELSE luns[l].State]
      BY <2>2 DEF MarkAllLunsStopping
    <3> QED
      BY <3>1, <3>2 DEF LunState
  <2> QED
    BY <2>1, <2>2
<1>3. ASSUME NEW l \in Luns
      PROVE  /\ SameDisk(l)
             /\ luns'[l].ActiveRequests = luns[l].ActiveRequests
             /\ luns'[l].NoActiveRequests = luns[l].NoActiveRequests
  <2>1. PICK state \in LunState :
          /\ luns'[l] = [luns[l] EXCEPT !.State = state]
          /\ state = "Empty" <=> luns[l].State = "Empty"
    BY <1>2
  <2>2. luns[l] \in Lun
    OBVIOUS
  <2> QED
    BY <2>1, <2>2 DEF SameDisk, Lun
<1>4. PICK locals :
        /\ Advance(t, locals) /\ locals.backing = NoBlock
        /\ \/ locals.pc = "first"
           \/ /\ locals.pc = "wait"
              /\ luns'[locals.lun].State = "Stopping"
              /\ luns'[locals.lun].DeviceId = locals.deviceId
  <2>1. CASE MarkLunStopping(t)
    <3> DEFINE m == First(OnlineWithId(call[t].deviceId))
               locals == [call[t] EXCEPT !.pc = "wait", !.lun = m]
    <3>1. m \in Luns /\ luns[m].DeviceId = call[t].deviceId
      BY <2>1, FirstIsLeast, InitialTypes DEF MarkLunStopping, OnlineWithId
    <3>2. Advance(t, locals) /\ luns' = [luns EXCEPT ![m].State = "Stopping"]
      BY <2>1 DEF MarkLunStopping
    <3> HIDE DEF m
    <3>3. /\ locals.pc = "wait" /\ locals.lun = m
          /\ locals.deviceId = call[t].deviceId /\ locals.backing = call[t].backing
      BY DEF Call
    <3>4. luns'[m].State = "Stopping" /\ luns'[m].DeviceId = luns[m].DeviceId
      BY <3>1, <3>2 DEF Lun
    <3> HIDE DEF locals
    <3> QED
      BY <1>1, <3>1, <3>2, <3>3, <3>4
  <2>2. CASE MarkAllLunsStopping(t)
    <3> DEFINE locals == [call[t] EXCEPT !.pc = "first"]
    <3>1. Advance(t, locals)
      BY <2>2 DEF MarkAllLunsStopping
    <3>2. locals.pc = "first" /\ locals.backing = call[t].backing
      BY DEF Call
    <3> HIDE DEF locals
    <3> QED
      BY <1>1, <3>1, <3>2
  <2> QED
    BY <2>1, <2>2
<1>5. /\ call'[t] = locals /\ SingleCall' /\ (CallKnows(t)' => CallsKnow')
      /\ \A u \in Threads : call'[u].backing = call[u].backing
  BY <1>1, <1>4, OneMoves
<1>6. CallsKnow'
  BY <1>4, <1>5 DEF CallKnows
<1>7. LeaseCount'
  BY <1>1, <1>3, LeaseCountKept
<1> QED
  BY <1>1, <1>3, <1>5, <1>6, <1>7, SameDisksKept

\* DetachBackingStore moves the block from a drained LUN to the call, which is
\* the only one that can free it.
LEMMA DetachStep ==
  ASSUME StoreInv, StoreTypeOK', NEW t \in Threads, DetachBackingStore(t)
  PROVE  StoreInv'
<1> USE BlocksAssumption DEF StoreInv, StoreTypeOK
<1> DEFINE l == call[t].lun
           locals == [call[t] EXCEPT !.pc = "free", !.backing = luns[l].BackingStore]
<1>1. /\ call[t].pc = "detach" /\ l \in Luns
      /\ luns[l].State = "Stopping" /\ luns[l].DeviceId = call[t].deviceId
      /\ Holders(l) = {} /\ call[t].backing = NoBlock
  BY DEF DetachBackingStore, CallsKnow, CallKnows, Call
<1>2. /\ luns' = [luns EXCEPT ![l].BackingStore = NoBlock]
      /\ Advance(t, locals) /\ UNCHANGED <<NextDeviceId, pool, memory, io>>
  BY <1>1 DEF DetachBackingStore
<1> HIDE DEF l
<1>3. /\ locals.pc = "free" /\ locals.backing = luns[l].BackingStore
      /\ locals.lun = call[t].lun /\ locals.deviceId = call[t].deviceId
  BY DEF Call
<1> HIDE DEF locals
<1>4. /\ call'[t] = locals /\ SingleCall' /\ (CallKnows(t)' => CallsKnow')
      /\ \A u \in Threads \ {t} : call'[u].backing = NoBlock /\ call[u].backing = NoBlock
  BY <1>1, <1>2, OneMoves
<1>5. /\ luns'[l] = [luns[l] EXCEPT !.BackingStore = NoBlock]
      /\ \A k \in Luns \ {l} : luns'[k] = luns[k]
  BY <1>1, <1>2
<1>6. /\ luns'[l].State = "Stopping" /\ luns'[l].BackingStore = NoBlock
      /\ luns'[l].DeviceId = luns[l].DeviceId
      /\ luns'[l].ActiveRequests = luns[l].ActiveRequests
      /\ luns'[l].NoActiveRequests = luns[l].NoActiveRequests
  <2>1. luns[l] \in Lun
    BY <1>1
  <2> QED
    BY <1>1, <1>5, <2>1 DEF Lun
<1>7. CallsKnow'
  <2>1. Holders(l)' = {}
    <3>1. l' = l
      BY <1>3, <1>4 DEF l
    <3> QED
      BY <1>1, <1>2, <3>1 DEF Holders
  <2>2. call'[t].lun = l /\ call'[t].deviceId = luns[l].DeviceId
    BY <1>1, <1>3, <1>4 DEF l
  <2>3. Holders(call[t].lun)' = {}
    BY <2>1, <2>2 DEF l
  <2> QED
    BY <1>3, <1>4, <1>6, <2>2, <2>3 DEF CallKnows
<1>8. EmptyOwnsNothing' /\ DataIsolation'
  BY <1>2, <1>5, <1>6 DEF EmptyOwnsNothing, DataIsolation
<1>9. DeviceIdsUnique'
  BY <1>1, <1>2, <1>5, <1>6 DEF DeviceIdsUnique
<1>10. LeaseCount'
  BY <1>2, <1>5, <1>6, LeaseCountKept
<1>11. LeaseSafety'
  <2>1. \A i \in IoThreads : io[i].held => io[i].lun \in Luns \ {l}
    BY <1>1, LeaseView DEF Holders
  <2> QED
    BY <1>2, <1>5, <2>1 DEF LeaseSafety
<1>12. PoolOwnership'
  <2>1. \A b \in Blocks : pool'[b] # 0 =>
          \/ \E k \in Luns : luns'[k].BackingStore = b
          \/ \E u \in Threads : call'[u].backing = b
    BY <1>1, <1>2, <1>3, <1>4, <1>5 DEF PoolOwnership
  <2>2. \A k \in Luns : luns'[k].BackingStore # NoBlock =>
          /\ luns'[k].SizeBytes # 0
          /\ pool'[luns'[k].BackingStore] = luns'[k].SizeBytes
          /\ \A j \in Luns \ {k} : luns'[j].BackingStore # luns'[k].BackingStore
          /\ \A u \in Threads : call'[u].backing # luns'[k].BackingStore
    BY <1>1, <1>2, <1>3, <1>4, <1>5, <1>6 DEF PoolOwnership
  <2>3. \A u \in Threads : call'[u].backing # NoBlock =>
          /\ pool'[call'[u].backing] # 0
          /\ \A v \in Threads \ {u} : call'[v].backing # call'[u].backing
    BY <1>1, <1>2, <1>3, <1>4 DEF PoolOwnership
  <2> QED
    BY <2>1, <2>2, <2>3 DEF PoolOwnership
<1> QED
  BY <1>4, <1>7, <1>8, <1>9, <1>10, <1>11, <1>12

\* FinalizeRemovalLocked empties a LUN that has neither lease nor block.
LEMMA FinalizeStep ==
  ASSUME StoreInv, StoreTypeOK', NEW t \in Threads, FinalizeRemoval(t)
  PROVE  StoreInv'
<1> USE BlocksAssumption DEF StoreInv, StoreTypeOK
<1> DEFINE l == call[t].lun
<1>1. /\ call[t].pc = "finalize" /\ l \in Luns
      /\ luns[l].BackingStore = NoBlock /\ Holders(l) = {} /\ call[t].backing = NoBlock
  BY DEF FinalizeRemoval, CallsKnow, CallKnows, Call
<1>2. /\ luns' = [luns EXCEPT ![l] = FinalizedLun(l)]
      /\ UNCHANGED <<NextDeviceId, pool, memory, io>>
  BY DEF FinalizeRemoval
<1>3. PICK locals : /\ Advance(t, locals) /\ locals.backing = NoBlock
                    /\ locals.pc \in {"first", "returned"}
  <2> DEFINE locals == [call[t] EXCEPT
                          !.pc = IF t = "teardown" THEN "first" ELSE "returned",
                          !.status = "SUCCESS"]
  <2>1. Advance(t, locals)
    BY DEF FinalizeRemoval
  <2>2. locals.backing = NoBlock /\ locals.pc \in {"first", "returned"}
    BY <1>1 DEF Call
  <2> HIDE DEF locals
  <2> QED
    BY <2>1, <2>2
<1> HIDE DEF l
<1>4. /\ call'[t] = locals /\ SingleCall' /\ (CallKnows(t)' => CallsKnow')
      /\ \A u \in Threads : call'[u].backing = call[u].backing
  BY <1>1, <1>3, OneMoves
<1>5. CallsKnow'
  BY <1>3, <1>4 DEF CallKnows
<1>6. /\ luns'[l] = FinalizedLun(l)
      /\ \A k \in Luns \ {l} : luns'[k] = luns[k]
  BY <1>1, <1>2
<1>7. /\ FinalizedLun(l).State = "Empty" /\ FinalizedLun(l).BackingStore = NoBlock
      /\ FinalizedLun(l).ActiveRequests = luns[l].ActiveRequests
      /\ FinalizedLun(l).NoActiveRequests = luns[l].NoActiveRequests
  <2>1. luns[l] \in Lun
    BY <1>1
  <2> QED
    BY <2>1 DEF FinalizedLun, Lun
<1>8. EmptyOwnsNothing' /\ DataIsolation'
  BY <1>2, <1>6, <1>7 DEF EmptyOwnsNothing, DataIsolation
<1>9. DeviceIdsUnique'
  BY <1>2, <1>6, <1>7 DEF DeviceIdsUnique
<1>10. LeaseCount'
  BY <1>2, <1>6, <1>7, LeaseCountKept
<1>11. LeaseSafety'
  <2>1. \A i \in IoThreads : io[i].held => io[i].lun \in Luns \ {l}
    BY <1>1, LeaseView DEF Holders
  <2> QED
    BY <1>2, <1>6, <2>1 DEF LeaseSafety
<1>12. PoolOwnership'
  <2>1. \A k \in Luns : luns'[k].BackingStore = luns[k].BackingStore
    BY <1>1, <1>6, <1>7
  <2>2. \A k \in Luns : luns'[k].BackingStore # NoBlock => luns'[k] = luns[k]
    BY <1>6, <1>7
  <2>3. \A k \in Luns : luns'[k].BackingStore # NoBlock =>
          /\ luns'[k].SizeBytes # 0
          /\ pool'[luns'[k].BackingStore] = luns'[k].SizeBytes
          /\ \A j \in Luns \ {k} : luns'[j].BackingStore # luns'[k].BackingStore
          /\ \A u \in Threads : call'[u].backing # luns'[k].BackingStore
    BY <1>2, <1>4, <2>1, <2>2 DEF PoolOwnership
  <2>4. \A b \in Blocks : pool'[b] # 0 =>
          \/ \E k \in Luns : luns'[k].BackingStore = b
          \/ \E u \in Threads : call'[u].backing = b
    BY <1>2, <1>4, <2>1 DEF PoolOwnership
  <2>5. \A u \in Threads : call'[u].backing # NoBlock =>
          /\ pool'[call'[u].backing] # 0
          /\ \A v \in Threads \ {u} : call'[v].backing # call'[u].backing
    BY <1>2, <1>4 DEF PoolOwnership
  <2> QED
    BY <2>3, <2>4, <2>5 DEF PoolOwnership
<1> QED
  BY <1>4, <1>5, <1>8, <1>9, <1>10, <1>11, <1>12

\* EndCall drops the locals and may bind a create operation to its LUN.
LEMMA EndCallStep ==
  ASSUME StoreInv, StoreTypeOK', NEW t \in Threads, EndCall(t)
  PROVE  StoreInv'
<1> USE DEF StoreInv, StoreTypeOK
<1>1. /\ call[t].pc = "returned" /\ Advance(t, NoCall) /\ call[t].backing = NoBlock
      /\ call[t].lun \in Luns /\ UNCHANGED <<NextDeviceId, pool, memory, io>>
  BY DEF EndCall, Collect, CallsKnow, CallKnows, Call
<1>2. ASSUME NEW l \in Luns
      PROVE  /\ SameDisk(l)
             /\ luns'[l].ActiveRequests = luns[l].ActiveRequests
             /\ luns'[l].NoActiveRequests = luns[l].NoActiveRequests
  <2>1. luns'[l] = luns[l] \/ \E operation \in OperationIds :
          luns'[l] = [luns[l] EXCEPT !.CreateOperationId = operation]
    BY <1>1 DEF EndCall, BindCreateOperation
  <2>2. luns[l] \in Lun
    OBVIOUS
  <2> QED
    BY <2>1, <2>2 DEF SameDisk, Lun
<1>3. NoCall.pc = "idle" /\ NoCall.backing = NoBlock
  BY DEF NoCall
<1>4. /\ call'[t] = NoCall /\ SingleCall' /\ (CallKnows(t)' => CallsKnow')
      /\ \A u \in Threads : call'[u].backing = call[u].backing
  BY <1>1, <1>3, OneMoves
<1>5. CallsKnow'
  BY <1>3, <1>4 DEF CallKnows
<1>6. LeaseCount'
  BY <1>1, <1>2, LeaseCountKept
<1> QED
  BY <1>1, <1>2, <1>4, <1>5, <1>6, SameDisksKept

\* The leases out on a LUN are counted by a natural number.
LEMMA HoldersFinite ==
  ASSUME NEW l
  PROVE  IsFiniteSet(Holders(l)) /\ Cardinality(Holders(l)) \in Nat
<1>1. Holders(l) \subseteq IoThreads
  BY DEF Holders
<1>2. IsFiniteSet(Holders(l))
  BY <1>1, IoThreadsAssumption, FS_Subset
<1> QED
  BY <1>2, FS_CardinalityType

\* What taking or returning a lease writes in the LUN record.
LEMMA LeaseFields ==
  ASSUME NEW lun \in Lun
  PROVE  /\ WithLease(lun).State = lun.State
         /\ WithLease(lun).BackingStore = lun.BackingStore
         /\ WithLease(lun).SizeBytes = lun.SizeBytes
         /\ WithLease(lun).MediaKind = lun.MediaKind
         /\ WithLease(lun).DeviceId = lun.DeviceId
         /\ WithLease(lun).ActiveRequests = lun.ActiveRequests + 1
         /\ WithLease(lun).NoActiveRequests =
              IF lun.ActiveRequests = 0 THEN FALSE ELSE lun.NoActiveRequests
         /\ WithoutLease(lun).State = lun.State
         /\ WithoutLease(lun).BackingStore = lun.BackingStore
         /\ WithoutLease(lun).SizeBytes = lun.SizeBytes
         /\ WithoutLease(lun).MediaKind = lun.MediaKind
         /\ WithoutLease(lun).DeviceId = lun.DeviceId
         /\ WithoutLease(lun).ActiveRequests =
              IF lun.ActiveRequests # 0 THEN lun.ActiveRequests - 1 ELSE lun.ActiveRequests
         /\ WithoutLease(lun).NoActiveRequests =
              IF lun.ActiveRequests = 1 THEN TRUE ELSE lun.NoActiveRequests
  BY DEF WithLease, WithoutLease, Lun

\* Taking and returning leases: only Online LUNs get a new one, so a call that
\* has seen its LUN drained stays right about it.
LEMMA AcquireStep ==
  ASSUME StoreInv, StoreTypeOK', NEW i \in IoThreads, NEW l \in Luns, AcquireLunIo(i, l)
  PROVE  StoreInv'
<1> USE DEF StoreInv, StoreTypeOK
<1>1. /\ ~io[i].held /\ luns[l].State = "Online" /\ luns[l].BackingStore # NoBlock
      /\ luns' = [luns EXCEPT ![l] = WithLease(luns[l])]
      /\ UNCHANGED <<NextDeviceId, pool, memory, call>>
  BY DEF AcquireLunIo
<1> DEFINE view == [backingStore |-> luns[l].BackingStore, sizeBytes |-> luns[l].SizeBytes,
                    mediaKind |-> luns[l].MediaKind, deviceId |-> luns[l].DeviceId]
<1>2. io' = [io EXCEPT ![i] = [held |-> TRUE, lun |-> l, view |-> view]]
  BY DEF AcquireLunIo
<1> HIDE DEF view
<1>3. /\ io'[i].held = TRUE /\ io'[i].lun = l /\ io'[i].view = view
      /\ \A j \in IoThreads \ {i} : io'[j] = io[j]
  BY <1>2
<1>4. /\ luns'[l] = WithLease(luns[l])
      /\ \A k \in Luns \ {l} : luns'[k] = luns[k]
  BY <1>1
<1>5. luns[l] \in Lun
  OBVIOUS
<1>6. \A k \in Luns : SameDisk(k) /\ luns'[k].State = luns[k].State
  <2>1. SameDisk(l) /\ luns'[l].State = luns[l].State
    <3> DEFINE after == luns'[l]
               lun == luns[l]
    <3>1. after = WithLease(lun) /\ lun \in Lun
      BY <1>4, <1>5
    <3> HIDE DEF after, lun, StoreInv, StoreTypeOK
    <3>2. /\ after.State = lun.State /\ after.BackingStore = lun.BackingStore
          /\ after.SizeBytes = lun.SizeBytes /\ after.MediaKind = lun.MediaKind
          /\ after.DeviceId = lun.DeviceId
      BY <3>1, LeaseFields
    <3> QED
      BY <3>2 DEF SameDisk, after, lun
  <2>2. \A k \in Luns \ {l} : SameDisk(k) /\ luns'[k].State = luns[k].State
    BY <1>4 DEF SameDisk
  <2> QED
    BY <2>1, <2>2
<1>7. /\ Holders(l)' = Holders(l) \cup {i} /\ i \notin Holders(l)
      /\ \A k \in Luns \ {l} : Holders(k)' = Holders(k)
  BY <1>1, <1>3 DEF Holders
<1>8. EmptyOwnsNothing' /\ PoolOwnership' /\ DataIsolation' /\ DeviceIdsUnique'
  BY <1>1, <1>6, SameDisksKept
<1>9. SingleCall' /\ CallsKnow'
  <2>1. \A t \in Threads : call[t].lun \in Luns
    BY DEF Call
  <2>2. SingleCall'
    BY <1>1 DEF SingleCall
  <2>3. ASSUME NEW t \in Threads
        PROVE  CallKnows(t)'
    <3>1. CallKnows(t) /\ call'[t] = call[t] /\ call[t].lun \in Luns
      BY <1>1, <2>1 DEF CallsKnow
    <3>2. call[t].pc \in {"detach", "free", "finalize"} => call[t].lun # l
      BY <1>1, <3>1 DEF CallKnows
    <3>3. call[t].lun # l => Holders(call[t].lun)' = Holders(call[t].lun)
      BY <1>1, <1>3, <3>1 DEF Holders
    <3>4. /\ luns'[call[t].lun].State = luns[call[t].lun].State
          /\ luns'[call[t].lun].DeviceId = luns[call[t].lun].DeviceId
          /\ luns'[call[t].lun].BackingStore = luns[call[t].lun].BackingStore
      BY <1>6, <3>1 DEF SameDisk
    <3> QED
      BY <1>1, <3>1, <3>2, <3>3, <3>4 DEF CallKnows
  <2> QED
    BY <2>2, <2>3 DEF CallsKnow
<1>10. LeaseSafety'
  <2>1. \A k \in Luns : /\ luns'[k].State = luns[k].State
                        /\ luns'[k].BackingStore = luns[k].BackingStore
                        /\ luns'[k].SizeBytes = luns[k].SizeBytes
                        /\ luns'[k].MediaKind = luns[k].MediaKind
                        /\ luns'[k].DeviceId = luns[k].DeviceId
    BY <1>6 DEF SameDisk
  <2>2. ASSUME NEW j \in IoThreads, io'[j].held
        PROVE  /\ luns'[io'[j].lun].State # "Empty"
               /\ io'[j].view = [backingStore |-> luns'[io'[j].lun].BackingStore,
                                 sizeBytes |-> luns'[io'[j].lun].SizeBytes,
                                 mediaKind |-> luns'[io'[j].lun].MediaKind,
                                 deviceId |-> luns'[io'[j].lun].DeviceId]
               /\ io'[j].view.backingStore \in Blocks
               /\ io'[j].view.sizeBytes # 0
               /\ pool'[io'[j].view.backingStore] = io'[j].view.sizeBytes
    <3>1. CASE j = i
      <4>1. luns[l].BackingStore \in Blocks /\ luns[l].SizeBytes # 0
            /\ pool[luns[l].BackingStore] = luns[l].SizeBytes
        BY <1>1, <1>5 DEF PoolOwnership, Lun, BlocksOrNull
      <4> QED
        BY <1>1, <1>3, <2>1, <3>1, <4>1 DEF view
    <3>2. CASE j # i
      <4>1. io'[j] = io[j] /\ io[j].held /\ io[j].lun \in Luns
        BY <1>3, <2>2, <3>2 DEF Lease
      <4> QED
        BY <1>1, <2>1, <4>1 DEF LeaseSafety
    <3> QED
      BY <3>1, <3>2
  <2> QED
    BY <2>2 DEF LeaseSafety
<1>11. LeaseCount'
  <2>1. Cardinality(Holders(l)') = Cardinality(Holders(l)) + 1
    BY <1>7, HoldersFinite, FS_AddElement
  <2>2. /\ luns'[l].ActiveRequests = luns[l].ActiveRequests + 1
        /\ luns'[l].NoActiveRequests =
             IF luns[l].ActiveRequests = 0 THEN FALSE ELSE luns[l].NoActiveRequests
    BY <1>4, <1>5, LeaseFields
  <2>3. luns[l].ActiveRequests = 0 \/ ~luns[l].NoActiveRequests
    BY FS_EmptySet, HoldersFinite DEF LeaseCount
  <2>4. luns'[l].ActiveRequests = Cardinality(Holders(l)')
    BY <2>1, <2>2 DEF LeaseCount
  <2>5. luns'[l].NoActiveRequests = FALSE /\ Holders(l)' # {}
    BY <1>7, <2>2, <2>3, <1>5 DEF Lun
  <2> QED
    BY <1>4, <1>7, <2>4, <2>5 DEF LeaseCount
<1> QED
  BY <1>8, <1>9, <1>10, <1>11

\* Returning a lease leaves the other leases right, and signals the event of
\* its LUN exactly when it was the last one there.
LEMMA ReleaseStep ==
  ASSUME StoreInv, StoreTypeOK', NEW i \in IoThreads, ReleaseLunIo(i)
  PROVE  StoreInv'
<1> USE DEF StoreInv, StoreTypeOK
<1> DEFINE l == io[i].lun
<1>1. /\ io[i].held /\ l \in Luns
      /\ luns' = [luns EXCEPT ![l] = WithoutLease(luns[l])]
      /\ io' = [io EXCEPT ![i] = NoLease]
      /\ UNCHANGED <<NextDeviceId, pool, memory, call>>
  BY DEF ReleaseLunIo, Lease
<1>2. /\ io'[i].held = FALSE
      /\ \A j \in IoThreads \ {i} : io'[j] = io[j]
  BY <1>1 DEF NoLease
<1>3. /\ luns'[l] = WithoutLease(luns[l])
      /\ \A k \in Luns \ {l} : luns'[k] = luns[k]
  BY <1>1
<1>4. luns[l] \in Lun
  BY <1>1
<1>5. /\ i \in Holders(l)
      /\ \A k \in Luns : Holders(k)' = Holders(k) \ {i}
      /\ \A k \in Luns \ {l} : Holders(k)' = Holders(k)
  BY <1>1, <1>2 DEF Holders
<1> HIDE DEF l
<1>6. \A k \in Luns : SameDisk(k) /\ luns'[k].State = luns[k].State
  <2>1. SameDisk(l) /\ luns'[l].State = luns[l].State
    BY <1>3, <1>4, LeaseFields DEF SameDisk
  <2>2. \A k \in Luns \ {l} : SameDisk(k) /\ luns'[k].State = luns[k].State
    BY <1>3 DEF SameDisk
  <2> QED
    BY <2>1, <2>2
<1>7. EmptyOwnsNothing' /\ PoolOwnership' /\ DataIsolation' /\ DeviceIdsUnique'
  BY <1>1, <1>6, SameDisksKept
<1>8. SingleCall' /\ CallsKnow'
  <2>1. SingleCall'
    BY <1>1 DEF SingleCall
  <2>2. ASSUME NEW t \in Threads
        PROVE  CallKnows(t)'
    <3>1. CallKnows(t) /\ call'[t] = call[t] /\ call[t].lun \in Luns
      BY <1>1 DEF CallsKnow, Call
    <3>2. Holders(call[t].lun) = {} => Holders(call[t].lun)' = {}
      BY <1>1, <1>2, <3>1 DEF Holders
    <3>3. /\ luns'[call[t].lun].State = luns[call[t].lun].State
          /\ luns'[call[t].lun].DeviceId = luns[call[t].lun].DeviceId
          /\ luns'[call[t].lun].BackingStore = luns[call[t].lun].BackingStore
      BY <1>6, <3>1 DEF SameDisk
    <3> QED
      BY <1>1, <3>1, <3>2, <3>3 DEF CallKnows
  <2> QED
    BY <2>1, <2>2 DEF CallsKnow
<1>9. LeaseSafety'
  <2>1. \A k \in Luns : /\ luns'[k].State = luns[k].State
                        /\ luns'[k].BackingStore = luns[k].BackingStore
                        /\ luns'[k].SizeBytes = luns[k].SizeBytes
                        /\ luns'[k].MediaKind = luns[k].MediaKind
                        /\ luns'[k].DeviceId = luns[k].DeviceId
    BY <1>6 DEF SameDisk
  <2>2. \A j \in IoThreads : io'[j].held => io'[j] = io[j] /\ io[j].lun \in Luns
    BY <1>2 DEF Lease
  <2> QED
    BY <1>1, <2>1, <2>2 DEF LeaseSafety
<1>10. LeaseCount'
  <2> DEFINE n == Cardinality(Holders(l))
  <2>1. /\ n \in Nat /\ n # 0 /\ Cardinality(Holders(l) \ {i}) = n - 1
        /\ Cardinality(Holders(l) \ {i}) = 0 <=> Holders(l) \ {i} = {}
    BY <1>5, HoldersFinite, FS_RemoveElement, FS_EmptySet
  <2>2. luns[l].ActiveRequests = n /\ ~luns[l].NoActiveRequests
    BY <1>1, <1>5 DEF LeaseCount
  <2>3. /\ luns'[l].ActiveRequests =
             IF luns[l].ActiveRequests # 0 THEN luns[l].ActiveRequests - 1
             ELSE luns[l].ActiveRequests
        /\ luns'[l].NoActiveRequests =
             IF luns[l].ActiveRequests = 1 THEN TRUE ELSE luns[l].NoActiveRequests
    <3>1. luns[l] \in Lun /\ luns'[l] = WithoutLease(luns[l])
      BY <1>3, <1>4
    <3> HIDE DEF n, StoreInv, StoreTypeOK
    <3> QED
      BY <3>1, LeaseFields
  <2> HIDE DEF n
  <2>4. luns'[l].ActiveRequests = n - 1
    BY <2>1, <2>2, <2>3
  <2>5. luns'[l].NoActiveRequests <=> n = 1
    BY <2>2, <2>3
  <2>6. Holders(l) \ {i} = {} <=> n = 1
    BY <2>1
  <2>7. \A k \in Luns \ {l} :
          /\ luns'[k].ActiveRequests = Cardinality(Holders(k)')
          /\ luns'[k].NoActiveRequests <=> Holders(k)' = {}
    BY <1>3, <1>5 DEF LeaseCount
  <2>8. /\ luns'[l].ActiveRequests = Cardinality(Holders(l) \ {i})
        /\ luns'[l].NoActiveRequests <=> Holders(l) \ {i} = {}
    BY <2>1, <2>4, <2>5, <2>6
  <2>9. \A k \in Luns :
          /\ luns'[k].ActiveRequests = Cardinality(Holders(k)')
          /\ luns'[k].NoActiveRequests <=> Holders(k)' = {}
    <3> SUFFICES ASSUME NEW k \in Luns
                 PROVE  /\ luns'[k].ActiveRequests = Cardinality(Holders(k)')
                        /\ luns'[k].NoActiveRequests <=> Holders(k)' = {}
      OBVIOUS
    <3>1. CASE k # l
      BY <2>7, <3>1
    <3>2. CASE k = l
      <4>1. Holders(k)' = Holders(l) \ {i}
        BY <1>5, <3>2
      <4> QED
        BY <2>8, <3>2, <4>1
    <3> QED
      BY <3>1, <3>2
  <2> QED
    BY <2>9 DEF LeaseCount
<1> QED
  BY <1>7, <1>8, <1>9, <1>10

\* A write goes to the block of the disk the lease is on, and to no other.
LEMMA WriteStep ==
  ASSUME StoreInv, StoreTypeOK', NEW i \in IoThreads, WriteBacking(i)
  PROVE  StoreInv'
<1> USE DEF StoreInv, StoreTypeOK
<1> DEFINE l == io[i].lun
           b == io[i].view.backingStore
<1>1. /\ io[i].held /\ UNCHANGED <<luns, NextDeviceId, pool, io, call>>
      /\ memory' = [memory EXCEPT ![b] = io[i].view.deviceId]
  BY DEF WriteBacking
<1>2. /\ l \in Luns /\ b \in Blocks /\ b = luns[l].BackingStore
      /\ io[i].view.deviceId = luns[l].DeviceId
  BY <1>1, LeaseView
<1> HIDE DEF l, b
<1>3. /\ memory'[b] = luns[l].DeviceId
      /\ \A c \in Blocks \ {b} : memory'[c] = memory[c]
  BY <1>1, <1>2
<1>4. DataIsolation'
  <2>1. \A k \in Luns : luns[k].BackingStore \in BlocksOrNull
    BY DEF Lun
  <2>2. \A k \in Luns \ {l} : luns[k].BackingStore # b
    BY <1>2, BlocksAssumption DEF PoolOwnership
  <2> QED
    BY <1>1, <1>2, <1>3, <2>1, <2>2 DEF DataIsolation, BlocksOrNull
<1>5. CallsKnow'
  <2>1. \A t \in Threads : call[t].backing # b
    BY <1>2, BlocksAssumption DEF PoolOwnership
  <2>2. ASSUME NEW t \in Threads
        PROVE  CallKnows(t)'
    <3>1. CallKnows(t) /\ call'[t] = call[t] /\ call[t].backing # b
      BY <1>1, <2>1 DEF CallsKnow
    <3>2. call[t].backing \in Blocks => memory'[call[t].backing] = memory[call[t].backing]
      BY <1>3, <3>1
    <3>3. Holders(call[t].lun)' = Holders(call[t].lun)
      BY <1>1 DEF Holders
    <3> QED
      BY <1>1, <3>1, <3>2, <3>3 DEF CallKnows
  <2> QED
    BY <2>2 DEF CallsKnow
<1>6. SingleCall' /\ EmptyOwnsNothing' /\ DeviceIdsUnique'
  BY <1>1 DEF SingleCall, EmptyOwnsNothing, DeviceIdsUnique
<1>7. LeaseSafety' /\ PoolOwnership'
  BY <1>1 DEF LeaseSafety, PoolOwnership
<1>8. LeaseCount'
  BY <1>1, LeaseCountKept
<1> QED
  BY <1>4, <1>5, <1>6, <1>7, <1>8

-----------------------------------------------------------------------------
(***************************************************************************)
(* The results.                                                            *)
(***************************************************************************)
\* Every step of the store keeps the invariant: one case per action.
LEMMA StoreInvStep ==
  ASSUME StoreInv, [StoreNext]_storeVars
  PROVE  StoreInv'
<1>1. CASE StoreNext
  <2>1. StoreTypeOK'
    BY <1>1, TypeCorrectStep DEF StoreInv
  <2>2. ASSUME NEW t \in Threads, LockedCallStep(t)
        PROVE  StoreInv'
    BY <2>1, <2>2, LocalCallSteps, CommitStep, FreeStep, MarkStep, DetachStep
       DEF LockedCallStep
  <2>3. ASSUME NEW t \in Threads, UnlockedCallStep(t)
        PROVE  StoreInv'
    BY <2>1, <2>3, LocalCallSteps, AllocateStep, FreeStep DEF UnlockedCallStep
  <2>4. ASSUME NEW i \in IoThreads, IoStep(i)
        PROVE  StoreInv'
    BY <2>1, <2>4, AcquireStep, ReleaseStep, WriteStep DEF IoStep
  <2> QED
    BY <1>1, <2>1, <2>2, <2>3, <2>4, StepsOutsideCalls, FinalizeStep, EndCallStep
       DEF StoreNext
<1>2. CASE UNCHANGED storeVars
  <2> USE <1>2 DEF storeVars, StoreInv
  <2>1. StoreTypeOK'
    BY DEF StoreTypeOK
  <2>2. SingleCall' /\ EmptyOwnsNothing'
    BY DEF SingleCall, EmptyOwnsNothing
  <2>3. CallsKnow'
    BY DEF CallsKnow, CallKnows, Holders
  <2>4. LeaseSafety' /\ PoolOwnership'
    BY DEF LeaseSafety, PoolOwnership
  <2>5. LeaseCount'
    BY LeaseCountKept
  <2>6. DataIsolation' /\ DeviceIdsUnique'
    BY DEF DataIsolation, DeviceIdsUnique
  <2> QED
    BY <2>1, <2>2, <2>3, <2>4, <2>5, <2>6
<1> QED
  BY <1>1, <1>2

\* The invariant holds in every reachable state of the store, whatever the
\* number of LUNs, blocks, sizes and I/O threads.
THEOREM StoreInvariant == StoreSpec => []StoreInv
  BY StoreInvInit, StoreInvStep, PTL DEF StoreSpec

\* The memory an I/O thread reads and writes outside LunLock is allocated, is the
\* memory of the disk it leased, and stays so until it releases the lease.
THEOREM LeasesAreSafe == StoreSpec => []LeaseSafety
<1>1. StoreInv => LeaseSafety
  BY DEF StoreInv
<1> QED
  BY StoreInvariant, <1>1, PTL

\* The in-flight count of a LUN is the number of leases that are out on it, so the wait of
\* a removal ends exactly when the last of them is released.
THEOREM LeasesAreCounted == StoreSpec => []LeaseCount
<1>1. StoreInv => LeaseCount
  BY DEF StoreInv
<1> QED
  BY StoreInvariant, <1>1, PTL

\* Every block of pool has one owner, on every path of create, delete and drain.
THEOREM MemoryIsOwnedOnce == StoreSpec => []PoolOwnership
<1>1. StoreInv => PoolOwnership
  BY DEF StoreInv
<1> QED
  BY StoreInvariant, <1>1, PTL

\* No disk shows data that was written to another one.
THEOREM DisksAreIsolated == StoreSpec => []DataIsolation
<1>1. StoreInv => DataIsolation
  BY DEF StoreInv
<1> QED
  BY StoreInvariant, <1>1, PTL

\* Device IDs name one disk, across deletes and up to the end of the counter.
THEOREM DeviceIdsAreUnique == StoreSpec => []DeviceIdsUnique
<1>1. StoreInv => DeviceIdsUnique
  BY DEF StoreInv
<1> QED
  BY StoreInvariant, <1>1, PTL

-----------------------------------------------------------------------------
(***************************************************************************)
(* What each step of a call does, for the proofs that build on these.      *)
(***************************************************************************)
\* Any step inside a call.
StoreCall(t) ==
  LockedCallStep(t) \/ UnlockedCallStep(t) \/ FinalizeRemoval(t)

\* Where a step takes a call of thread t, and with which status.
Moves(t, from, to) == call[t].pc = from /\ call'[t].pc = to
Fails(t, from) == Moves(t, from, "returned") /\ call'[t].status # "SUCCESS"
Succeeds(t, from) == Moves(t, from, "returned") /\ call'[t].status = "SUCCESS"

\* Each step of a call moves it along its path, with the request it was entered with.
LEMMA CallMoves ==
  ASSUME StoreTypeOK, NEW t \in Threads
  PROVE  /\ SelectAvailableLun(t) => Moves(t, "select", "allocate") \/ Fails(t, "select")
         /\ AllocateBacking(t) => Moves(t, "allocate", "commit")
         /\ AllocateFails(t) => Fails(t, "allocate")
         /\ CommitNewLun(t) => Succeeds(t, "commit")
         /\ CommitFails(t) => Fails(t, "commit")
         /\ MarkLunStopping(t) => Moves(t, "mark", "wait")
         /\ MarkUnknownDisk(t) => Fails(t, "mark")
         /\ MarkAllLunsStopping(t) => Moves(t, "markAll", "first")
         /\ FirstStoppingLun(t) =>
              \/ Moves(t, "first", "wait")
              \/ Succeeds(t, "first") /\ LunsIn("Stopping") = {}
         /\ WaitForLunIo(t) => Moves(t, "wait", "detach")
         /\ DetachBackingStore(t) => Moves(t, "detach", "free")
         /\ FreeBacking(t) => Moves(t, "free", "finalize")
         /\ FinalizeRemoval(t) =>
              IF t = "teardown" THEN Moves(t, "finalize", "first")
              ELSE Succeeds(t, "finalize")
<1>1. call[t] \in Call /\ call \in [Threads -> Call]
  BY DEF StoreTypeOK
<1> USE <1>1 DEF Moves, Fails, Succeeds, Advance, Return, Call
<1>2. ASSUME SelectAvailableLun(t)
      PROVE  Moves(t, "select", "allocate") \/ Fails(t, "select")
  <2> DEFINE status == SelectStatus(call[t].request.SizeBytes)
             locals == [call[t] EXCEPT !.pc = "allocate", !.lun = First(LunsIn("Empty"))]
  <2>1. /\ call[t].pc = "select"
        /\ Advance(t, locals) \/ (status # "SUCCESS" /\ Return(t, status))
    BY <1>2 DEF SelectAvailableLun
  <2>2. locals.pc = "allocate"
    BY <1>1
  <2> HIDE DEF status, locals, Advance, Return
  <2>3. CASE Advance(t, locals)
    BY <2>1, <2>2, <2>3, LocalsAdvance
  <2>4. CASE status # "SUCCESS" /\ Return(t, status)
    BY <2>1, <2>4, ReturnFields
  <2> QED
    BY <2>1, <2>3, <2>4
<1>3. /\ AllocateBacking(t) => Moves(t, "allocate", "commit")
      /\ AllocateFails(t) => Fails(t, "allocate")
  <2>1. AllocateBacking(t) => Moves(t, "allocate", "commit")
    BY DEF AllocateBacking
  <2>2. AllocateFails(t) => Fails(t, "allocate")
    <3> HIDE DEF Return
    <3> QED  BY ReturnFields DEF AllocateFails
  <2> QED
    BY <2>1, <2>2
<1>4. /\ CommitNewLun(t) => Succeeds(t, "commit")
      /\ CommitFails(t) => Fails(t, "commit")
  <2>1. CommitNewLun(t) => Succeeds(t, "commit")
    BY DEF CommitNewLun
  <2>2. CommitFails(t) => Fails(t, "commit")
    <3> HIDE DEF Return
    <3> QED  BY ReturnFields DEF CommitFails
  <2> QED
    BY <2>1, <2>2
<1>5. /\ MarkLunStopping(t) => Moves(t, "mark", "wait")
      /\ MarkUnknownDisk(t) => Fails(t, "mark")
      /\ MarkAllLunsStopping(t) => Moves(t, "markAll", "first")
  <2>1. MarkLunStopping(t) => Moves(t, "mark", "wait")
    <3> HIDE DEF Fails, Succeeds
    <3> QED  BY DEF MarkLunStopping
  <2>2. MarkUnknownDisk(t) => Fails(t, "mark")
    BY DEF MarkUnknownDisk
  <2>3. MarkAllLunsStopping(t) => Moves(t, "markAll", "first")
    <3> SUFFICES ASSUME MarkAllLunsStopping(t)  PROVE Moves(t, "markAll", "first")
      OBVIOUS
    <3>1. call[t].pc = "markAll" /\ call' = [call EXCEPT ![t] = [call[t] EXCEPT !.pc = "first"]]
      BY DEF MarkAllLunsStopping
    <3> QED  BY <3>1
  <2> QED
    BY <2>1, <2>2, <2>3
<1>6. FirstStoppingLun(t) =>
        \/ Moves(t, "first", "wait")
        \/ Succeeds(t, "first") /\ LunsIn("Stopping") = {}
  <2> DEFINE l == First(LunsIn("Stopping"))
             locals == [call[t] EXCEPT !.pc = "wait", !.lun = l, !.deviceId = luns[l].DeviceId]
  <2> SUFFICES ASSUME FirstStoppingLun(t)
               PROVE  \/ Moves(t, "first", "wait")
                      \/ Succeeds(t, "first") /\ LunsIn("Stopping") = {}
    OBVIOUS
  <2>1. /\ call[t].pc = "first"
        /\ Advance(t, locals) \/ (LunsIn("Stopping") = {} /\ Return(t, "SUCCESS"))
    BY DEF FirstStoppingLun
  <2>2. locals.pc = "wait"
    BY <1>1
  <2> HIDE DEF locals, Advance, Return
  <2>3. CASE Advance(t, locals)
    BY <2>1, <2>2, <2>3, LocalsAdvance
  <2>4. CASE LunsIn("Stopping") = {} /\ Return(t, "SUCCESS")
    BY <2>1, <2>4, ReturnFields
  <2> QED
    BY <2>1, <2>3, <2>4
<1>7. /\ WaitForLunIo(t) => Moves(t, "wait", "detach")
      /\ DetachBackingStore(t) => Moves(t, "detach", "free")
      /\ FreeBacking(t) => Moves(t, "free", "finalize")
  BY DEF WaitForLunIo, DetachBackingStore, FreeBacking
<1>8. FinalizeRemoval(t) =>
        IF t = "teardown" THEN Moves(t, "finalize", "first") ELSE Succeeds(t, "finalize")
  BY DEF FinalizeRemoval
<1> QED
  BY <1>2, <1>3, <1>4, <1>5, <1>6, <1>7, <1>8

\* A step of a call changes the locals of its thread and neither the request nor anything
\* outside the store's own variables.
LEMMA CallFrame ==
  ASSUME StoreTypeOK, NEW t \in Threads, StoreCall(t)
  PROVE  /\ UNCHANGED AdapterStopping
         /\ call[t].pc \notin {"idle", "returned"} /\ call'[t].pc # "idle"
         /\ call'[t].request = call[t].request
         /\ \A u \in Threads \ {t} : call'[u] = call[u]
<1>1. call[t] \in Call /\ call \in [Threads -> Call]
  BY DEF StoreTypeOK
<1>2. UNCHANGED AdapterStopping /\ call[t].pc \notin {"idle", "returned"}
  BY DEF StoreCall, LockedCallStep, UnlockedCallStep, SelectAvailableLun, AllocateBacking,
     AllocateFails, CommitNewLun, CommitFails, MarkLunStopping, MarkUnknownDisk,
     MarkAllLunsStopping, FirstStoppingLun, WaitForLunIo, DetachBackingStore, FreeBacking,
     FinalizeRemoval
<1>4. /\ call'[t].request = call[t].request
      /\ \A u \in Threads \ {t} : call'[u] = call[u]
  <2> USE <1>1 DEF Return, Call, Advance
  <2>1. CASE SelectAvailableLun(t)
    <3> DEFINE locals == [call[t] EXCEPT !.pc = "allocate", !.lun = First(LunsIn("Empty"))]
    <3> HIDE DEF Return, Advance
    <3>1. Advance(t, locals) \/ \E status \in Status : Return(t, status)
      BY <2>1 DEF SelectAvailableLun, SelectStatus, Status
    <3>2. locals.request = call[t].request
      BY <1>1
    <3> HIDE DEF locals
    <3> QED
      BY <3>1, <3>2, LocalsAdvance, ReturnFields
  <2>13. CASE AllocateFails(t)
    <3> HIDE DEF Return
    <3> QED  BY <2>13, ReturnFields DEF AllocateFails
  <2>2. CASE AllocateBacking(t)
    BY <2>2 DEF AllocateBacking
  <2>3. CASE CommitNewLun(t)
    BY <2>3 DEF CommitNewLun
  <2>10. CASE CommitFails(t)
    BY <2>10 DEF CommitFails
  <2>4. CASE MarkLunStopping(t)
    BY <2>4 DEF MarkLunStopping
  <2>5. CASE MarkUnknownDisk(t)
    BY <2>5 DEF MarkUnknownDisk
  <2>6. CASE MarkAllLunsStopping(t)
    <3>1. call' = [call EXCEPT ![t] = [call[t] EXCEPT !.pc = "first"]]
      BY <2>6 DEF MarkAllLunsStopping
    <3> QED  BY <3>1
  <2>7. CASE FirstStoppingLun(t)
    <3> DEFINE l == First(LunsIn("Stopping"))
               locals == [call[t] EXCEPT !.pc = "wait", !.lun = l, !.deviceId = luns[l].DeviceId]
    <3> HIDE DEF Return, Advance
    <3>1. Advance(t, locals) \/ Return(t, "SUCCESS")
      BY <2>7 DEF FirstStoppingLun
    <3>2. locals.request = call[t].request
      BY <1>1
    <3> HIDE DEF locals
    <3> QED
      BY <3>1, <3>2, LocalsAdvance, ReturnFields
  <2>12. CASE WaitForLunIo(t)
    BY <2>12 DEF WaitForLunIo
  <2>8. CASE DetachBackingStore(t)
    BY <2>8 DEF DetachBackingStore
  <2>9. CASE FreeBacking(t)
    BY <2>9 DEF FreeBacking
  <2>11. CASE FinalizeRemoval(t)
    BY <2>11 DEF FinalizeRemoval
  <2> QED
    BY <2>1, <2>2, <2>3, <2>4, <2>5, <2>6, <2>7, <2>8, <2>9, <2>10, <2>11,
       <2>12, <2>13
       DEF StoreCall, LockedCallStep, UnlockedCallStep
<1>5. call'[t].pc # "idle"
  BY CallMoves DEF StoreCall, LockedCallStep, UnlockedCallStep, Moves, Fails, Succeeds
<1> QED
  BY <1>2, <1>4, <1>5

\* What the step does to the state and the identity of each LUN.
SameIdentity(l) ==
  /\ luns'[l].State = luns[l].State /\ luns'[l].DeviceId = luns[l].DeviceId
  /\ luns'[l].CreateOperationId = luns[l].CreateOperationId

\* Leases, detaching and the steps that only look leave every LUN what it is.
LEMMA IdentitiesKept ==
  ASSUME StoreTypeOK,
         \/ \E t \in Threads :
              \/ SelectAvailableLun(t) \/ AllocateBacking(t) \/ AllocateFails(t)
              \/ CommitFails(t) \/ MarkUnknownDisk(t) \/ FirstStoppingLun(t)
              \/ WaitForLunIo(t) \/ DetachBackingStore(t) \/ FreeBacking(t)
         \/ \E i \in IoThreads : IoStep(i)
  PROVE  UNCHANGED NextDeviceId /\ \A l \in Luns : SameIdentity(l)
<1> USE DEF SameIdentity
<1>1. luns \in [Luns -> Lun]
  BY DEF StoreTypeOK
<1>2. ASSUME NEW t \in Threads, DetachBackingStore(t)
      PROVE  UNCHANGED NextDeviceId /\ \A l \in Luns : SameIdentity(l)
  BY <1>1, <1>2 DEF DetachBackingStore, Lun
<1>3. ASSUME NEW i \in IoThreads, NEW k \in Luns, AcquireLunIo(i, k)
      PROVE  UNCHANGED NextDeviceId /\ \A l \in Luns : SameIdentity(l)
  BY <1>1, <1>3 DEF AcquireLunIo, WithLease, Lun
<1>4. ASSUME NEW i \in IoThreads, ReleaseLunIo(i)
      PROVE  UNCHANGED NextDeviceId /\ \A l \in Luns : SameIdentity(l)
  BY <1>1, <1>4 DEF ReleaseLunIo, WithoutLease, Lun
<1>5. ASSUME NEW t \in Threads,
             \/ SelectAvailableLun(t) \/ AllocateBacking(t) \/ AllocateFails(t)
             \/ CommitFails(t) \/ MarkUnknownDisk(t) \/ FirstStoppingLun(t)
             \/ WaitForLunIo(t) \/ FreeBacking(t)
      PROVE  UNCHANGED NextDeviceId /\ \A l \in Luns : SameIdentity(l)
  BY <1>5 DEF SelectAvailableLun, AllocateBacking, AllocateFails, CommitFails,
     MarkUnknownDisk, FirstStoppingLun, WaitForLunIo, FreeBacking
<1>6. ASSUME NEW i \in IoThreads, WriteBacking(i)
      PROVE  UNCHANGED NextDeviceId /\ \A l \in Luns : SameIdentity(l)
  BY <1>6 DEF WriteBacking
<1> QED
  BY <1>2, <1>3, <1>4, <1>5, <1>6 DEF IoStep

\* The steps that make, mark and remove disks.
LEMMA IdentityChanges ==
  ASSUME StoreInv, NEW t \in Threads
  PROVE  /\ CommitNewLun(t) =>
              LET l == call[t].lun IN
                /\ l \in Luns /\ luns[l].State = "Empty" /\ NextDeviceId # 0
                /\ luns'[l].State = "Online" /\ luns'[l].DeviceId = NextDeviceId
                /\ luns'[l].CreateOperationId = 0
                /\ \A k \in Luns \ {l} : luns'[k] = luns[k]
                /\ NextDeviceId' = IF NextDeviceId + 1 = DeviceIdModulus THEN 0
                                   ELSE NextDeviceId + 1
                /\ call'[t].lun = l /\ call'[t].deviceId = NextDeviceId
         /\ MarkLunStopping(t) =>
              \E l \in Luns :
                /\ luns[l].State = "Online" /\ luns'[l].State = "Stopping"
                /\ luns'[l].DeviceId = luns[l].DeviceId
                /\ luns'[l].CreateOperationId = luns[l].CreateOperationId
                /\ \A k \in Luns \ {l} : luns'[k] = luns[k]
                /\ UNCHANGED NextDeviceId
         /\ MarkAllLunsStopping(t) =>
              /\ UNCHANGED NextDeviceId
              /\ \A l \in Luns :
                   /\ luns'[l].State = IF luns[l].State = "Online" THEN "Stopping"
                                       ELSE luns[l].State
                   /\ luns'[l].DeviceId = luns[l].DeviceId
                   /\ luns'[l].CreateOperationId = luns[l].CreateOperationId
         /\ FinalizeRemoval(t) =>
              LET l == call[t].lun IN
                /\ l \in Luns /\ luns[l].State = "Stopping"
                /\ luns[l].DeviceId = call[t].deviceId
                /\ luns'[l].State = "Empty" /\ luns'[l].CreateOperationId = 0
                /\ \A k \in Luns \ {l} : luns'[k] = luns[k]
                /\ UNCHANGED NextDeviceId /\ call'[t].deviceId = call[t].deviceId
<1> USE DEF StoreInv, StoreTypeOK
<1>1. call[t] \in Call /\ call[t].lun \in Luns /\ luns \in [Luns -> Lun] /\ CallKnows(t)
  BY DEF Call, CallsKnow
<1>2. ASSUME CommitNewLun(t)
      PROVE  LET l == call[t].lun IN
                /\ l \in Luns /\ luns[l].State = "Empty" /\ NextDeviceId # 0
                /\ luns'[l].State = "Online" /\ luns'[l].DeviceId = NextDeviceId
                /\ luns'[l].CreateOperationId = 0
                /\ \A k \in Luns \ {l} : luns'[k] = luns[k]
                /\ NextDeviceId' = IF NextDeviceId + 1 = DeviceIdModulus THEN 0
                                   ELSE NextDeviceId + 1
                /\ call'[t].lun = l /\ call'[t].deviceId = NextDeviceId
  <2>1. luns[call[t].lun].State = "Empty" /\ NextDeviceId # 0
    BY <1>2 DEF CommitNewLun, CommitStatus
  <2>2. NextDeviceId' = IF NextDeviceId + 1 = DeviceIdModulus THEN 0 ELSE NextDeviceId + 1
    <3>1. NextDeviceId \in 0..(DeviceIdModulus - 1)
      BY DEF DeviceIds
    <3> QED
      BY <1>2, <3>1, FollowingIdRange, ModulusAssumption DEF CommitNewLun
  <2>3. /\ luns'[call[t].lun] = CommittedLun(t)
        /\ \A k \in Luns \ {call[t].lun} : luns'[k] = luns[k]
    BY <1>1, <1>2 DEF CommitNewLun
  <2>4. call'[t].lun = call[t].lun /\ call'[t].deviceId = NextDeviceId
    BY <1>1, <1>2 DEF CommitNewLun, Advance, Call
  <2> QED
    BY <1>1, <2>1, <2>2, <2>3, <2>4 DEF CommittedLun
<1>3. ASSUME MarkLunStopping(t)
      PROVE  \E l \in Luns :
                /\ luns[l].State = "Online" /\ luns'[l].State = "Stopping"
                /\ luns'[l].DeviceId = luns[l].DeviceId
                /\ luns'[l].CreateOperationId = luns[l].CreateOperationId
                /\ \A k \in Luns \ {l} : luns'[k] = luns[k]
                /\ UNCHANGED NextDeviceId
  <2> DEFINE l == First(OnlineWithId(call[t].deviceId))
  <2>1. l \in OnlineWithId(call[t].deviceId)
    BY <1>3, FirstIsLeast, InitialTypes DEF MarkLunStopping, OnlineWithId
  <2>2. l \in Luns /\ luns[l].State = "Online" /\ luns[l] \in Lun
    BY <1>1, <2>1 DEF OnlineWithId
  <2>3. luns' = [luns EXCEPT ![l].State = "Stopping"] /\ UNCHANGED NextDeviceId
    BY <1>3 DEF MarkLunStopping
  <2> HIDE DEF l
  <2> QED
    BY <1>1, <2>2, <2>3 DEF Lun
<1>4. ASSUME MarkAllLunsStopping(t)
      PROVE  /\ UNCHANGED NextDeviceId
             /\ \A l \in Luns :
                  /\ luns'[l].State = IF luns[l].State = "Online" THEN "Stopping"
                                      ELSE luns[l].State
                  /\ luns'[l].DeviceId = luns[l].DeviceId
                  /\ luns'[l].CreateOperationId = luns[l].CreateOperationId
  BY <1>1, <1>4 DEF MarkAllLunsStopping, Lun
<1>5. ASSUME FinalizeRemoval(t)
      PROVE  LET l == call[t].lun IN
                /\ l \in Luns /\ luns[l].State = "Stopping"
                /\ luns[l].DeviceId = call[t].deviceId
                /\ luns'[l].State = "Empty" /\ luns'[l].CreateOperationId = 0
                /\ \A k \in Luns \ {l} : luns'[k] = luns[k]
                /\ UNCHANGED NextDeviceId /\ call'[t].deviceId = call[t].deviceId
  <2>1. luns[call[t].lun].State = "Stopping" /\ luns[call[t].lun].DeviceId = call[t].deviceId
    BY <1>1, <1>5 DEF FinalizeRemoval, CallKnows
  <2>2. /\ luns'[call[t].lun] = FinalizedLun(call[t].lun)
        /\ \A k \in Luns \ {call[t].lun} : luns'[k] = luns[k]
        /\ UNCHANGED NextDeviceId
    BY <1>1, <1>5 DEF FinalizeRemoval
  <2>3. call'[t].deviceId = call[t].deviceId
    BY <1>1, <1>5 DEF FinalizeRemoval, Advance, Call
  <2> QED
    BY <1>1, <2>1, <2>2, <2>3 DEF FinalizedLun, Lun
<1> QED
  BY <1>2, <1>3, <1>4, <1>5

-----------------------------------------------------------------------------
(***************************************************************************)
(* The accounting: TotalAllocatedBytes is the sum over the LUN table and   *)
(* the pool never holds more than the cap, for every size of the table and *)
(* of the pool.  The sum is a fold; its lemmas are proved by the least     *)
(* counterexample, since the least element of a set of numbers is a fact   *)
(* the provers can use where an induction rule is not.                     *)
(***************************************************************************)

(***************************************************************************)
(* Sums of a function's values.                                            *)
(***************************************************************************)
\* The member that a fold takes next.
Pick(s) == CHOOSE x \in s : TRUE

\* g holds the sum of f over every set of sets.
Partial(g, f, sets) ==
  g = [s \in sets |-> IF s = {} THEN 0 ELSE f[Pick(s)] + g[s \ {Pick(s)}]]

\* The sum is the last of the partial sums.
LEMMA SumIsPartial ==
  ASSUME NEW S, NEW f \in [S -> Nat]
  PROVE  SumFunction(f) = (CHOOSE g : Partial(g, f, SUBSET S))[S]
<1>1. DOMAIN f = S
  OBVIOUS
<1> QED
  BY <1>1 DEF SumFunction, SumFunctionOnSet, FoldFunctionOnSet, MapThenFoldSet, Partial, Pick

\* Taking a member leaves a smaller set.
LEMMA PickTakes ==
  ASSUME NEW S, IsFiniteSet(S), NEW s \in SUBSET S, s # {}
  PROVE  /\ Pick(s) \in s /\ s \ {Pick(s)} \in SUBSET S
         /\ Cardinality(s) \in Nat \ {0} /\ Cardinality(s \ {Pick(s)}) = Cardinality(s) - 1
<1>1. Pick(s) \in s
  BY DEF Pick
<1>2. IsFiniteSet(s) /\ Cardinality(s) \in Nat
  BY FS_Subset, FS_CardinalityType
<1>3. Cardinality(s) # 0
  BY <1>2, FS_EmptySet
<1>4. Cardinality(s \ {Pick(s)}) = Cardinality(s) - 1
  BY <1>1, <1>2, FS_RemoveElement
<1> QED
  BY <1>1, <1>2, <1>3, <1>4

\* A finite function has its partial sums.
LEMMA PartialExists ==
  ASSUME NEW S, IsFiniteSet(S), NEW f \in [S -> Nat]
  PROVE  \E g : Partial(g, f, SUBSET S)
<1> DEFINE Upto(n) == {s \in SUBSET S : Cardinality(s) <= n}
           Bad == {n \in Nat : ~\E g : Partial(g, f, Upto(n))}
<1>1. \A s \in SUBSET S : Cardinality(s) \in Nat
  BY FS_Subset, FS_CardinalityType
<1>2. ASSUME Bad # {}
      PROVE  FALSE
  <2>1. PICK n \in Bad : \A k \in Bad : n <= k
    BY <1>2, FirstIsLeast
  <2>2. n # 0
    <3>1. ASSUME NEW s \in Upto(0)
          PROVE  s = {}
      <4>1. s # {} => Cardinality(s) \in Nat \ {0}
        BY PickTakes
      <4> QED
        BY <4>1
    <3>2. Partial([s \in Upto(0) |-> 0], f, Upto(0))
      BY <3>1 DEF Partial
    <3> QED
      BY <2>1, <3>2
  <2>3. n - 1 \in Nat /\ n - 1 \notin Bad
    <3>1. n \in Nat
      BY <2>1
    <3> HIDE DEF Bad
    <3> QED
      BY <2>1, <2>2, <3>1
  <2>4. PICK g : Partial(g, f, Upto(n - 1))
    BY <2>3
  <2> DEFINE h == [s \in Upto(n) |-> IF s = {} THEN 0 ELSE f[Pick(s)] + g[s \ {Pick(s)}]]
  <2>5. ASSUME NEW s \in Upto(n), s # {}
        PROVE  h[s] = f[Pick(s)] + h[s \ {Pick(s)}]
    <3>1. s \ {Pick(s)} \in Upto(n - 1) /\ s \ {Pick(s)} \in Upto(n)
      BY <2>3, <2>5, PickTakes
    <3>2. ASSUME NEW r \in Upto(n - 1), r \in Upto(n)
          PROVE  h[r] = g[r]
      BY <2>4, <3>2 DEF Partial
    <3> QED
      BY <2>5, <3>1, <3>2
  <2>6. h = [s \in Upto(n) |-> IF s = {} THEN 0 ELSE f[Pick(s)] + h[s \ {Pick(s)}]]
    BY <2>5
  <2>7. Partial(h, f, Upto(n))
    BY <2>6 DEF Partial
  <2> QED
    BY <2>1, <2>7
<1>3. Cardinality(S) \in Nat /\ Upto(Cardinality(S)) = SUBSET S
  <2>1. \A s \in SUBSET S : Cardinality(s) <= Cardinality(S)
    BY FS_Subset
  <2> QED
    BY <2>1, FS_CardinalityType
<1> QED
  BY <1>2, <1>3

\* F holds the partial sums of f on S, the last of which is its sum.
Sums(F, f, S) ==
  /\ SumFunction(f) = F[S] /\ F[{}] = 0
  /\ \A s \in SUBSET S : s # {} => F[s] = f[Pick(s)] + F[s \ {Pick(s)}]

\* They exist.
LEMMA PartialSums ==
  ASSUME NEW S, IsFiniteSet(S), NEW f \in [S -> Nat]
  PROVE  \E F : Sums(F, f, S)
<1> DEFINE F == CHOOSE g : Partial(g, f, SUBSET S)
<1>1. Partial(F, f, SUBSET S)
  BY PartialExists
<1>2. SumFunction(f) = F[S]
  BY SumIsPartial
<1> HIDE DEF F
<1> QED
  BY <1>1, <1>2 DEF Partial, Sums

\* A sum of naturals is one, and changing one value changes the sum by as much.
LEMMA SumChange ==
  ASSUME NEW S, IsFiniteSet(S), NEW f \in [S -> Nat], NEW g \in [S -> Nat], NEW k \in S,
         \A x \in S \ {k} : g[x] = f[x]
  PROVE  SumFunction(f) \in Nat /\ SumFunction(g) = SumFunction(f) + g[k] - f[k]
<1>1. PICK F : Sums(F, f, S)
  BY PartialSums
<1>2. PICK G : Sums(G, g, S)
  BY PartialSums
<1> DEFINE Good(s) == F[s] \in Nat /\ G[s] = F[s] + (IF k \in s THEN g[k] - f[k] ELSE 0)
           Bad == {n \in Nat : \E s \in SUBSET S : Cardinality(s) = n /\ ~Good(s)}
<1>3. ASSUME Bad # {}
      PROVE  FALSE
  <2>1. PICK n \in Bad : \A m \in Bad : n <= m
    BY <1>3, FirstIsLeast
  <2>2. PICK s \in SUBSET S : Cardinality(s) = n /\ ~Good(s)
    BY <2>1
  <2>3. s # {}
    <3>1. F[{}] = 0 /\ G[{}] = 0
      BY <1>1, <1>2 DEF Sums
    <3>2. Good({})
      BY <3>1
    <3> HIDE DEF Good
    <3> QED
      BY <2>2, <3>2
  <2> DEFINE x == Pick(s)
             r == s \ {x}
  <2>4. x \in s /\ r \in SUBSET S /\ n \in Nat \ {0} /\ Cardinality(r) = n - 1
    BY <2>2, <2>3, PickTakes
  <2>5. Good(r)
    BY <2>1, <2>4
  <2>6. F[s] = f[x] + F[r] /\ G[s] = g[x] + G[r]
    BY <1>1, <1>2, <2>3 DEF Sums
  <2> HIDE DEF x
  <2>7. CASE x = k
    BY <2>2, <2>4, <2>5, <2>6, <2>7
  <2>8. CASE x # k
    BY <2>2, <2>4, <2>5, <2>6, <2>8
  <2> QED
    BY <2>7, <2>8
<1>4. Cardinality(S) \in Nat
  BY FS_CardinalityType
<1>5. Good(S)
  BY <1>3, <1>4
<1> QED
  BY <1>1, <1>2, <1>5 DEF Sums

\* A value is at most the sum.
LEMMA SumBounds ==
  ASSUME NEW S, IsFiniteSet(S), NEW f \in [S -> Nat], NEW k \in S
  PROVE  f[k] <= SumFunction(f)
<1> DEFINE g == [f EXCEPT ![k] = 0]
<1>1. g \in [S -> Nat] /\ g[k] = 0 /\ \A x \in S \ {k} : g[x] = f[x]
  OBVIOUS
<1> HIDE DEF g
<1>2. SumFunction(f) \in Nat /\ SumFunction(g) = SumFunction(f) + g[k] - f[k]
  BY <1>1, SumChange
<1>3. SumFunction(g) \in Nat
  BY <1>1, SumChange
<1>4. f[k] \in Nat
  OBVIOUS
<1> QED
  BY <1>1, <1>2, <1>3, <1>4

\* Nothing adds up to nothing.
LEMMA SumZero ==
  ASSUME NEW S, IsFiniteSet(S), NEW f \in [S -> Nat], \A x \in S : f[x] = 0
  PROVE  SumFunction(f) = 0
<1>1. PICK F : Sums(F, f, S)
  BY PartialSums
<1> DEFINE Bad == {n \in Nat : \E s \in SUBSET S : Cardinality(s) = n /\ F[s] # 0}
<1>2. ASSUME Bad # {}
      PROVE  FALSE
  <2>1. PICK n \in Bad : \A m \in Bad : n <= m
    BY <1>2, FirstIsLeast
  <2>2. PICK s \in SUBSET S : Cardinality(s) = n /\ F[s] # 0
    BY <2>1
  <2>3. s # {}
    BY <1>1, <2>2 DEF Sums
  <2> DEFINE r == s \ {Pick(s)}
  <2>4. Pick(s) \in S /\ r \in SUBSET S /\ n \in Nat \ {0} /\ Cardinality(r) = n - 1
    BY <2>2, <2>3, PickTakes
  <2>5. F[r] = 0
    BY <2>1, <2>4
  <2>6. F[s] = f[Pick(s)] + F[r]
    BY <1>1, <2>3 DEF Sums
  <2> QED
    BY <2>2, <2>4, <2>5, <2>6
<1>3. Cardinality(S) \in Nat
  BY FS_CardinalityType
<1> QED
  BY <1>1, <1>2, <1>3 DEF Sums

-----------------------------------------------------------------------------
(***************************************************************************)
(* The accounting.                                                         *)
(***************************************************************************)
SizesOf == [l \in Luns |-> luns[l].SizeBytes]

\* What a call in progress has allocated and not counted yet, or freed and not
\* discounted yet.
Uncounted(t) ==
  IF call[t].pc = "commit" THEN call[t].request.SizeBytes
  ELSE IF call[t].pc = "finalize" THEN 0 - luns[call[t].lun].SizeBytes
  ELSE 0

\* The counter is the sum over the table; the pool holds as much, but for the call in
\* progress.
Books ==
  /\ TotalAllocatedBytes = SumFunction(SizesOf)
  /\ SumFunction(pool) = TotalAllocatedBytes + Uncounted("worker") + Uncounted("teardown")

\* The quota that SelectAvailableLun checked still has room when CommitNewLun counts.
Room ==
  /\ TotalAllocatedBytes <= MaximumTotalBytes
  /\ \A t \in Threads : call[t].pc \in {"allocate", "commit"} =>
       TotalAllocatedBytes + call[t].request.SizeBytes <= MaximumTotalBytes

\* A LUN counts exactly while it has a disk, and its memory is its own until the removal
\* has detached it, of the size that is counted.
Counted ==
  /\ \A l \in Luns : luns[l].State = "Empty" => luns[l].SizeBytes = 0
  /\ \A l \in Luns : luns[l].State # "Empty" =>
       \/ luns[l].BackingStore # NoBlock
       \/ \E t \in Threads : call[t].lun = l /\ call[t].pc \in {"free", "finalize"}
  /\ \A t \in Threads : call[t].pc = "free" =>
       call[t].backing \in Blocks /\ pool[call[t].backing] = luns[call[t].lun].SizeBytes

Accounting == Books /\ Room /\ Counted

\* The sums are over finite sets of naturals.
LEMMA SumTypes ==
  ASSUME StoreTypeOK
  PROVE  /\ IsFiniteSet(Luns) /\ IsFiniteSet(Blocks)
         /\ SizesOf \in [Luns -> Nat] /\ pool \in [Blocks -> Nat]
         /\ \A l \in Luns : SizesOf[l] = luns[l].SizeBytes
         /\ \A t \in Threads : call[t] \in Call /\ call[t].request.SizeBytes \in Nat
         /\ SumFunction(SizesOf) \in Nat
<1>1. IsFiniteSet(Luns) /\ IsFiniteSet(Blocks)
  BY FS_Interval, DiskCountAssumption, BlocksAssumption DEF Luns
<1>2. \A x \in Sizes \cup {0} : x \in Nat
  BY InitialTypes
<1>3. SizesOf \in [Luns -> Nat] /\ \A l \in Luns : SizesOf[l] = luns[l].SizeBytes
  BY <1>2 DEF StoreTypeOK, SizesOf, Lun
<1>4. pool \in [Blocks -> Nat]
  BY <1>2 DEF StoreTypeOK
<1>5. \A t \in Threads : call[t] \in Call /\ call[t].request.SizeBytes \in Nat
  BY <1>2 DEF StoreTypeOK, Call, CreateOrNone, CreateRequest, NoCreate
<1>6. SumFunction(SizesOf) \in Nat
  BY <1>1, <1>3, InitialTypes, SumChange
<1> QED
  BY <1>1, <1>3, <1>4, <1>5, <1>6

\* The same, after a step.
LEMMA NextSumTypes ==
  ASSUME StoreTypeOK'
  PROVE  /\ SizesOf' \in [Luns -> Nat] /\ pool' \in [Blocks -> Nat]
         /\ \A l \in Luns : SizesOf'[l] = luns'[l].SizeBytes
         /\ \A t \in Threads : call'[t] \in Call /\ call'[t].request.SizeBytes \in Nat
<1>1. \A x \in Sizes \cup {0} : x \in Nat
  BY InitialTypes
<1>2. SizesOf' \in [Luns -> Nat] /\ \A l \in Luns : SizesOf'[l] = luns'[l].SizeBytes
  BY <1>1 DEF StoreTypeOK, SizesOf, Lun
<1>3. pool' \in [Blocks -> Nat]
  BY <1>1 DEF StoreTypeOK
<1>4. \A t \in Threads : call'[t] \in Call /\ call'[t].request.SizeBytes \in Nat
  BY <1>1 DEF StoreTypeOK, Call, CreateOrNone, CreateRequest, NoCreate
<1> QED
  BY <1>2, <1>3, <1>4

\* A zeroed extension and an empty pool add up.
LEMMA AccountingInit == StoreInit => Accounting
<1> SUFFICES ASSUME StoreInit  PROVE Accounting
  OBVIOUS
<1>1. StoreTypeOK
  BY TypeCorrectInit
<1>2. /\ \A l \in Luns : luns[l] = ZeroedLun
      /\ \A b \in Blocks : pool[b] = 0
      /\ \A t \in Threads : call[t].pc = "idle"
      /\ TotalAllocatedBytes = 0
  BY DEF StoreInit, NoCall
<1>3. SumFunction(SizesOf) = 0
  BY <1>1, <1>2, SumTypes, SumZero DEF ZeroedLun
<1>4. SumFunction(pool) = 0
  BY <1>1, <1>2, SumTypes, SumZero
<1>5. Books
  BY <1>2, <1>3, <1>4 DEF Books, Uncounted, Threads
<1>6. Room /\ Counted
  BY <1>2, SizesAssumption DEF Room, Counted, ZeroedLun
<1> QED
  BY <1>5, <1>6 DEF Accounting

\* Steps that neither size a LUN nor touch the pool keep the books.
LEMMA AccountingKept ==
  ASSUME StoreTypeOK, StoreTypeOK', Accounting, UNCHANGED <<pool, TotalAllocatedBytes>>,
         \A l \in Luns :
           /\ luns'[l].SizeBytes = luns[l].SizeBytes
           /\ luns'[l].BackingStore = luns[l].BackingStore
           /\ luns'[l].State = "Empty" <=> luns[l].State = "Empty",
         \A t \in Threads :
           \/ call'[t] = call[t]
           \/ /\ call[t].pc \notin {"commit", "free", "finalize"}
              /\ call'[t].pc \notin {"commit", "free", "finalize"}
              /\ call'[t].pc = "allocate" =>
                   TotalAllocatedBytes + call'[t].request.SizeBytes <= MaximumTotalBytes
  PROVE  Accounting'
<1> USE DEF Accounting
<1>1. SizesOf' = SizesOf
  BY DEF SizesOf
<1>2. ASSUME NEW t \in Threads
      PROVE  Uncounted(t)' = Uncounted(t)
  <2>1. call[t] \in Call /\ call[t].lun \in Luns
    BY SumTypes DEF Call
  <2> QED
    BY <2>1 DEF Uncounted
<1>3. Books'
  BY <1>1, <1>2 DEF Books, Threads
<1>4. Room'
  BY DEF Room
<1>5. Counted'
  <2>1. \A t \in Threads : call[t].lun \in Luns
    BY SumTypes DEF Call
  <2>2. \A l \in Luns : luns'[l].State = "Empty" => luns'[l].SizeBytes = 0
    BY DEF Counted
  <2>3. \A t \in Threads : call'[t].pc = "free" => call'[t] = call[t]
    OBVIOUS
  <2>4. \A t \in Threads : call'[t].pc = "free" =>
          call'[t].backing \in Blocks /\ pool'[call'[t].backing] = luns'[call'[t].lun].SizeBytes
    BY <2>1, <2>3 DEF Counted
  <2>5. \A t \in Threads : call[t].pc \in {"free", "finalize"} => call'[t] = call[t]
    OBVIOUS
  <2>6. \A l \in Luns : luns'[l].State # "Empty" =>
          \/ luns'[l].BackingStore # NoBlock
          \/ \E t \in Threads : call'[t].lun = l /\ call'[t].pc \in {"free", "finalize"}
    BY <2>5 DEF Counted
  <2> QED
    BY <2>2, <2>4, <2>6 DEF Counted
<1> QED
  BY <1>3, <1>4, <1>5

\* Inside a call the other thread has nothing uncounted.
LEMMA OnlyCaller ==
  ASSUME StoreTypeOK, StoreTypeOK', SingleCall, NEW t \in Threads, StoreCall(t)
  PROVE  /\ \A u \in Threads \ {t} : call[u].pc = "idle" /\ call'[u] = call[u]
         /\ Books => SumFunction(pool) = TotalAllocatedBytes + Uncounted(t)
         /\ /\ TotalAllocatedBytes' = SumFunction(SizesOf')
            /\ SumFunction(pool') = TotalAllocatedBytes' + Uncounted(t)'
            => Books'
<1>1. \A u \in Threads \ {t} : call[u].pc = "idle" /\ call'[u] = call[u]
  BY CallFrame DEF SingleCall
<1>2. \A u \in Threads \ {t} : Uncounted(u) = 0 /\ Uncounted(u)' = 0
  BY <1>1 DEF Uncounted
<1>3. \A u \in Threads : Uncounted(u) \in Int /\ Uncounted(u)' \in Int
  <2>1. \A u \in Threads : call[u].lun \in Luns /\ call'[u].lun \in Luns
    BY SumTypes, NextSumTypes DEF Call
  <2>2. \A l \in Luns : luns[l].SizeBytes \in Nat /\ luns'[l].SizeBytes \in Nat
    BY SumTypes, NextSumTypes
  <2>3. \A u \in Threads : call[u].request.SizeBytes \in Nat /\ call'[u].request.SizeBytes \in Nat
    BY SumTypes, NextSumTypes
  <2> QED
    BY <2>1, <2>2, <2>3 DEF Uncounted
<1>4. TotalAllocatedBytes \in Nat /\ TotalAllocatedBytes' \in Nat
  BY DEF StoreTypeOK
<1>5. CASE t = "worker"
  BY <1>1, <1>2, <1>3, <1>4, <1>5 DEF Books, Threads
<1>6. CASE t = "teardown"
  BY <1>1, <1>2, <1>3, <1>4, <1>6 DEF Books, Threads
<1> QED
  BY <1>5, <1>6 DEF Threads

\* The steps outside calls neither size a LUN nor touch the pool; a new instance starts
\* from an empty table.
LEMMA AccountingOutsideCalls ==
  ASSUME StoreInv, StoreInv', Accounting,
         \/ \E stopping \in BOOLEAN : SetStopping(stopping)
         \/ Reinitialize \/ StartCall \/ (\E t \in Threads : EndCall(t))
         \/ (\E i \in IoThreads : IoStep(i)) \/ UNCHANGED storeVars
  PROVE  Accounting'
<1> USE DEF StoreInv
<1>0. call \in [Threads -> Call] /\ luns \in [Luns -> Lun]
  BY DEF StoreTypeOK
<1>1. CASE (\E stopping \in BOOLEAN : SetStopping(stopping)) \/ UNCHANGED storeVars
  BY <1>1, AccountingKept DEF SetStopping, storeVars
<1>2. CASE Reinitialize
  <2>1. /\ UNCHANGED <<pool, call>> /\ TotalAllocatedBytes' = 0
        /\ \A l \in Luns : luns[l].State = "Empty" /\ luns'[l] = ZeroedLun
        /\ \A t \in Threads : call[t].pc = "idle"
    BY <1>2 DEF Reinitialize, InitializeStore, Exclusive
  <2>2. SumFunction(SizesOf) = 0
    BY <2>1, SumTypes, SumZero DEF Accounting, Counted
  <2>3. SumFunction(SizesOf') = 0
    BY <2>1, SumTypes, NextSumTypes, SumZero DEF ZeroedLun
  <2>4. SumFunction(pool) = 0
    BY <2>1, <2>2 DEF Accounting, Books, Uncounted, Threads
  <2>5. Books'
    BY <2>1, <2>3, <2>4 DEF Books, Uncounted, Threads
  <2>6. Room' /\ Counted'
    BY <2>1, SizesAssumption DEF Room, Counted, ZeroedLun
  <2> QED
    BY <2>5, <2>6 DEF Accounting
<1>3. CASE StartCall
  <2>1. /\ UNCHANGED <<luns, pool, TotalAllocatedBytes>>
        /\ \A t \in Threads : call[t].pc = "idle"
    BY <1>3 DEF StartCall, Exclusive
  <2>2. \A t \in Threads : call'[t] = call[t] \/ call'[t].pc \in {"select", "mark", "markAll"}
    BY <1>0, <1>3 DEF StartCall, BeginCreate, BeginDelete, BeginDrain, Enter, Advance, NoCall
  <2> QED
    BY <2>1, <2>2, AccountingKept
<1>4. ASSUME NEW t \in Threads, EndCall(t)
      PROVE  Accounting'
  <2>1. /\ UNCHANGED <<pool, TotalAllocatedBytes>> /\ call[t].pc = "returned"
        /\ call'[t].pc = "idle" /\ \A u \in Threads \ {t} : call'[u] = call[u]
    BY <1>0, <1>4 DEF EndCall, Collect, Advance, NoCall
  <2>2. \A l \in Luns : /\ luns'[l].SizeBytes = luns[l].SizeBytes
                        /\ luns'[l].BackingStore = luns[l].BackingStore
                        /\ luns'[l].State = luns[l].State
    <3>1. CASE UNCHANGED luns
      BY <3>1
    <3>2. ASSUME NEW operation, NEW k, luns' = [luns EXCEPT ![k].CreateOperationId = operation]
          PROVE  \A l \in Luns : /\ luns'[l].SizeBytes = luns[l].SizeBytes
                                 /\ luns'[l].BackingStore = luns[l].BackingStore
                                 /\ luns'[l].State = luns[l].State
      BY <1>0, <3>2 DEF Lun
    <3> QED
      BY <1>4, <3>1, <3>2 DEF EndCall, BindCreateOperation
  <2> QED
    BY <2>1, <2>2, AccountingKept
<1>5. ASSUME NEW i \in IoThreads, IoStep(i)
      PROVE  Accounting'
  <2>1. UNCHANGED <<pool, TotalAllocatedBytes, call>>
    BY <1>5 DEF IoStep, AcquireLunIo, WriteBacking, ReleaseLunIo
  <2>2. \A l \in Luns : /\ luns'[l].SizeBytes = luns[l].SizeBytes
                        /\ luns'[l].BackingStore = luns[l].BackingStore
                        /\ luns'[l].State = luns[l].State
    <3>1. ASSUME NEW k \in Luns, AcquireLunIo(i, k)
          PROVE  \A l \in Luns : /\ luns'[l].SizeBytes = luns[l].SizeBytes
                                 /\ luns'[l].BackingStore = luns[l].BackingStore
                                 /\ luns'[l].State = luns[l].State
      BY <1>0, <3>1 DEF AcquireLunIo, WithLease, Lun
    <3>2. CASE ReleaseLunIo(i)
      BY <1>0, <3>2 DEF ReleaseLunIo, WithoutLease, Lun
    <3>3. CASE WriteBacking(i)
      BY <3>3 DEF WriteBacking
    <3> QED
      BY <1>5, <3>1, <3>2, <3>3 DEF IoStep
  <2> QED
    BY <2>1, <2>2, AccountingKept
<1> QED
  BY <1>1, <1>2, <1>3, <1>4, <1>5

\* The steps of a call that only look, mark or wait.
LEMMA AccountingQuietCall ==
  ASSUME StoreInv, StoreInv', Accounting, NEW t \in Threads,
         \/ SelectAvailableLun(t) \/ AllocateFails(t) \/ MarkLunStopping(t) \/ MarkUnknownDisk(t)
         \/ MarkAllLunsStopping(t) \/ FirstStoppingLun(t) \/ WaitForLunIo(t)
  PROVE  Accounting'
<1> USE DEF StoreInv
<1>0. call \in [Threads -> Call] /\ luns \in [Luns -> Lun]
  BY DEF StoreTypeOK
<1>1. StoreCall(t)
  BY DEF StoreCall, LockedCallStep, UnlockedCallStep
<1>2. \A u \in Threads \ {t} : call'[u] = call[u]
  BY <1>1, CallFrame
<1>3. UNCHANGED <<pool, TotalAllocatedBytes>>
  BY DEF SelectAvailableLun, AllocateFails, MarkLunStopping, MarkUnknownDisk,
     MarkAllLunsStopping, FirstStoppingLun, WaitForLunIo
<1>4. \A l \in Luns : /\ luns'[l].SizeBytes = luns[l].SizeBytes
                      /\ luns'[l].BackingStore = luns[l].BackingStore
                      /\ luns'[l].State = "Empty" <=> luns[l].State = "Empty"
  <2>1. CASE MarkLunStopping(t)
    <3>1. PICK l \in Luns : /\ luns[l].State = "Online"
                            /\ luns' = [luns EXCEPT ![l].State = "Stopping"]
      <4> DEFINE l == First(OnlineWithId(call[t].deviceId))
      <4>1. l \in OnlineWithId(call[t].deviceId)
        BY <2>1, FirstIsLeast, InitialTypes DEF MarkLunStopping, OnlineWithId
      <4> QED
        BY <2>1, <4>1 DEF MarkLunStopping, OnlineWithId
    <3> QED
      BY <1>0, <3>1 DEF Lun
  <2>2. CASE MarkAllLunsStopping(t)
    BY <1>0, <2>2 DEF MarkAllLunsStopping, Lun
  <2>3. CASE \/ SelectAvailableLun(t) \/ AllocateFails(t) \/ MarkUnknownDisk(t)
             \/ FirstStoppingLun(t) \/ WaitForLunIo(t)
    BY <2>3 DEF SelectAvailableLun, AllocateFails, MarkUnknownDisk, FirstStoppingLun, WaitForLunIo
  <2> QED
    BY <2>1, <2>2, <2>3
<1>5. /\ call[t].pc \notin {"commit", "free", "finalize"}
      /\ call'[t].pc \notin {"commit", "free", "finalize"}
  BY CallMoves DEF Moves, Fails, Succeeds
<1>6. ASSUME call'[t].pc = "allocate"
      PROVE  TotalAllocatedBytes + call'[t].request.SizeBytes <= MaximumTotalBytes
  <2>1. SelectAvailableLun(t)
    BY <1>6, CallMoves DEF Moves, Fails, Succeeds
  <2>2. SelectStatus(call[t].request.SizeBytes) = "SUCCESS"
    BY <1>0, <1>6, <2>1 DEF SelectAvailableLun, Return, Advance, Call
  <2>3. ~(TotalAllocatedBytes > MaximumTotalBytes - call[t].request.SizeBytes)
    BY <2>2 DEF SelectStatus, OverQuota
  <2>4. /\ call'[t].request = call[t].request /\ call[t].request.SizeBytes \in Nat
        /\ TotalAllocatedBytes \in Nat
    BY <1>1, CallFrame, SumTypes DEF StoreTypeOK
  <2> QED
    BY <2>3, <2>4, SizesAssumption
<1> QED
  BY <1>2, <1>3, <1>4, <1>5, <1>6, AccountingKept

\* An allocation is uncounted until the commit, or until it is given back.
LEMMA AccountingAllocate ==
  ASSUME StoreInv, StoreInv', Accounting, NEW t \in Threads,
         AllocateBacking(t) \/ CommitFails(t)
  PROVE  Accounting'
<1> USE DEF StoreInv
<1>0. /\ call \in [Threads -> Call] /\ pool \in [Blocks -> Sizes \cup {0}]
      /\ TotalAllocatedBytes \in Nat /\ CallKnows(t)
  BY DEF StoreTypeOK, CallsKnow
<1>1. StoreCall(t)
  BY DEF StoreCall, LockedCallStep, UnlockedCallStep
<1>2. UNCHANGED <<luns, TotalAllocatedBytes>> /\ call'[t].request = call[t].request
  BY <1>1, CallFrame DEF AllocateBacking, CommitFails
<1>3. \A u \in Threads \ {t} : call[u].pc = "idle" /\ call'[u] = call[u]
  BY <1>1, OnlyCaller
<1>4. SizesOf' = SizesOf
  BY <1>2 DEF SizesOf
<1>5. CASE AllocateBacking(t)
  <2>1. call[t].pc = "allocate" /\ call'[t].pc = "commit"
    BY <1>5, CallMoves DEF Moves
  <2>2. PICK b \in Blocks : pool[b] = 0 /\ pool' = [pool EXCEPT ![b] = call[t].request.SizeBytes]
    BY <1>5 DEF AllocateBacking
  <2>3. pool'[b] = call[t].request.SizeBytes /\ \A x \in Blocks \ {b} : pool'[x] = pool[x]
    BY <1>0, <2>2
  <2>4. SumFunction(pool) \in Nat /\ SumFunction(pool') = SumFunction(pool) + pool'[b] - pool[b]
    BY <2>3, SumTypes, NextSumTypes, SumChange
  <2>5. SumFunction(pool) = TotalAllocatedBytes
    BY <1>0, <1>1, <2>1, OnlyCaller DEF Accounting, Uncounted
  <2>6. Books'
    <3>1. call[t].request.SizeBytes \in Nat
      BY SumTypes
    <3>2. SumFunction(pool') = TotalAllocatedBytes' + Uncounted(t)'
      BY <1>0, <1>2, <2>1, <2>2, <2>3, <2>4, <2>5, <3>1 DEF Uncounted
    <3> QED
      BY <1>1, <1>2, <1>4, <3>2, OnlyCaller DEF Accounting, Books
  <2>7. Room'
    BY <1>2, <1>3, <2>1 DEF Accounting, Room
  <2>8. Counted'
    BY <1>2, <1>3, <2>1 DEF Accounting, Counted
  <2> QED
    BY <2>6, <2>7, <2>8 DEF Accounting
<1>6. CASE CommitFails(t)
  <2> DEFINE b == call[t].backing
  <2>1. call[t].pc = "commit" /\ call'[t].pc = "returned"
    BY <1>6, CallMoves DEF Fails, Moves
  <2>2. b \in Blocks /\ pool[b] = call[t].request.SizeBytes
    BY <1>0, <2>1 DEF CallKnows
  <2>3. pool'[b] = 0 /\ \A x \in Blocks \ {b} : pool'[x] = pool[x]
    BY <1>6, <2>2 DEF CommitFails, PoolWithout
  <2> HIDE DEF b
  <2>4. SumFunction(pool) \in Nat /\ SumFunction(pool') = SumFunction(pool) + pool'[b] - pool[b]
    BY <2>2, <2>3, SumTypes, NextSumTypes, SumChange
  <2>5. SumFunction(pool) = TotalAllocatedBytes + call[t].request.SizeBytes
    BY <1>1, <2>1, OnlyCaller DEF Accounting, Uncounted
  <2>6. Books'
    <3>1. call[t].request.SizeBytes \in Nat
      BY SumTypes
    <3>2. SumFunction(pool') = TotalAllocatedBytes' + Uncounted(t)'
      BY <1>0, <1>2, <2>1, <2>2, <2>3, <2>4, <2>5, <3>1 DEF Uncounted
    <3> QED
      BY <1>1, <1>2, <1>4, <3>2, OnlyCaller DEF Accounting, Books
  <2>7. Room'
    BY <1>2, <1>3, <2>1 DEF Accounting, Room
  <2>8. Counted'
    BY <1>2, <1>3, <2>1 DEF Accounting, Counted
  <2> QED
    BY <2>6, <2>7, <2>8 DEF Accounting
<1> QED
  BY <1>5, <1>6

\* The commit counts what was allocated.
LEMMA AccountingCommit ==
  ASSUME StoreInv, StoreInv', Accounting, NEW t \in Threads, CommitNewLun(t)
  PROVE  Accounting'
<1> USE DEF StoreInv
<1> DEFINE k == call[t].lun
           size == call[t].request.SizeBytes
<1>0. /\ call \in [Threads -> Call] /\ luns \in [Luns -> Lun] /\ CallKnows(t)
      /\ TotalAllocatedBytes \in Nat /\ size \in Nat /\ k \in Luns
  BY SumTypes DEF StoreTypeOK, CallsKnow, Call
<1>1. StoreCall(t) /\ call[t].pc = "commit" /\ call'[t].pc = "returned"
  BY CallMoves DEF StoreCall, LockedCallStep, Succeeds, Moves
<1>2. \A u \in Threads \ {t} : call[u].pc = "idle" /\ call'[u] = call[u]
  BY <1>1, OnlyCaller
<1>3. /\ UNCHANGED pool /\ TotalAllocatedBytes' = TotalAllocatedBytes + size
      /\ luns'[k] = CommittedLun(t) /\ \A l \in Luns \ {k} : luns'[l] = luns[l]
  BY <1>0 DEF CommitNewLun
<1>4. /\ luns'[k].SizeBytes = size /\ luns'[k].State = "Online"
      /\ luns'[k].BackingStore = call[t].backing
  BY <1>3 DEF CommittedLun
<1>5. call[t].backing \in Blocks /\ luns[k].State = "Empty"
  BY <1>0, <1>1 DEF CallKnows
<1>6. luns[k].SizeBytes = 0
  BY <1>0, <1>5 DEF Accounting, Counted
<1> HIDE DEF k, size
<1>7. Books'
  <2>1. /\ SumFunction(SizesOf) \in Nat
        /\ SumFunction(SizesOf') = SumFunction(SizesOf) + SizesOf'[k] - SizesOf[k]
    BY <1>0, <1>3, SumTypes, NextSumTypes, SumChange
  <2>2. SizesOf'[k] = size /\ SizesOf[k] = 0
    BY <1>0, <1>4, <1>6, SumTypes, NextSumTypes
  <2>3. TotalAllocatedBytes' = SumFunction(SizesOf')
    BY <1>0, <1>3, <2>1, <2>2 DEF Accounting, Books
  <2>4. SumFunction(pool) = TotalAllocatedBytes + size
    BY <1>1, OnlyCaller DEF Accounting, Uncounted, size
  <2>5. SumFunction(pool') = TotalAllocatedBytes' + Uncounted(t)'
    BY <1>0, <1>1, <1>3, <2>4 DEF Uncounted
  <2> QED
    BY <1>1, <2>3, <2>5, OnlyCaller
<1>8. Room'
  <2>1. TotalAllocatedBytes + size <= MaximumTotalBytes
    BY <1>1 DEF Accounting, Room, size
  <2> QED
    BY <1>1, <1>2, <1>3, <2>1 DEF Room
<1>9. Counted'
  <2>1. call[t].backing # NoBlock
    BY <1>5, BlocksAssumption
  <2> QED
    BY <1>1, <1>2, <1>3, <1>4, <2>1 DEF Accounting, Counted
<1> QED
  BY <1>7, <1>8, <1>9 DEF Accounting

\* Detaching hands the counted memory to the call, which frees it and then stops counting.
LEMMA AccountingDetach ==
  ASSUME StoreInv, StoreInv', Accounting, NEW t \in Threads, DetachBackingStore(t)
  PROVE  Accounting'
<1> USE DEF StoreInv
<1> DEFINE k == call[t].lun
           b == luns[k].BackingStore
<1>0. /\ call \in [Threads -> Call] /\ luns \in [Luns -> Lun] /\ CallKnows(t) /\ k \in Luns
      /\ b \in Blocks \cup {NoBlock}
  BY SumTypes DEF StoreTypeOK, CallsKnow, Call, Lun, BlocksOrNull
<1>1. StoreCall(t) /\ call[t].pc = "detach" /\ call'[t].pc = "free"
  BY CallMoves DEF StoreCall, LockedCallStep, Moves
<1>2. \A u \in Threads \ {t} : call[u].pc = "idle" /\ call'[u] = call[u]
  BY <1>1, OnlyCaller
<1>3. luns[k].State = "Stopping" /\ luns[k].DeviceId = call[t].deviceId
  BY <1>0, <1>1 DEF CallKnows
<1>4. /\ UNCHANGED <<pool, TotalAllocatedBytes>>
      /\ luns' = [luns EXCEPT ![k].BackingStore = NoBlock]
      /\ call' = [call EXCEPT ![t] = [call[t] EXCEPT !.pc = "free", !.backing = b]]
  BY <1>3 DEF DetachBackingStore, Advance
<1>5. b \in Blocks
  BY <1>0, <1>1, <1>2, <1>3 DEF Accounting, Counted
<1>6. pool[b] = luns[k].SizeBytes
  BY <1>0, <1>5, BlocksAssumption DEF PoolOwnership
<1>7. call'[t].backing = b /\ call'[t].lun = k
  BY <1>0, <1>4 DEF Call
<1>8. \A l \in Luns :
        /\ luns'[l].SizeBytes = luns[l].SizeBytes /\ luns'[l].State = luns[l].State
        /\ l # k => luns'[l].BackingStore = luns[l].BackingStore
  BY <1>0, <1>4 DEF Lun
<1> HIDE DEF k, b
<1>9. Books'
  <2>1. SizesOf' = SizesOf
    BY <1>8 DEF SizesOf
  <2>2. SumFunction(pool) = TotalAllocatedBytes + 0
    BY <1>1, OnlyCaller DEF Accounting, Uncounted
  <2>3. SumFunction(pool') = TotalAllocatedBytes' + Uncounted(t)'
    BY <1>1, <1>4, <2>2 DEF Uncounted
  <2> QED
    BY <1>1, <1>4, <2>1, <2>3, OnlyCaller DEF Accounting, Books
<1>10. Room'
  BY <1>1, <1>2, <1>4 DEF Accounting, Room
<1>11. Counted'
  <2>1. \A l \in Luns : luns'[l].State # "Empty" =>
          \/ luns'[l].BackingStore # NoBlock
          \/ \E u \in Threads : call'[u].lun = l /\ call'[u].pc \in {"free", "finalize"}
    BY <1>1, <1>2, <1>7, <1>8 DEF Accounting, Counted
  <2>2. \A u \in Threads : call'[u].pc = "free" => u = t
    BY <1>2
  <2>3. pool'[b] = luns'[k].SizeBytes
    BY <1>0, <1>4, <1>6, <1>8
  <2> QED
    BY <1>5, <1>7, <1>8, <2>1, <2>2, <2>3 DEF Accounting, Counted
<1> QED
  BY <1>9, <1>10, <1>11 DEF Accounting

\* The memory goes first, its count later.
LEMMA AccountingFree ==
  ASSUME StoreInv, StoreInv', Accounting, NEW t \in Threads, FreeBacking(t)
  PROVE  Accounting'
<1> USE DEF StoreInv
<1> DEFINE k == call[t].lun
           b == call[t].backing
<1>0. /\ call \in [Threads -> Call] /\ k \in Luns /\ luns[k].SizeBytes \in Nat
      /\ TotalAllocatedBytes \in Nat
  BY SumTypes DEF StoreTypeOK, Call
<1>1. StoreCall(t) /\ call[t].pc = "free" /\ call'[t].pc = "finalize"
  BY CallMoves DEF StoreCall, UnlockedCallStep, Moves
<1>2. \A u \in Threads \ {t} : call[u].pc = "idle" /\ call'[u] = call[u]
  BY <1>1, OnlyCaller
<1>3. /\ UNCHANGED <<luns, TotalAllocatedBytes>> /\ pool' = PoolWithout(b) /\ call'[t].lun = k
  BY <1>0 DEF FreeBacking, Advance, Call
<1>4. b \in Blocks /\ pool[b] = luns[k].SizeBytes
  BY <1>1 DEF Accounting, Counted
<1>5. pool'[b] = 0 /\ \A x \in Blocks \ {b} : pool'[x] = pool[x]
  BY <1>3, <1>4 DEF PoolWithout
<1> HIDE DEF k, b
<1>6. Books'
  <2>1. SumFunction(pool) \in Nat /\ SumFunction(pool') = SumFunction(pool) + pool'[b] - pool[b]
    BY <1>4, <1>5, SumTypes, NextSumTypes, SumChange
  <2>2. SumFunction(pool) = TotalAllocatedBytes + 0
    BY <1>1, OnlyCaller DEF Accounting, Uncounted
  <2>3. SumFunction(pool') = TotalAllocatedBytes' + Uncounted(t)'
    BY <1>0, <1>1, <1>3, <1>4, <1>5, <2>1, <2>2 DEF Uncounted
  <2>4. SizesOf' = SizesOf
    BY <1>3 DEF SizesOf
  <2> QED
    BY <1>1, <1>3, <2>3, <2>4, OnlyCaller DEF Accounting, Books
<1>7. Room'
  BY <1>1, <1>2, <1>3 DEF Accounting, Room
<1>8. Counted'
  <2>1. \A l \in Luns : luns'[l].State # "Empty" =>
          \/ luns'[l].BackingStore # NoBlock
          \/ \E u \in Threads : call'[u].lun = l /\ call'[u].pc \in {"free", "finalize"}
    BY <1>1, <1>2, <1>3 DEF Accounting, Counted, k
  <2>2. \A u \in Threads : call'[u].pc # "free"
    BY <1>1, <1>2
  <2> QED
    BY <1>3, <2>1, <2>2 DEF Accounting, Counted
<1> QED
  BY <1>6, <1>7, <1>8 DEF Accounting

\* The subtraction does not saturate: the LUN is one of those that the counter sums up.
LEMMA AccountingFinalize ==
  ASSUME StoreInv, StoreInv', Accounting, NEW t \in Threads, FinalizeRemoval(t)
  PROVE  Accounting'
<1> USE DEF StoreInv
<1> DEFINE k == call[t].lun
           size == luns[k].SizeBytes
<1>0. /\ call \in [Threads -> Call] /\ luns \in [Luns -> Lun] /\ k \in Luns /\ size \in Nat
      /\ TotalAllocatedBytes \in Nat
  BY SumTypes DEF StoreTypeOK, Call
<1>1. StoreCall(t) /\ call[t].pc = "finalize" /\ call'[t].pc \in {"first", "returned"}
  BY CallMoves DEF StoreCall, Succeeds, Moves
<1>2. \A u \in Threads \ {t} : call[u].pc = "idle" /\ call'[u] = call[u]
  BY <1>1, OnlyCaller
<1>3. /\ UNCHANGED pool
      /\ TotalAllocatedBytes' = IF TotalAllocatedBytes >= size THEN TotalAllocatedBytes - size ELSE 0
      /\ luns'[k] = FinalizedLun(k) /\ \A l \in Luns \ {k} : luns'[l] = luns[l]
  BY <1>0 DEF FinalizeRemoval
<1>4. luns'[k].SizeBytes = 0 /\ luns'[k].State = "Empty"
  BY <1>0, <1>3 DEF FinalizedLun, Lun
<1> HIDE DEF k, size
<1>5. SizesOf[k] = size /\ SizesOf'[k] = 0
  BY <1>0, <1>4, SumTypes, NextSumTypes DEF size
<1>6. size <= TotalAllocatedBytes
  BY <1>0, <1>5, SumTypes, SumBounds DEF Accounting, Books
<1>7. TotalAllocatedBytes' = TotalAllocatedBytes - size
  BY <1>0, <1>3, <1>6
<1>8. Books'
  <2>1. /\ SumFunction(SizesOf) \in Nat
        /\ SumFunction(SizesOf') = SumFunction(SizesOf) + SizesOf'[k] - SizesOf[k]
    BY <1>0, <1>3, SumTypes, NextSumTypes, SumChange
  <2>2. TotalAllocatedBytes' = SumFunction(SizesOf')
    BY <1>0, <1>5, <1>7, <2>1 DEF Accounting, Books
  <2>3. SumFunction(pool) = TotalAllocatedBytes + (0 - size)
    BY <1>1, OnlyCaller DEF Accounting, Uncounted, size, k
  <2>4. SumFunction(pool') = TotalAllocatedBytes' + Uncounted(t)'
    BY <1>0, <1>1, <1>3, <1>7, <2>3 DEF Uncounted
  <2> QED
    BY <1>1, <2>2, <2>4, OnlyCaller
<1>9. Room'
  BY <1>0, <1>1, <1>2, <1>7, SizesAssumption DEF Accounting, Room
<1>10. Counted'
  <2>1. \A l \in Luns \ {k} : \A u \in Threads :
          call[u].lun = l /\ call[u].pc \in {"free", "finalize"} => FALSE
    BY <1>1, <1>2 DEF k
  <2> QED
    BY <1>1, <1>2, <1>3, <1>4, <2>1 DEF Accounting, Counted
<1> QED
  BY <1>8, <1>9, <1>10 DEF Accounting

\* No step of the store leaves the books open.
LEMMA AccountingStep ==
  ASSUME StoreInv, StoreInv', Accounting, [StoreNext]_storeVars
  PROVE  Accounting'
  BY AccountingOutsideCalls, AccountingQuietCall, AccountingAllocate, AccountingCommit,
     AccountingDetach, AccountingFree, AccountingFinalize
     DEF StoreNext, LockedCallStep, UnlockedCallStep

\* TotalAllocatedBytes is the sum of the disks in the table and the pool never holds more
\* than the cap, for any number of LUNs, of blocks and of sizes: a create that was admitted
\* below the cap still fits when it allocates and when it commits, since nothing is counted
\* in between.
THEOREM QuotaIsRespected == StoreSpec => []QuotaRespected
<1>1. StoreInv /\ Accounting => QuotaRespected
  <2> SUFFICES ASSUME StoreInv, Accounting  PROVE QuotaRespected
    OBVIOUS
  <2> USE DEF StoreInv
  <2>1. TotalAllocatedBytes = SumFunction([l \in Luns |-> luns[l].SizeBytes])
    BY DEF Accounting, Books, SizesOf
  <2>2. /\ TotalAllocatedBytes \in Nat
        /\ \A t \in Threads : call[t].request.SizeBytes \in Nat /\ luns[call[t].lun].SizeBytes \in Nat
    BY SumTypes DEF StoreTypeOK, Call
  <2>3. \A t \in Threads : /\ Uncounted(t) \in Int
                           /\ TotalAllocatedBytes + Uncounted(t) <= MaximumTotalBytes
                           /\ call[t].pc = "idle" => Uncounted(t) = 0
    BY <2>2, SizesAssumption DEF Accounting, Room, Uncounted
  <2>4. call["worker"].pc = "idle" \/ call["teardown"].pc = "idle"
    BY DEF SingleCall, Threads
  <2>5. SumFunction(pool) <= MaximumTotalBytes
    BY <2>2, <2>3, <2>4 DEF Accounting, Books, Threads
  <2> QED
    BY <2>1, <2>5 DEF QuotaRespected
<1>2. StoreInv /\ StoreInv' /\ Accounting /\ [StoreNext]_storeVars => Accounting'
  BY AccountingStep
<1> QED
  BY StoreInvariant, AccountingInit, <1>1, <1>2, PTL DEF StoreSpec

=============================================================================
