--------------------------- MODULE DriverPartsProofs ---------------------------
(***************************************************************************)
(* Proofs about DriverParts: the identities of any number of adapters under *)
(* any clock, and READ and WRITE for every size of disk and sector and     *)
(* every width of the fields and words that Parameters allows.             *)
(***************************************************************************)
EXTENDS DriverParts, TLAPS

-----------------------------------------------------------------------------
(***************************************************************************)
(* The identities of adapters.                                             *)
(***************************************************************************)
\* The identities of this load do not exceed the static variable, and those of
\* earlier loads are behind every time that was or will be read in this load.
IdentityInv ==
  /\ TypeOK
  /\ \A i \in issued \ retired : i <= lastInstance
  /\ \A i \in retired : i < clock
  /\ \A a \in Adapters : pc[a] \in {"read", "exchange"} =>
       time[a] \in Times /\ \A i \in retired : i < time[a]

-----------------------------------------------------------------------------
\* The identity that Initialize computes is later than the clock it read and than the
\* static variable it read.
LEMMA CandidateIsLater ==
  ASSUME TypeOK, NEW a \in Adapters
  PROVE  /\ Candidate(a) \in Nat \ {0}
         /\ Candidate(a) > previous[a]
         /\ Candidate(a) >= time[a]
<1>0. Times \subseteq Nat
  BY IdentityAssumption
<1>1. time[a] \in Times \cup {0} /\ previous[a] \in Nat
  BY DEF TypeOK
<1>2. time[a] \in Nat
  BY <1>0, <1>1
<1> QED
  BY <1>1, <1>2 DEF Candidate

\* What the compare-exchange stores over an unchanged variable was never handed out.
LEMMA CandidateIsNew ==
  ASSUME IdentityInv, NEW a \in Adapters, pc[a] = "exchange", Exchanges(a)
  PROVE  Candidate(a) \notin issued
<1>1. time[a] \in Times /\ \A i \in retired : i < time[a]
  BY DEF IdentityInv
<1>2. TypeOK /\ issued \subseteq Nat /\ retired \subseteq issued /\ time[a] \in Nat
  BY <1>1, IdentityAssumption DEF IdentityInv, TypeOK
<1>3. /\ Candidate(a) \in Nat \ {0} /\ Candidate(a) > previous[a]
      /\ Candidate(a) >= time[a]
  BY <1>1, <1>2, CandidateIsLater
<1>4. lastInstance = previous[a] /\ lastInstance \in Nat
  BY <1>2 DEF Exchanges, TypeOK
<1>5. ASSUME NEW i \in issued  PROVE i # Candidate(a)
  <2>1. CASE i \in retired
    BY <2>1, <1>1, <1>2, <1>3
  <2>2. CASE i \notin retired
    <3>1. i <= lastInstance
      BY <2>2 DEF IdentityInv
    <3> QED  BY <3>1, <1>2, <1>3, <1>4
  <2> QED  BY <2>1, <2>2
<1> QED
  BY <1>5

-----------------------------------------------------------------------------
\* The types do not depend on what the clock does.
LEMMA TypeStep ==
  ASSUME TypeOK, [Next]_vars
  PROVE  TypeOK'
<1>0. Times \subseteq Nat \ {0}
  BY IdentityAssumption
<1>1. ASSUME NEW a \in Adapters, Start(a)  PROVE TypeOK'
  BY <1>1 DEF Start, TypeOK
<1>2. ASSUME NEW a \in Adapters, QueryTime(a)  PROVE TypeOK'
  BY <1>2 DEF QueryTime, TypeOK
<1>3. ASSUME NEW a \in Adapters, ReadLast(a)  PROVE TypeOK'
  BY <1>3 DEF ReadLast, TypeOK
<1>4. ASSUME NEW a \in Adapters, Exchange(a)  PROVE TypeOK'
  <2>1. Candidate(a) \in Nat \ {0}
    BY CandidateIsLater
  <2> QED
    BY <1>4, <2>1 DEF Exchange, Assigned, TypeOK
<1>5. ASSUME NEW a \in Adapters, ExchangeFails(a)  PROVE TypeOK'
  BY <1>5 DEF ExchangeFails, Retry, TypeOK
<1>6. ASSUME NEW a \in Adapters, Remove(a)  PROVE TypeOK'
  BY <1>6 DEF Remove, TypeOK
<1>7. ASSUME NEW t \in Times, SetClock(t) \/ Reload(t)  PROVE TypeOK'
  <2>1. /\ clock' = t /\ lastInstance' \in {lastInstance, 0}
        /\ retired' \in {retired, issued}
        /\ UNCHANGED <<pc, time, previous, instance, issued>>
    BY <1>7, Zenon DEF SetClock, Reload
  <2> QED  BY <2>1 DEF TypeOK
<1>8. CASE UNCHANGED vars
  BY <1>8 DEF vars, TypeOK
<1> QED
  BY <1>1, <1>2, <1>3, <1>4, <1>5, <1>6, <1>7, <1>8 DEF Next

LEMMA IdentityInvInit ==
  ASSUME Init  PROVE IdentityInv
<1> QED
  BY IdentityAssumption DEF Init, IdentityInv, TypeOK

\* Every step keeps the invariant, if the clock of a loaded driver is later than the
\* identities of earlier loads.
LEMMA IdentityInvStep ==
  ASSUME IdentityInv, [Next]_vars, ClockLaterAfterReload
  PROVE  IdentityInv'
<1>0. Times \subseteq Nat \ {0} /\ TypeOK /\ TypeOK'
  BY IdentityAssumption, TypeStep DEF IdentityInv
<1>1. ASSUME NEW a \in Adapters, Start(a) \/ ReadLast(a) \/ ExchangeFails(a) \/ Remove(a)
      PROVE  IdentityInv'
  BY <1>0, <1>1 DEF IdentityInv, TypeOK, Start, ReadLast, ExchangeFails, Retry, Remove
<1>2. ASSUME NEW a \in Adapters, QueryTime(a)  PROVE IdentityInv'
  BY <1>0, <1>2 DEF IdentityInv, TypeOK, QueryTime
<1>3. ASSUME NEW a \in Adapters, Exchange(a)  PROVE IdentityInv'
  <2>1. /\ Candidate(a) \in Nat \ {0} /\ Candidate(a) > lastInstance
        /\ lastInstance \in Nat /\ issued \subseteq Nat
    BY <1>0, <1>3, CandidateIsLater DEF Exchange, Exchanges, TypeOK
  <2>2. \A i \in issued' \ retired' : i <= lastInstance'
    <3>1. /\ lastInstance' = Candidate(a) /\ issued' = issued \cup {Candidate(a)}
          /\ retired' = retired
      BY <1>3 DEF Exchange
    <3>2. ASSUME NEW i \in issued \ retired  PROVE i <= Candidate(a)
      <4>1. i <= lastInstance /\ i \in Nat
        BY <2>1 DEF IdentityInv
      <4> QED  BY <4>1, <2>1
    <3> QED  BY <3>1, <3>2, <2>1
  <2>3. \A i \in retired' : i < clock'
    BY <1>3 DEF Exchange, IdentityInv
  <2>4. ASSUME NEW b \in Adapters, pc'[b] \in {"read", "exchange"}
        PROVE  time'[b] \in Times /\ \A i \in retired' : i < time'[b]
    <3>1. b # a /\ pc'[b] = pc[b] /\ time'[b] = time[b] /\ retired' = retired
      BY <1>0, <1>3, <2>4 DEF Exchange, TypeOK
    <3> QED  BY <3>1, <2>4 DEF IdentityInv
  <2> QED
    BY <1>0, <2>2, <2>3, <2>4 DEF IdentityInv
<1>4. ASSUME NEW t \in Times, SetClock(t)  PROVE IdentityInv'
  BY <1>0, <1>4 DEF IdentityInv, SetClock
<1>5. ASSUME NEW t \in Times, Reload(t)  PROVE IdentityInv'
  BY <1>0, <1>5 DEF IdentityInv, Reload
<1>6. CASE UNCHANGED vars
  BY <1>0, <1>6 DEF IdentityInv, vars
<1> QED
  BY <1>1, <1>2, <1>3, <1>4, <1>5, <1>6 DEF Next

-----------------------------------------------------------------------------
\* Initialize leaves an adapter with an identity that is not zero, and a removed adapter
\* has none, whatever the clock does.
THEOREM IdentityTypeCorrect == Spec => []TypeOK
<1>1. Init => TypeOK
  BY IdentityInvInit DEF IdentityInv
<1>2. TypeOK /\ [Next]_vars => TypeOK'
  BY TypeStep
<1> QED
  BY <1>1, <1>2, PTL DEF Spec

\* No identity is handed out twice by any number of adapters that start, stop and start
\* again, concurrently and across loads of the driver, while the clock stands still, jumps
\* or goes back, as long as a driver that is loaded again finds it later than before.
THEOREM IdentitiesAreFresh ==
  ASSUME ClockLaterAfterReload
  PROVE  Spec => NeverReissued
<1> DEFINE Fresh == \A a \in Adapters :
             instance'[a] # instance[a] /\ instance'[a] # 0 => instance'[a] \notin issued
<1>1. Init => IdentityInv
  BY IdentityInvInit
<1>2. IdentityInv /\ [Next]_vars => IdentityInv'
  BY IdentityInvStep
<1>3. IdentityInv /\ [Next]_vars => [Fresh]_vars
  <2> SUFFICES ASSUME IdentityInv, Next, NEW b \in Adapters,
                      instance'[b] # instance[b], instance'[b] # 0
               PROVE  instance'[b] \notin issued
    OBVIOUS
  <2> instance \in [Adapters -> Nat]
    BY DEF IdentityInv, TypeOK
  <2>1. PICK a \in Adapters : Exchange(a) \/ Remove(a)
    BY DEF Next, Start, QueryTime, ReadLast, ExchangeFails, SetClock, Reload
  <2>2. CASE Exchange(a)
    <3>1. instance' = [instance EXCEPT ![a] = Candidate(a)] /\ b = a
      BY <2>2 DEF Exchange, Assigned
    <3>2. Candidate(a) \notin issued
      BY <2>2, CandidateIsNew DEF Exchange
    <3> QED  BY <3>1, <3>2
  <2>3. CASE Remove(a)
    BY <2>3 DEF Remove
  <2> QED
    BY <2>1, <2>2, <2>3
<1> QED
  BY <1>1, <1>2, <1>3, PTL DEF Spec, NeverReissued

\* In DriverParts the identities follow their own specification.
THEOREM PartsFollowIdentity == PartsSpec => Spec
<1>1. PartsInit => Init
  BY DEF PartsInit
<1>2. [PartsNext]_<<part, vars, scsiVars>> => [Next]_vars
  BY DEF PartsNext
<1> QED
  BY <1>1, <1>2, PTL DEF PartsSpec, Spec

-----------------------------------------------------------------------------
(***************************************************************************)
(* READ and WRITE.                                                         *)
(***************************************************************************)
\* The reply is what HandleReadWrite computes for the request that is being answered.
Answered ==
  /\ srb \in Scsi!Requests
  /\ result.status = Scsi!Status(srb) /\ result.offset = Scsi!ByteOffset(srb.lba)
  /\ result.length = Scsi!Transferred(srb)
  /\ ~srb.write => result.read = [b \in Scsi!Copied(srb) \cap Scsi!Bytes |-> memory[b]]

\* Each byte holds what the block it lies in was last written, and the reply is that of the
\* request.
ScsiInv ==
  /\ memory \in [Scsi!Bytes -> Data] /\ disk \in [Scsi!Blocks -> Data]
  /\ \A b \in Scsi!Bytes : memory[b] = disk[b \div SectorSize]
  /\ result = Scsi!NoResult \/ Answered

\* What is assumed of the constants.
LEMMA Widths ==
  /\ DiskBlocks \in Nat \ {0} /\ SectorSize \in Nat \ {0} /\ MaxTransfer \in Nat
  /\ ByteRange \in Nat \ {0} /\ UShortRange \in Nat \ {0} /\ Lba6Range \in Nat \ {0}
  /\ ULongRange \in Nat \ {0} /\ ULongLongRange \in Nat \ {0}
  /\ MaxTransfer < ULongRange /\ DiskBlocks * SectorSize < ULongLongRange /\ Blank \in Data
  BY Parameters DEF Scsi!ReadWriteAssumption

\* Multiplying by the size of a sector keeps the order and distributes over sums.
LEMMA ProductsGrow ==
  ASSUME NEW a \in Nat, NEW b \in Nat, NEW s \in Nat
  PROVE  /\ a * s \in Nat /\ (a + b) * s = a * s + b * s
         /\ (a <= b => a * s <= b * s) /\ (s # 0 /\ a < b => a * s < b * s)
<1>1. a * s \in Nat /\ (a + b) * s = a * s + b * s
  OBVIOUS
<1>2. a <= b => a * s <= b * s
  OBVIOUS
<1>3. s # 0 /\ a < b => a * s < b * s
  OBVIOUS
<1> QED
  BY <1>1, <1>2, <1>3

\* A byte lies in the sector that division gives: not before it, and not after it.
LEMMA Quotient ==
  ASSUME NEW b \in Nat, NEW s \in Nat \ {0}
  PROVE  /\ b \div s \in Nat
         /\ (b \div s) * s <= b /\ b < (b \div s) * s + s
<1>1. b = s * (b \div s) + (b % s) /\ b % s \in 0..(s - 1) /\ b \div s \in Int
  OBVIOUS
<1>2. b \div s >= 0
  OBVIOUS
<1> QED
  BY <1>1, <1>2

\* The first byte of a sector lies in that sector.
LEMMA ProductOverFactor ==
  ASSUME NEW k \in Nat, NEW s \in Nat \ {0}
  PROVE  (k * s) \div s = k
<1> DEFINE q == (k * s) \div s
<1>1. k * s \in Nat
  BY ProductsGrow
<1>2. q \in Nat /\ q * s <= k * s /\ k * s < q * s + s
  BY <1>1, Quotient
<1> HIDE DEF q
<1>3. (q + 1) * s = q * s + s
  BY <1>2, ProductsGrow
<1>4. ~(k < q)
  BY <1>2, ProductsGrow
<1>5. ~(q + 1 <= k)
  BY <1>2, <1>3, ProductsGrow
<1> QED
  BY <1>2, <1>4, <1>5 DEF q

\* The bytes of n sectors from lo on are the n * s bytes from lo * s on.
LEMMA BlockOfByte ==
  ASSUME NEW b \in Nat, NEW s \in Nat \ {0}, NEW lo \in Nat, NEW n \in Nat
  PROVE  b \div s \in lo..(lo + n - 1) <=> b \in (lo * s)..(lo * s + n * s - 1)
<1> DEFINE q == b \div s
<1>1. q \in Nat /\ q * s <= b /\ b < q * s + s
  BY Quotient
<1>2. lo * s \in Nat /\ n * s \in Nat /\ (lo + n) * s = lo * s + n * s
  BY ProductsGrow
<1> HIDE DEF q
<1>3. ASSUME q \in lo..(lo + n - 1) PROVE b \in (lo * s)..(lo * s + n * s - 1)
  <2>1. lo <= q /\ q + 1 <= lo + n
    BY <1>1, <1>3
  <2>2. lo * s <= q * s
    BY <1>1, <2>1, ProductsGrow
  <2>3. (q + 1) * s <= (lo + n) * s
    BY <1>1, <2>1, ProductsGrow
  <2>4. (q + 1) * s = q * s + s /\ q * s \in Nat
    BY <1>1, ProductsGrow
  <2> QED
    BY <1>1, <1>2, <2>2, <2>3, <2>4
<1>4. ASSUME b \in (lo * s)..(lo * s + n * s - 1) PROVE q \in lo..(lo + n - 1)
  <2>1. q * s \in Nat /\ (q + 1) * s = q * s + s
    BY <1>1, ProductsGrow
  <2>2. lo <= q
    <3> SUFFICES ASSUME q + 1 <= lo PROVE FALSE
      BY <1>1
    <3>1. (q + 1) * s <= lo * s
      BY <1>1, ProductsGrow
    <3> QED
      BY <1>1, <1>2, <1>4, <2>1, <3>1
  <2>3. q < lo + n
    <3> SUFFICES ASSUME lo + n <= q PROVE FALSE
      BY <1>1
    <3>1. (lo + n) * s <= q * s
      BY <1>1, ProductsGrow
    <3> QED
      BY <1>1, <1>2, <1>4, <2>1, <3>1
  <2> QED
    BY <1>1, <2>2, <2>3
<1> QED
  BY <1>3, <1>4 DEF q

\* The fields of a request are natural numbers, and so is the count they stand for.
LEMMA RequestFields ==
  ASSUME NEW r \in Scsi!Requests
  PROVE  /\ r.form \in {6, 10, 12, 16} /\ r.lba \in Nat /\ r.count \in Nat /\ r.length \in Nat
         /\ r.cdb \in Nat /\ r.write \in BOOLEAN /\ Scsi!BlockCount(r) \in Nat
<1>1. PICK f \in {6, 10, 12, 16} :
        r \in [form : {f}, lba : 0..(Scsi!LbaRange(f) - 1), count : 0..(Scsi!CountRange(f) - 1),
               length : {0, SectorSize, MaxTransfer, ULongRange - 1}, cdb : {f - 1, f},
               write : BOOLEAN]
  BY DEF Scsi!Requests, Scsi!Forms
<1>2. Scsi!LbaRange(f) \in Nat /\ Scsi!CountRange(f) \in Nat
  BY Widths DEF Scsi!LbaRange, Scsi!CountRange
<1>3. /\ r.form = f /\ r.lba \in Nat /\ r.count \in Nat /\ r.length \in Nat
      /\ r.cdb \in Nat /\ r.write \in BOOLEAN
  BY <1>1, <1>2, Widths
<1> QED
  BY <1>3, Widths DEF Scsi!BlockCount

\* The tests of HandleReadWrite, which subtract and multiply words that wrap, decide what
\* plain arithmetic says: a request is served when its blocks are on the disk and its bytes
\* fit the limit and the buffer; and then no product has wrapped.
LEMMA StatusMeans ==
  ASSUME NEW r \in Scsi!Requests
  PROVE  LET n == Scsi!BlockCount(r)
         IN  /\ Scsi!Status(r) \in {"SUCCESS", "INVALID_CDB", "ILLEGAL_BLOCK"}
             /\ Scsi!Status(r) = "SUCCESS" <=>
                  /\ r.cdb >= r.form
                  /\ \/ n = 0
                     \/ /\ r.lba + n <= DiskBlocks
                        /\ n * SectorSize <= MaxTransfer /\ n * SectorSize <= r.length
             /\ Scsi!Status(r) = "SUCCESS" /\ n # 0 =>
                  /\ Scsi!ByteOffset(r.lba) = r.lba * SectorSize
                  /\ Scsi!ByteCount(n) = n * SectorSize
                  /\ r.lba * SectorSize + n * SectorSize <= Scsi!SizeBytes
<1> DEFINE n == Scsi!BlockCount(r)
<1>1. /\ r.form \in Nat /\ r.lba \in Nat /\ r.length \in Nat /\ r.cdb \in Nat /\ n \in Nat
  BY RequestFields
<1>2. r.lba * SectorSize \in Nat /\ n * SectorSize \in Nat
  BY <1>1, Widths, ProductsGrow
<1>3. ASSUME r.lba + n <= DiskBlocks
      PROVE  /\ Scsi!ByteOffset(r.lba) = r.lba * SectorSize
             /\ Scsi!ByteCount(n) = n * SectorSize
             /\ r.lba * SectorSize + n * SectorSize <= Scsi!SizeBytes
  <2>1. /\ (r.lba + n) * SectorSize = r.lba * SectorSize + n * SectorSize
        /\ (r.lba + n) * SectorSize <= DiskBlocks * SectorSize
    BY <1>1, <1>3, Widths, ProductsGrow
  <2>2. \A x \in Nat : x < ULongLongRange => x % ULongLongRange = x
    BY Widths
  <2>3. r.lba * SectorSize < ULongLongRange /\ n * SectorSize < ULongLongRange
    <3> DEFINE total == DiskBlocks * SectorSize
    <3>1. total \in Nat /\ total < ULongLongRange
      BY Widths
    <3> HIDE DEF total
    <3>2. r.lba * SectorSize + n * SectorSize <= total
      BY <2>1 DEF total
    <3> QED
      BY <1>2, <3>1, <3>2, Widths
  <2> QED
    BY <1>2, <2>1, <2>2, <2>3 DEF Scsi!ByteOffset, Scsi!ByteCount, Scsi!SizeBytes
<1> HIDE DEF n
<1>4. Scsi!OutOfRange(r.lba, n) <=> ~(r.lba < DiskBlocks /\ r.lba + n <= DiskBlocks)
  BY <1>1, Widths DEF Scsi!OutOfRange
<1>5. /\ Scsi!Status(r) \in {"SUCCESS", "INVALID_CDB", "ILLEGAL_BLOCK"}
      /\ Scsi!Status(r) = "SUCCESS" <=>
           /\ r.cdb >= r.form
           /\ \/ n = 0
              \/ /\ r.lba < DiskBlocks /\ r.lba + n <= DiskBlocks
                 /\ ~Scsi!TooLong(Scsi!ByteCount(n)) /\ ~(r.length < Scsi!ByteCount(n))
  BY <1>1, <1>4 DEF Scsi!Status, Scsi!ShortCdb, Scsi!BufferTooSmall, n
<1>6. ASSUME r.lba + n <= DiskBlocks
      PROVE  ~Scsi!TooLong(Scsi!ByteCount(n)) /\ ~(r.length < Scsi!ByteCount(n)) <=>
               n * SectorSize <= MaxTransfer /\ n * SectorSize <= r.length
  BY <1>1, <1>2, <1>3, <1>6, Widths DEF Scsi!TooLong
<1>7. n # 0 /\ r.lba + n <= DiskBlocks => r.lba < DiskBlocks
  BY <1>1, Widths
<1>8. Scsi!Status(r) = "SUCCESS" <=>
        /\ r.cdb >= r.form
        /\ \/ n = 0
           \/ /\ r.lba + n <= DiskBlocks
              /\ n * SectorSize <= MaxTransfer /\ n * SectorSize <= r.length
  BY <1>5, <1>6, <1>7
<1>9. Scsi!Status(r) = "SUCCESS" /\ n # 0 => r.lba + n <= DiskBlocks
  BY <1>8
<1> QED
  BY <1>3, <1>5, <1>8, <1>9 DEF n

\* RtlCopyMemory touches the bytes of the named blocks, all of them and no other.
LEMMA CopyIsNamed ==
  ASSUME NEW r \in Scsi!Requests, Scsi!Status(r) = "SUCCESS"
  PROVE  /\ \A b \in Scsi!Bytes : b \in Scsi!Copied(r) <=> b \div SectorSize \in Scsi!Named(r)
         /\ Scsi!Copied(r) \subseteq Scsi!Bytes
         /\ \A k \in Scsi!Named(r) : k * SectorSize \in Scsi!Copied(r) /\ k \in Nat
<1> DEFINE n == Scsi!BlockCount(r)
<1>1. r.lba \in Nat /\ n \in Nat
  BY RequestFields
<1>2. Scsi!Named(r) = r.lba..(r.lba + n - 1)
  BY DEF Scsi!Named, Scsi!BlockCount
<1>3. Scsi!Copied(r) = Scsi!ByteOffset(r.lba)..(Scsi!ByteOffset(r.lba) + Scsi!ByteCount(n) - 1)
  BY DEF Scsi!Copied
<1>4. CASE n = 0
  <2>1. Scsi!ByteCount(n) = 0 /\ Scsi!ByteOffset(r.lba) \in Int
    BY <1>1, <1>4, Widths DEF Scsi!ByteCount, Scsi!ByteOffset
  <2>2. Scsi!Copied(r) = {} /\ Scsi!Named(r) = {}
    BY <1>1, <1>2, <1>3, <1>4, <2>1
  <2> QED
    BY <2>2
<1>5. CASE n # 0
  <2>1. /\ Scsi!ByteOffset(r.lba) = r.lba * SectorSize /\ Scsi!ByteCount(n) = n * SectorSize
        /\ r.lba * SectorSize + n * SectorSize <= Scsi!SizeBytes
    BY <1>5, StatusMeans
  <2> HIDE DEF n
  <2>2. r.lba * SectorSize \in Nat /\ n * SectorSize \in Nat /\ Scsi!SizeBytes \in Nat
    BY <1>1, Widths, ProductsGrow DEF Scsi!SizeBytes
  <2>3. Scsi!Copied(r) = (r.lba * SectorSize)..(r.lba * SectorSize + n * SectorSize - 1)
    BY <1>3, <2>1
  <2>4. \A b \in Nat : b \in Scsi!Copied(r) <=> b \div SectorSize \in Scsi!Named(r)
    BY <1>1, <1>2, <2>3, Widths, BlockOfByte
  <2>5. Scsi!Copied(r) \subseteq Scsi!Bytes /\ Scsi!Bytes \subseteq Nat
    BY <2>1, <2>2, <2>3 DEF Scsi!Bytes
  <2>6. ASSUME NEW k \in Scsi!Named(r) PROVE k * SectorSize \in Scsi!Copied(r) /\ k \in Nat
    <3>1. k \in Nat /\ k * SectorSize \in Nat
      BY <1>1, <1>2, Widths, ProductsGrow
    <3>2. (k * SectorSize) \div SectorSize = k
      BY <3>1, Widths, ProductOverFactor
    <3> QED
      BY <2>4, <3>1, <3>2
  <2> QED
    BY <2>4, <2>5, <2>6
<1> QED
  BY <1>4, <1>5

\* Every byte of the store lies in a block of the disk.
LEMMA BytesLieInBlocks ==
  \A b \in Scsi!Bytes : b \in Nat /\ b \div SectorSize \in Scsi!Blocks
<1> SUFFICES ASSUME NEW b \in Scsi!Bytes PROVE b \in Nat /\ b \div SectorSize \in Scsi!Blocks
  OBVIOUS
<1> DEFINE total == DiskBlocks * SectorSize
<1>1. total \in Nat /\ 0 * SectorSize = 0
  BY Widths, ProductsGrow
<1>2. b \in 0..(total - 1)
  BY DEF Scsi!Bytes, Scsi!SizeBytes
<1>3. b \in (0 * SectorSize)..(0 * SectorSize + total - 1)
  <2> HIDE DEF total
  <2> QED BY <1>1, <1>2
<1>4. b \in Nat
  BY <1>2
<1>5. b \div SectorSize \in 0..(0 + DiskBlocks - 1)
  BY <1>3, <1>4, Widths, BlockOfByte
<1> QED
  BY <1>4, <1>5, Widths DEF Scsi!Blocks

\* A write changes the bytes of the blocks it names, and no other; one that is refused
\* changes none.
LEMMA WriteKeeps ==
  ASSUME ScsiInv, NEW r \in Scsi!Requests, NEW d \in Data, Scsi!Write(r, d)
  PROVE  ScsiInv'
<1>1. /\ memory' = [b \in Scsi!Bytes |-> IF b \in Scsi!Copied(r) THEN d ELSE memory[b]]
      /\ disk' = [b \in Scsi!Blocks |->
                    IF Scsi!Status(r) = "SUCCESS" /\ b \in Scsi!Named(r) THEN d ELSE disk[b]]
      /\ srb' = r /\ r.write
      /\ result' = [status |-> Scsi!Status(r), offset |-> Scsi!ByteOffset(r.lba),
                    length |-> Scsi!Transferred(r), read |-> <<>>]
  BY DEF Scsi!Write
<1>2. memory' \in [Scsi!Bytes -> Data] /\ disk' \in [Scsi!Blocks -> Data]
  BY <1>1 DEF ScsiInv
<1>3. ASSUME NEW b \in Scsi!Bytes PROVE memory'[b] = disk'[b \div SectorSize]
  <2>1. b \div SectorSize \in Scsi!Blocks /\ memory[b] = disk[b \div SectorSize]
    BY BytesLieInBlocks DEF ScsiInv
  <2>2. b \in Scsi!Copied(r) <=>
          Scsi!Status(r) = "SUCCESS" /\ b \div SectorSize \in Scsi!Named(r)
    <3>1. CASE Scsi!Status(r) = "SUCCESS"
      BY <3>1, CopyIsNamed
    <3>2. CASE Scsi!Status(r) # "SUCCESS"
      BY <3>2 DEF Scsi!Copied
    <3> QED
      BY <3>1, <3>2
  <2> QED
    BY <1>1, <2>1, <2>2
<1>4. Answered'
  BY <1>1 DEF Answered
<1> QED
  BY <1>2, <1>3, <1>4 DEF ScsiInv

\* A read changes neither memory nor disk, and its reply holds what was copied.
LEMMA ReadKeeps ==
  ASSUME ScsiInv, NEW r \in Scsi!Requests, Scsi!Read(r)
  PROVE  ScsiInv'
<1>1. Answered'
  BY DEF Scsi!Read, Answered
<1>2. UNCHANGED <<memory, disk>>
  BY DEF Scsi!Read
<1> QED
  BY <1>1, <1>2 DEF ScsiInv

\* Every step of the part keeps the invariant, and so does a step of the other part.
LEMMA ScsiStep ==
  ASSUME ScsiInv, Scsi!Next \/ UNCHANGED scsiVars
  PROVE  ScsiInv'
<1>1. CASE Scsi!Complete
  BY <1>1 DEF Scsi!Complete, ScsiInv
<1>2. CASE UNCHANGED scsiVars
  BY <1>2 DEF scsiVars, ScsiInv, Answered
<1> QED
  BY <1>1, <1>2, WriteKeeps, ReadKeeps DEF Scsi!Next

\* The memory of a new disk reads as zeroes.
LEMMA ScsiStart ==
  ASSUME Scsi!Init PROVE ScsiInv
<1>1. \A b \in Scsi!Bytes : b \div SectorSize \in Scsi!Blocks
  BY BytesLieInBlocks
<1> QED
  BY <1>1, Widths DEF Scsi!Init, ScsiInv

\* What a reply says of the request, when the copy is made.
LEMMA InvImpliesMemoryIsADisk ==
  ASSUME ScsiInv PROVE MemoryIsADisk
<1>1. \A b \in Scsi!Bytes : memory[b] = disk[b \div SectorSize]
  BY DEF ScsiInv
<1>2. ASSUME result.status = "SUCCESS", result.length > 0
      PROVE  /\ result.offset + result.length <= Scsi!SizeBytes
             /\ result.length <= srb.length /\ result.length <= MaxTransfer
             /\ ~srb.write =>
                  /\ \A b \in DOMAIN result.read : result.read[b] = disk[b \div SectorSize]
                  /\ {b \div SectorSize : b \in DOMAIN result.read} = Scsi!Named(srb)
  <2> DEFINE n == Scsi!BlockCount(srb)
  <2>1. Answered /\ srb \in Scsi!Requests /\ Scsi!Status(srb) = "SUCCESS"
    BY <1>2 DEF ScsiInv, Answered, Scsi!NoResult
  <2>2. /\ result.offset = Scsi!ByteOffset(srb.lba) /\ result.length = Scsi!ByteCount(n)
    BY <2>1 DEF Answered, Scsi!Transferred
  <2>3. n # 0
    BY <1>2, <2>2, Widths DEF Scsi!ByteCount
  <2>4. /\ Scsi!ByteOffset(srb.lba) = srb.lba * SectorSize /\ Scsi!ByteCount(n) = n * SectorSize
        /\ srb.lba * SectorSize + n * SectorSize <= Scsi!SizeBytes
        /\ n * SectorSize <= MaxTransfer /\ n * SectorSize <= srb.length
    BY <2>1, <2>3, StatusMeans
  <2>5. ASSUME ~srb.write
        PROVE  /\ \A b \in DOMAIN result.read : result.read[b] = disk[b \div SectorSize]
               /\ {b \div SectorSize : b \in DOMAIN result.read} = Scsi!Named(srb)
    <3>1. /\ \A b \in Scsi!Bytes : b \in Scsi!Copied(srb) <=> b \div SectorSize \in Scsi!Named(srb)
          /\ Scsi!Copied(srb) \subseteq Scsi!Bytes
          /\ \A k \in Scsi!Named(srb) : k * SectorSize \in Scsi!Copied(srb) /\ k \in Nat
      BY <2>1, CopyIsNamed
    <3>2. result.read = [b \in Scsi!Copied(srb) |-> memory[b]]
      <4>1. Scsi!Copied(srb) \cap Scsi!Bytes = Scsi!Copied(srb)
        BY <3>1
      <4> QED
        BY <2>1, <2>5, <4>1 DEF Answered
    <3>3. \A k \in Scsi!Named(srb) : (k * SectorSize) \div SectorSize = k
      BY <3>1, Widths, ProductOverFactor
    <3>4. \A b \in DOMAIN result.read : result.read[b] = disk[b \div SectorSize]
      BY <1>1, <3>1, <3>2
    <3>5. {b \div SectorSize : b \in Scsi!Copied(srb)} = Scsi!Named(srb)
      BY <3>1, <3>3
    <3> QED
      BY <3>2, <3>4, <3>5
  <2> QED
    BY <2>2, <2>4, <2>5
<1>3. Scsi!StaysInside /\ Scsi!ReadsLastWritten
  BY <1>1, <1>2 DEF Scsi!StaysInside, Scsi!ReadsLastWritten
<1> QED
  BY <1>3 DEF MemoryIsADisk, Scsi!MemoryIsADisk

\* The range of named blocks is empty, or on the disk, as the tests of the counts say.
LEMMA InvImpliesServedIffLegal ==
  ASSUME ScsiInv PROVE ServedIffLegal
<1> SUFFICES ASSUME result.status # "none"
             PROVE  result.status = "SUCCESS" <=>
       /\ srb.cdb >= srb.form
       /\ \/ Scsi!Named(srb) = {}
          \/ /\ Scsi!Named(srb) \subseteq Scsi!Blocks
             /\ (IF srb.form = 6 /\ srb.count = 0 THEN ByteRange ELSE srb.count) * SectorSize
                  <= (IF MaxTransfer < srb.length THEN MaxTransfer ELSE srb.length)
  BY DEF ServedIffLegal, Scsi!ServedIffLegal
<1> DEFINE n == Scsi!BlockCount(srb)
<1>1. srb \in Scsi!Requests /\ result.status = Scsi!Status(srb)
  BY DEF ScsiInv, Answered, Scsi!NoResult
<1>2. srb.lba \in Nat /\ srb.length \in Nat /\ n \in Nat
  BY <1>1, RequestFields
<1>3. /\ Scsi!Named(srb) = srb.lba..(srb.lba + n - 1)
      /\ n = IF srb.form = 6 /\ srb.count = 0 THEN ByteRange ELSE srb.count
  BY DEF Scsi!Named, Scsi!BlockCount
<1>4. Scsi!Status(srb) = "SUCCESS" <=>
           /\ srb.cdb >= srb.form
           /\ \/ n = 0
              \/ /\ srb.lba + n <= DiskBlocks
                 /\ n * SectorSize <= MaxTransfer /\ n * SectorSize <= srb.length
  BY <1>1, StatusMeans
<1> HIDE DEF n
<1>5. Scsi!Named(srb) = {} <=> n = 0
  BY <1>2, <1>3
<1>6. n # 0 => (Scsi!Named(srb) \subseteq Scsi!Blocks <=> srb.lba + n <= DiskBlocks)
  <2>1. ASSUME n # 0, Scsi!Named(srb) \subseteq Scsi!Blocks PROVE srb.lba + n <= DiskBlocks
    <3>1. srb.lba + n - 1 \in Scsi!Named(srb)
      BY <1>2, <1>3, <2>1
    <3> QED
      BY <1>2, <2>1, <3>1, Widths DEF Scsi!Blocks
  <2>2. ASSUME srb.lba + n <= DiskBlocks PROVE Scsi!Named(srb) \subseteq Scsi!Blocks
    BY <1>2, <1>3, <2>2, Widths DEF Scsi!Blocks
  <2> QED
    BY <2>1, <2>2
<1>7. n * SectorSize <= (IF MaxTransfer < srb.length THEN MaxTransfer ELSE srb.length)
        <=> n * SectorSize <= MaxTransfer /\ n * SectorSize <= srb.length
  <2>1. n * SectorSize \in Nat
    BY <1>2, Widths, ProductsGrow
  <2> QED
    BY <1>2, <2>1, Widths
<1> QED
  BY <1>1, <1>3, <1>4, <1>5, <1>6, <1>7

\* The part of the specification that says what a step may do.
LEMMA PartsSafety ==
  PartsSpec => PartsInit /\ [][PartsNext]_<<part, vars, scsiVars>>
<1> QED
  BY PTL DEF PartsSpec

\* Whatever address, count, length and form a request has, HandleReadWrite copies inside the
\* backing memory, the buffer and the limit, and a block reads as it was last written, for
\* every size of disk and sector that the words can address.
THEOREM DisksReadBack == PartsSpec => []MemoryIsADisk
<1>1. PartsInit => ScsiInv
  BY ScsiStart DEF PartsInit
<1>2. ScsiInv /\ [PartsNext]_<<part, vars, scsiVars>> => ScsiInv'
  BY ScsiStep DEF PartsNext
<1>3. ScsiInv => MemoryIsADisk
  BY InvImpliesMemoryIsADisk
<1> QED
  BY <1>1, <1>2, <1>3, PartsSafety, PTL

\* HandleReadWrite serves a request exactly when its blocks are on the disk and its bytes
\* fit the limit and the buffer: the order of its tests and the words that wrap refuse no
\* legal request at the end of the disk and let no other one through.
THEOREM LegalRequestsAreServed == PartsSpec => []ServedIffLegal
<1>1. PartsInit => ScsiInv
  BY ScsiStart DEF PartsInit
<1>2. ScsiInv /\ [PartsNext]_<<part, vars, scsiVars>> => ScsiInv'
  BY ScsiStep DEF PartsNext
<1>3. ScsiInv => ServedIffLegal
  BY InvImpliesServedIffLegal
<1> QED
  BY <1>1, <1>2, <1>3, PartsSafety, PTL

=============================================================================
