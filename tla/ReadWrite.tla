------------------------------- MODULE ReadWrite -------------------------------
(***************************************************************************)
(* READ and WRITE (driver scsi/read_write.cpp): the 6, 10, 12 and 16 byte  *)
(* forms, the range check at the end of the disk, the limits on a transfer *)
(* and the copy to or from the backing memory, as arithmetic on words that *)
(* wrap.  The configuration scales the widths: ULongRange values fit a     *)
(* ULONG, ULongLongRange a ULONGLONG, the two-byte count has UShortRange,  *)
(* the 21-bit address Lba6Range, and the one-byte count ByteRange values,  *)
(* of which 0 stands for ByteRange blocks (256 in the code).               *)
(*                                                                         *)
(* disk is the reference: what each block holds according to the writes    *)
(* that were reported done.  A definition may follow a wrong form of       *)
(* itself, named for the mistake and used by no action.                    *)
(***************************************************************************)
EXTENDS Integers

CONSTANTS
  DiskBlocks,      \* size of the disk, in sectors
  SectorSize,      \* kLogicalSectorSize
  MaxTransfer,     \* kMaximumTransferLength
  ByteRange, UShortRange, Lba6Range, ULongRange, ULongLongRange,
  Data,            \* what a write may carry
  Blank            \* what the zeroed memory reads as, a member of Data

\* What the instances of this module assume.
ReadWriteAssumption ==
  /\ DiskBlocks \in Nat \ {0} /\ SectorSize \in Nat \ {0}
  /\ {ByteRange, UShortRange, Lba6Range, ULongRange, ULongLongRange} \subseteq Nat \ {0}
  /\ MaxTransfer \in Nat /\ MaxTransfer < ULongRange
  /\ ByteRange <= UShortRange /\ UShortRange <= Lba6Range /\ Lba6Range <= ULongRange
  /\ ULongRange <= ULongLongRange
  /\ DiskBlocks * SectorSize < ULongLongRange /\ Blank \in Data

Forms == {6, 10, 12, 16}
SizeBytes == DiskBlocks * SectorSize
Bytes == 0..(SizeBytes - 1)
Blocks == 0..(DiskBlocks - 1)

VARIABLES
  memory,          \* the backing store, by byte
  disk,            \* the reference, by block
  srb,             \* the last request
  result           \* its status, how much was transferred, from where, and the data read

vars == <<memory, disk, srb, result>>

\* Addresses and counts that the fields of each form can hold.
LbaRange(form) ==
  CASE form = 6 -> Lba6Range [] form = 16 -> ULongLongRange [] OTHER -> ULongRange
CountRange(form) ==
  CASE form = 6 -> ByteRange [] form = 10 -> UShortRange [] OTHER -> ULongRange

NoRequest == [form |-> 6, lba |-> 0, count |-> 0, length |-> 0, cdb |-> 0, write |-> FALSE]
NoResult == [status |-> "none", offset |-> 0, length |-> 0, read |-> <<>>]

Init ==
  /\ memory = [b \in Bytes |-> Blank] /\ disk = [b \in Blocks |-> Blank]
  /\ srb = NoRequest
  /\ result = NoResult

-----------------------------------------------------------------------------
(***************************************************************************)
(* ParseReadWriteCdb and HandleReadWrite.                                  *)
(***************************************************************************)
ShortCdb(r) == r.cdb < r.form

BlockCountAsIs(r) == r.count
BlockCount(r) == IF r.form = 6 /\ r.count = 0 THEN ByteRange ELSE r.count

\* The sum is never formed, so it cannot wrap.
OutOfRange(lba, count) == lba >= DiskBlocks \/ count > DiskBlocks - lba

ByteOffsetOfBlock(lba) == lba
ByteOffset(lba) == (lba * SectorSize) % ULongLongRange
ByteCount(count) == (count * SectorSize) % ULongLongRange

TooLong(bytes) == bytes > MaxTransfer \/ bytes >= ULongRange

\* A request without a buffer has length 0 here.
BufferTooSmall(r, bytes) == r.length < bytes

Status(r) ==
  LET count == BlockCount(r)
      bytes == ByteCount(count)
  IN  IF ShortCdb(r) THEN "INVALID_CDB"
      ELSE IF count = 0 THEN "SUCCESS"
      ELSE IF OutOfRange(r.lba, count) THEN "ILLEGAL_BLOCK"
      ELSE IF TooLong(bytes) \/ BufferTooSmall(r, bytes) THEN "INVALID_CDB"
      ELSE "SUCCESS"

\* The bytes RtlCopyMemory touches, counted from the start of the backing store.
Copied(r) ==
  IF Status(r) = "SUCCESS"
  THEN LET offset == ByteOffset(r.lba)
       IN  offset..(offset + ByteCount(BlockCount(r)) - 1)
  ELSE {}

Transferred(r) == IF Status(r) = "SUCCESS" THEN ByteCount(BlockCount(r)) ELSE 0

\* The blocks the initiator named, in plain arithmetic.
Named(r) ==
  r.lba..(r.lba + (IF r.form = 6 /\ r.count = 0 THEN ByteRange ELSE r.count) - 1)

Write(r, d) ==
  /\ r.write
  /\ srb' = r
  /\ memory' = [b \in Bytes |-> IF b \in Copied(r) THEN d ELSE memory[b]]
  /\ disk' = [b \in Blocks |-> IF Status(r) = "SUCCESS" /\ b \in Named(r) THEN d ELSE disk[b]]
  /\ result' = [status |-> Status(r), offset |-> ByteOffset(r.lba),
                length |-> Transferred(r), read |-> <<>>]

Read(r) ==
  /\ ~r.write
  /\ srb' = r
  /\ result' = [status |-> Status(r), offset |-> ByteOffset(r.lba),
                length |-> Transferred(r),
                read |-> [b \in Copied(r) \cap Bytes |-> memory[b]]]
  /\ UNCHANGED <<memory, disk>>

\* The request goes back to StorPort.
Complete ==
  /\ result # NoResult /\ result' = NoResult /\ srb' = NoRequest
  /\ UNCHANGED <<memory, disk>>

Requests ==
  UNION {[form : {f}, lba : 0..(LbaRange(f) - 1), count : 0..(CountRange(f) - 1),
          length : {0, SectorSize, MaxTransfer, ULongRange - 1}, cdb : {f - 1, f},
          write : BOOLEAN] : f \in Forms}

Next ==
  \/ /\ result = NoResult
     /\ \E r \in Requests : Read(r) \/ \E d \in Data : Write(r, d)
  \/ Complete

Spec == Init /\ [][Next]_vars

-----------------------------------------------------------------------------
(***************************************************************************)
(* Properties.                                                             *)
(***************************************************************************)
\* No request makes the copy leave the backing memory, the initiator's buffer or the limit
\* on a transfer, however large the address and count fields of its CDB.
StaysInside ==
  result.status = "SUCCESS" /\ result.length > 0 =>
    /\ result.offset + result.length <= SizeBytes
    /\ result.length <= srb.length /\ result.length <= MaxTransfer

\* The memory is a disk: block by block it holds what the last successful write to that
\* block carried, and a successful read delivers exactly the blocks it named.
ReadsLastWritten ==
  /\ \A b \in Bytes : memory[b] = disk[b \div SectorSize]
  /\ result.status = "SUCCESS" /\ result.length > 0 /\ ~srb.write =>
       /\ \A b \in DOMAIN result.read : result.read[b] = disk[b \div SectorSize]
       /\ {b \div SectorSize : b \in DOMAIN result.read} = Named(srb)

\* The checks refuse nothing else: a request whose blocks are on the disk and whose bytes
\* fit the transfer limit and the buffer succeeds, and only such a one.
ServedIffLegal ==
  result.status # "none" =>
    (result.status = "SUCCESS" <=>
       /\ srb.cdb >= srb.form
       /\ \/ Named(srb) = {}
          \/ /\ Named(srb) \subseteq Blocks
             /\ (IF srb.form = 6 /\ srb.count = 0 THEN ByteRange ELSE srb.count) * SectorSize
                  <= (IF MaxTransfer < srb.length THEN MaxTransfer ELSE srb.length))

\* The backing memory is a disk of its size: HandleReadWrite copies inside it, and each
\* block reads as it was last written.
MemoryIsADisk == StaysInside /\ ReadsLastWritten

=============================================================================
