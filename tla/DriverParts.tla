------------------------------ MODULE DriverParts --------------------------------
(***************************************************************************)
(* Two parts of the driver that share no state with each other: the        *)
(* identities of adapters (AdapterIdentity) and the arithmetic of READ and *)
(* WRITE (ReadWrite).  A behaviour is one of either part, while the other  *)
(* stays in an initial state.                                              *)
(***************************************************************************)
EXTENDS AdapterIdentity

CONSTANTS          \* of ReadWrite
  DiskBlocks, SectorSize, MaxTransfer, ByteRange, UShortRange, Lba6Range, ULongRange,
  ULongLongRange, Data, Blank

VARIABLES
  part,                       \* the part that moves
  memory, disk, srb, result   \* of ReadWrite

Scsi == INSTANCE ReadWrite

ASSUME Parameters == Scsi!ReadWriteAssumption

scsiVars == <<memory, disk, srb, result>>

PartsInit ==
  /\ part \in {"identity", "scsi"} /\ Init /\ Scsi!Init
  /\ part = "scsi" => \A t \in Times : clock <= t

PartsNext ==
  \/ part = "identity" /\ Next /\ UNCHANGED <<part, scsiVars>>
  \/ part = "scsi" /\ Scsi!Next /\ UNCHANGED <<part, vars>>

\* AdapterIdentity's fairness; a disk may stay idle.
PartsSpec ==
  /\ PartsInit /\ [][PartsNext]_<<part, vars, scsiVars>>
  /\ \A a \in Adapters : WF_vars(part = "identity" /\ Step(a))

-----------------------------------------------------------------------------
\* scsi/read_write.cpp: the copy stays inside, and the memory reads back as last written.
MemoryIsADisk == Scsi!MemoryIsADisk
\* scsi/read_write.cpp: exactly the requests that fit are served.
ServedIffLegal == Scsi!ServedIffLegal
=============================================================================
