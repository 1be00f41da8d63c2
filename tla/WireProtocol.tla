------------------------------ MODULE WireProtocol ------------------------------
(***************************************************************************)
(* One control exchange, from both ends: Adapter::send and what it checks  *)
(* (cli adapter/mod.rs, control_operation.rs, protocol.rs) against what    *)
(* the driver reads and writes (control_request.cpp, operation_state.cpp,   *)
(* disk_operations.cpp), in the order the CLI uses it: a scan of the SCSI   *)
(* ports for the first adapter that answers QueryVersion, then requests to *)
(* it.  Behind a port may be this driver, another version of it, or a      *)
(* miniport of somebody else that fails the request or completes it        *)
(* untouched, but perhaps for the control block.                           *)
(*                                                                         *)
(* Sizes are in bytes.  A definition may follow a wrong form of itself,    *)
(* named for the mistake and used by no action.                            *)
(***************************************************************************)
EXTENDS Integers

CONSTANTS
  Ports,           \* bound of the model: \\.\Scsi0: to \\.\Scsi(Ports - 1):
  MaxCorrelation   \* bound of the model: requests made

\* What the instances of this module assume.
WireAssumption == Ports \in Nat /\ MaxCorrelation \in Nat

Code == [QueryVersion |-> 2048, Reserve |-> 2052, QueryResult |-> 2053,
         CreateReserved |-> 2054, DeleteReserved |-> 2055, ListState |-> 2056]
Operations == DOMAIN Code

ControlSize == 28           \* SRB_IO_CONTROL
HeaderSize == 24            \* RequestHeader and ResponseHeader
BufferSize == 1024
RequestSize == [QueryVersion |-> 24, Reserve |-> 32, QueryResult |-> 40,
                CreateReserved |-> 64, DeleteReserved |-> 48, ListState |-> 24]
ResponseSize == [QueryVersion |-> 40, Reserve |-> 64, QueryResult |-> 64,
                 CreateReserved |-> 64, DeleteReserved |-> 64, ListState |-> 816]
ProtocolVersion == 1

\* NTSTATUS values, negative when the driver refuses.
Success == 0
Refusals == {-1, -2}

VARIABLES
  kind,            \* what is behind each port
  port,            \* the port being probed, then the one of the adapter
  phase,           \* "scan", "use", or "none" when no adapter was found
  request,         \* the last request, as transmitted
  reply,           \* the buffer when DeviceIoControl returned
  verdict,         \* what send returned: [is, status]
  correlation      \* NEXT_CORRELATION_ID

vars == <<kind, port, phase, request, reply, verdict, correlation>>

MaximumDiskCount == 16

Kinds == {"nothing", "ours", "otherVersion", "foreign", "failing"}
NoReply == [from |-> "nothing"]
NoRequest == [operation |-> 0]
Unread == [is |-> "none", status |-> Success]

\* The state is well formed; the scan of Adapter::adapters stops at the last port, and a
\* connection in use names a port that was probed.
TypeOK ==
  /\ kind \in [0..(Ports - 1) -> Kinds] /\ port \in 0..Ports
  /\ phase \in {"scan", "use", "none"} /\ (phase = "use" => port < Ports)
  /\ verdict.is \in {"none", "ok", "control", "rejected", "mismatch", "truncated", "short",
                     "size", "transport"}
  /\ verdict.status \in Refusals \cup {Success}
  /\ correlation \in 1..(MaxCorrelation + 1)

Init ==
  /\ kind \in [0..(Ports - 1) -> Kinds] /\ port = 0 /\ phase = "scan"
  /\ request = NoRequest /\ reply = NoReply /\ verdict = Unread
  /\ correlation = 1

-----------------------------------------------------------------------------
(***************************************************************************)
(* The CLI's request: request_header, and the control block that send      *)
(* writes in front of it.                                                  *)
(***************************************************************************)
Request(op) ==
  [structSize |-> RequestSize[op], version |-> ProtocolVersion, operation |-> Code[op],
   flags |-> 0, correlation |-> correlation]

PayloadCapacity == BufferSize - ControlSize

\* send refuses messages that its buffer cannot hold.
Fits(op) == ControlSize + RequestSize[op] <= BufferSize /\
            ControlSize + ResponseSize[op] <= BufferSize

-----------------------------------------------------------------------------
(***************************************************************************)
(* The driver: FromSrb, ReadAndValidateRequestHeader, the handler, and      *)
(* WriteResponse or WriteError with PrepareCompletion.                     *)
(***************************************************************************)
HeaderAccepted(r, op) ==
  /\ PayloadCapacity >= RequestSize[op]
  /\ r.structSize = RequestSize[op] /\ r.version = ProtocolVersion
  /\ r.operation = Code[op] /\ r.flags = 0

\* MakeResponseHeader echoes the operation and the correlation ID.  The control block,
\* HeaderLength and Signature included, stays as send wrote it.
Reply(r, size, status) ==
  [from |-> "ours", control |-> TRUE, returned |-> ControlSize + size, length |-> size, returnCode |-> status,
   structSize |-> size, version |-> ProtocolVersion, operation |-> r.operation,
   status |-> status, correlation |-> r.correlation,
   major |-> 0, minor |-> 3, disks |-> MaximumDiskCount]

OurReplies(r, op) ==
  IF ~HeaderAccepted(r, op) \/ PayloadCapacity < ResponseSize[op]
  THEN {Reply(r, HeaderSize, status) : status \in Refusals}
  ELSE {Reply(r, ResponseSize[op], Success)} \cup
       (IF op \in {"QueryVersion", "ListState"} THEN {}
        ELSE {Reply(r, HeaderSize, status) : status \in Refusals})

\* A driver before operation recovery answers QueryVersion with 0.1; a later one may have
\* another major version, or more disks.
OtherVersionReplies(r, op) ==
  LET ours == Reply(r, ResponseSize[op], Success)
  IN  {[ours EXCEPT !.from = "otherVersion", !.minor = 1],
       [ours EXCEPT !.from = "otherVersion", !.major = 1],
       [ours EXCEPT !.from = "otherVersion", !.disks = MaximumDiskCount + 1]}

\* Completed as it came: the request header is read as a response header.  Its
\* flags take the place of the status, and the rest of the buffer is zero.
Untouched(r) ==
  [from |-> "foreign", control |-> TRUE, returned |-> BufferSize, length |-> PayloadCapacity,
   returnCode |-> 0, structSize |-> r.structSize, version |-> r.version,
   operation |-> r.operation, status |-> r.flags, correlation |-> r.correlation,
   major |-> 0, minor |-> 0, disks |-> 0]

\* Or the control block is somebody else's.
ForeignReplies(r) == {Untouched(r), [Untouched(r) EXCEPT !.control = FALSE]}

Replies(k, r, op) ==
  CASE k = "ours" -> OurReplies(r, op) \cup {NoReply}
    [] k = "otherVersion" -> OtherVersionReplies(r, op)
    [] k = "foreign" -> ForeignReplies(r)
    [] OTHER -> {NoReply}

-----------------------------------------------------------------------------
(***************************************************************************)
(* send on the way back: validate_response_header, then the lengths.       *)
(***************************************************************************)
Verdict(is, status) == [is |-> is, status |-> status]

SizeUnchecked(b, op) == TRUE
SizeConfirmed(b, op) == b.structSize = ResponseSize[op]

Receive(b, op, r) ==
  IF b.from = "nothing" THEN Verdict("transport", Success)
  ELSE IF b.returned < ControlSize + HeaderSize THEN Verdict("truncated", Success)
  ELSE IF ~b.control THEN Verdict("control", Success)
  ELSE IF b.version # ProtocolVersion \/ b.operation # Code[op]
          \/ b.correlation # r.correlation THEN Verdict("mismatch", Success)
  ELSE IF b.status < 0 THEN Verdict("rejected", b.status)
  ELSE IF b.returnCode < 0 THEN Verdict("rejected", b.returnCode)
  ELSE IF b.returned < ControlSize + ResponseSize[op] \/ b.length < ResponseSize[op]
       THEN Verdict("short", Success)
  ELSE IF ~SizeConfirmed(b, op) THEN Verdict("size", Success)
  ELSE Verdict("ok", Success)

Transmit(p, r, op) ==
  /\ Fits(op)
  /\ request' = r
  /\ \E b \in Replies(kind[p], r, op) : reply' = b /\ verdict' = Receive(b, op, r)
  /\ UNCHANGED kind

NextCorrelation == correlation' = correlation + 1

-----------------------------------------------------------------------------
(***************************************************************************)
(* adapters(): the lazy scan, and query_version's verdict.                 *)
(***************************************************************************)
Supported == reply'.major = 0 /\ reply'.minor >= 2 /\ reply'.disks <= MaximumDiskCount

Probe ==
  /\ phase = "scan" /\ port < Ports /\ kind[port] # "nothing"
  /\ correlation <= MaxCorrelation /\ NextCorrelation
  /\ Transmit(port, Request("QueryVersion"), "QueryVersion")
  /\ IF verdict'.is = "ok" /\ Supported
       THEN phase' = "use" /\ UNCHANGED port
       ELSE port' = port + 1 /\ UNCHANGED phase

SkipPort ==
  /\ phase = "scan" /\ port < Ports /\ kind[port] = "nothing"
  /\ port' = port + 1
  /\ UNCHANGED <<kind, phase, request, reply, verdict, correlation>>

ScanEnds ==
  /\ phase = "scan" /\ port = Ports
  /\ phase' = "none"
  /\ UNCHANGED <<kind, port, request, reply, verdict, correlation>>

Exchange(op) ==
  /\ phase = "use"
  /\ correlation <= MaxCorrelation /\ NextCorrelation
  /\ Transmit(port, Request(op), op)
  /\ UNCHANGED <<port, phase>>

\* resolve_operation submits the same request, correlation ID included, again.
Resubmit(op) ==
  /\ phase = "use" /\ request.operation = Code[op]
  /\ op \in {"CreateReserved", "DeleteReserved"}
  /\ Transmit(port, request, op)
  /\ UNCHANGED <<port, phase, correlation>>

Next ==
  \/ Probe \/ SkipPort \/ ScanEnds
  \/ \E op \in Operations : Exchange(op) \/ Resubmit(op)

Spec == Init /\ [][Next]_vars

-----------------------------------------------------------------------------
(***************************************************************************)
(* Properties.                                                             *)
(***************************************************************************)

\* Whatever this driver answers is understood as it was meant: a refusal comes
\* out of send as a DriverRejection with the driver's status, which is what makes
\* a submission terminal, and a success is never mistaken for a malformed answer.
AnswersUnderstood ==
  reply.from = "ours" =>
    IF reply.status < 0 THEN verdict = Verdict("rejected", reply.status)
    ELSE verdict.is = "ok"

\* A request that comes back untouched is not taken for an answer, although its
\* header reads as a well-formed response to itself.
UntouchedIsNoAnswer == reply.from = "foreign" => verdict.is # "ok"

\* The adapter that the CLI goes on to use is this driver, whatever else is behind
\* the ports that were probed before it.
AdapterIsOurs == phase = "use" => kind[port] = "ours"

\* Adapter::send tells this driver's successes, its refusals and everything else apart,
\* and the scan settles on this driver.
ExchangeIsSound == TypeOK /\ AnswersUnderstood /\ UntouchedIsNoAnswer /\ AdapterIsOurs

=============================================================================
