-------------------------------- MODULE CliProofs --------------------------------
(***************************************************************************)
(* Proofs about the parts of the CLI, for every number of events, ports,   *)
(* interfaces, installers and arguments.  Each part has an invariant that  *)
(* the steps of its own specification keep; the last section brings the    *)
(* results to Cli, whose steps are steps of one part.  AddDisk and         *)
(* RemoveDisk have modules of proofs of their own.                         *)
(***************************************************************************)
EXTENDS Cli, Integers, Sequences, TLAPS

-----------------------------------------------------------------------------
(***************************************************************************)
(* Logging.                                                                *)
(***************************************************************************)
\* No line is in two places or in none; while the call that would lose one has not failed,
\* the session is stopped behind the events, and the consumer thread has drained them before
\* the callback state goes.
LogInv ==
  /\ Log!TypeOK
  /\ logEvents = logBuffered + logLines + logWritten + logDropped
  /\ logPc \in {"subscribe", "session"} =>
       logSession = "none" /\ logWorker = "none" /\ logFinished = "no"
  /\ logPc \in {"spawn", "command", "stop"} =>
       logSession = "running" /\ logConsumer = "open" /\ logFinished = "no" /\ logHeld
  /\ logPc = "spawn" => logWorker = "none"
  /\ logPc \in {"close", "join"} => logHeld
  /\ logPc = "close" => logFinished = "failed"
  /\ logPc = "join" /\ logFinished # "failed" =>
       logSession = "stopped" /\ logConsumer = "open"
  /\ logPc = "release" => logWorker = "exited" /\ logSession = "stopped" /\ logBuffered = 0
  /\ logPc = "report" /\ logFinished # "failed" => logSession = "stopped" /\ logBuffered = 0
  /\ logPc \in {"flush", "exit"} /\ ~logWarned =>
       logSession = "stopped" /\ logBuffered = 0 /\ logReported = logDropped
  /\ logPc = "exit" /\ ~logWarned => logLines = 0
  /\ logWorker = "running" => logHeld
  /\ logWorker = "exited" =>
       logConsumer = "closed" \/ (logSession = "stopped" /\ logBuffered = 0)

\* The bounds of Logging are numbers.
LEMMA LogBounds == MaxEvents \in Nat /\ LineLimit \in Nat
  BY Parameters DEF Log!LoggingAssumption

\* Nothing has been logged before Logging::start.
LEMMA LogInit == Log!Init => LogInv
<1> SUFFICES ASSUME Log!Init PROVE LogInv
  OBVIOUS
<1>1. /\ logHeld \in BOOLEAN /\ logJoinable \in BOOLEAN /\ logWarned \in BOOLEAN
      /\ ~logHeld /\ ~logJoinable /\ ~logWarned
  BY DEF Log!Init
<1> QED
  BY <1>1, LogBounds DEF LogInv, Log!Init, Log!TypeOK

\* The main thread keeps the account, whichever of its calls fails.
LEMMA LogMainStep == LogInv /\ Log!MainStep => LogInv'
<1> SUFFICES ASSUME LogInv, Log!MainStep PROVE LogInv'
  OBVIOUS
<1> USE LogBounds DEF LogInv, Log!TypeOK, Log!counts
<1>1. CASE Log!Install
  BY <1>1 DEF Log!Install
<1>2. CASE Log!StartSession
  BY <1>2 DEF Log!StartSession
<1>3. CASE Log!SpawnConsumer
  BY <1>3 DEF Log!SpawnConsumer
<1>4. CASE Log!CommandEnds
  BY <1>4 DEF Log!CommandEnds
<1>5. CASE Log!StopSession
  BY <1>5 DEF Log!StopSession
<1>6. CASE Log!CloseConsumer
  BY <1>6 DEF Log!CloseConsumer, Log!AfterFailedClose
<1>7. CASE Log!Join
  BY <1>7 DEF Log!Join, Log!WorkerDone
<1>8. CASE Log!Release
  BY <1>8 DEF Log!Release
<1>9. CASE Log!ReportDroppedLines
  BY <1>9 DEF Log!ReportDroppedLines, Log!Warns
<1>10. CASE Log!Flush
  BY <1>10 DEF Log!Flush
<1> QED
  BY <1>1, <1>2, <1>3, <1>4, <1>5, <1>6, <1>7, <1>8, <1>9, <1>10 DEF Log!MainStep

\* The command, the driver, the consumer thread and the writer keep it too.
LEMMA LogNext == LogInv /\ [Log!Next]_(Log!vars) => LogInv'
<1> SUFFICES ASSUME LogInv, [Log!Next]_(Log!vars) PROVE LogInv'
  OBVIOUS
<1> USE LogBounds DEF LogInv, Log!TypeOK, Log!counts, Log!fixed
<1>1. CASE Log!MainStep
  BY <1>1, LogMainStep
<1>2. CASE Log!CommandLogs
  BY <1>2 DEF Log!CommandLogs, Log!Emit
<1>3. CASE Log!DriverEmits
  BY <1>3 DEF Log!DriverEmits
<1>4. CASE Log!OnEvent
  <2>1. CASE logLines < LineLimit
    BY <1>4, <2>1 DEF Log!OnEvent, Log!Emit
  <2>2. CASE ~(logLines < LineLimit)
    BY <1>4, <2>2 DEF Log!OnEvent, Log!Emit
  <2> QED
    BY <2>1, <2>2
<1>5. CASE Log!WorkerExits
  BY <1>5 DEF Log!WorkerExits
<1>6. CASE Log!WriteLine
  BY <1>6 DEF Log!WriteLine
<1>7. CASE UNCHANGED Log!vars
  BY <1>7 DEF Log!vars
<1> QED
  BY <1>1, <1>2, <1>3, <1>4, <1>5, <1>6, <1>7 DEF Log!Next, Log!WorkerStep

-----------------------------------------------------------------------------
(***************************************************************************)
(* Installing the driver.                                                  *)
(***************************************************************************)
\* What an installer has of its own at each step of DriverPackage::install: only a registered
\* device is removed, by the process that registered it, after its binding failed.
InstallInv ==
  /\ Install!TypeOK
  /\ \A p \in Installers :
       /\ installPc[p] \in {"look", "truncate", "fill", "stage", "exists", "info"} =>
            installDevice[p] = "none"
       /\ installPc[p] \in {"id", "register"} => installDevice[p] = "info"
       /\ installPc[p] \in {"bind", "wait", "remove", "end"} => installDevice[p] # "info"
       /\ installPc[p] = "remove" =>
            installDevice[p] = "registered" /\ installLastError[p] = "bind"
       /\ installPc[p] \notin {"remove", "end"} => installLastError[p] = "none"
       /\ installPc[p] # "end" => installResult[p] = "none"
  /\ Install!FailureLeavesNoDevice /\ Install!OthersUntouched /\ Install!BindErrorSurvives

\* The package has three files, extracted in order.
LEMMA PackageOrder ==
  /\ DOMAIN Install!PackageFiles = 1..3 /\ Len(Install!PackageFiles) = 3
  /\ \A i \in 1..3 : Install!PackageFiles[i] \in Install!Files
  BY DEF Install!PackageFiles, Install!Files

\* No installer has started.
LEMMA InstallInit == Install!Init => InstallInv
<1> SUFFICES ASSUME Install!Init PROVE InstallInv
  OBVIOUS
<1>1. installStaged \in BOOLEAN
  BY DEF Install!Init
<1> QED
  BY <1>1, PackageOrder DEF Install!Init, InstallInv, Install!TypeOK, Install!Registered,
     Install!FailureLeavesNoDevice, Install!OthersUntouched, Install!BindErrorSurvives

\* A step of one installer keeps what every installer relies on.
LEMMA InstallStep ==
  ASSUME InstallInv, NEW p \in Installers, Install!Step(p) PROVE InstallInv'
<1> USE DEF InstallInv, Install!TypeOK, Install!Registered, Install!FailureLeavesNoDevice,
     Install!OthersUntouched, Install!BindErrorSurvives, Install!world, Install!Go,
     Install!Return
<1>1. CASE Install!Look(p)
  BY <1>1 DEF Install!Look
<1>2. CASE Install!WaitForAdapter(p)
  BY <1>2 DEF Install!WaitForAdapter
<1>3. CASE Install!TruncateFile(p)
  BY <1>3, PackageOrder DEF Install!TruncateFile
<1>4. CASE Install!FillFile(p)
  BY <1>4, PackageOrder DEF Install!FillFile, Install!MoreFiles
<1>5. CASE Install!Stage(p)
  BY <1>5 DEF Install!Stage
<1>6. CASE Install!Exists(p)
  BY <1>6 DEF Install!Exists
<1>7. CASE Install!CreateDeviceInfo(p)
  BY <1>7 DEF Install!CreateDeviceInfo
<1>8. CASE Install!SetHardwareId(p)
  BY <1>8 DEF Install!SetHardwareId
<1>9. CASE Install!RegisterDevice(p)
  BY <1>9 DEF Install!RegisterDevice
<1>10. CASE Install!Bind(p)
  BY <1>10 DEF Install!Bind
<1>11. CASE Install!BindFails(p)
  BY <1>11 DEF Install!BindFails, Install!Created
<1>12. CASE Install!RemoveDevice(p)
  BY <1>12 DEF Install!RemoveDevice, Install!Removed, Install!Primary
<1>13. CASE Install!CallFails(p)
  BY <1>13 DEF Install!CallFails, Install!DeviceInfoDropped
<1> QED
  BY <1>1, <1>2, <1>3, <1>4, <1>5, <1>6, <1>7, <1>8, <1>9, <1>10, <1>11, <1>12, <1>13
  DEF Install!Step

-----------------------------------------------------------------------------
(***************************************************************************)
(* The wire protocol.  Each end is evaluated on what the other sends.      *)
(***************************************************************************)
\* A request with the correlation ID c, as send transmits it.
Sent(op, c) ==
  [structSize |-> Wire!RequestSize[op], version |-> Wire!ProtocolVersion,
   operation |-> Wire!Code[op], flags |-> 0, correlation |-> c]

\* What is kept for a second submission is a request that was sent.
WireInv ==
  /\ Wire!ExchangeIsSound
  /\ \/ wireRequest = Wire!NoRequest
     \/ \E op \in Wire!Operations, c \in Nat : wireRequest = Sent(op, c)

\* The operations of protocol.rs.
LEMMA OperationNames ==
  Wire!Operations = {"QueryVersion", "Reserve", "QueryResult", "CreateReserved",
                     "DeleteReserved", "ListState"}
  BY DEF Wire!Operations, Wire!Code

\* Every message fits the buffer, and every answer is longer than its header.
LEMMA MessageSizes ==
  ASSUME NEW op \in Wire!Operations
  PROVE  /\ Wire!RequestSize[op] \in 24..64 /\ Wire!ResponseSize[op] \in 40..816
         /\ Wire!Code[op] \in 2048..2056
  BY OperationNames DEF Wire!RequestSize, Wire!ResponseSize, Wire!Code

\* An operation code names one operation.
LEMMA CodesDiffer ==
  \A op1, op2 \in Wire!Operations : Wire!Code[op1] = Wire!Code[op2] => op1 = op2
  BY OperationNames DEF Wire!Code

\* What send may return.
Verdicts ==
  {"none", "ok", "control", "rejected", "mismatch", "truncated", "short", "size", "transport"}

\* Whatever this driver answers to a request that the CLI composed is understood as meant.
LEMMA OurRepliesUnderstood ==
  ASSUME NEW op \in Wire!Operations, NEW c \in Nat,
         NEW b \in Wire!OurReplies(Sent(op, c), op) \cup {Wire!NoReply}
  PROVE  LET v == Wire!Receive(b, op, Sent(op, c))
         IN  /\ b.from # "foreign"
             /\ v.is \in Verdicts /\ v.status \in Wire!Refusals \cup {Wire!Success}
             /\ b.from = "ours" =>
                  IF b.status < 0 THEN v = Wire!Verdict("rejected", b.status) ELSE v.is = "ok"
<1> DEFINE r == Sent(op, c)
<1>1. CASE b = Wire!NoReply
  BY <1>1 DEF Wire!NoReply, Wire!Receive, Wire!Verdict, Verdicts, Wire!Success
<1>2. CASE b = Wire!Reply(r, Wire!ResponseSize[op], Wire!Success)
  <2>1. /\ b.from = "ours" /\ b.control = TRUE /\ b.returned = 28 + Wire!ResponseSize[op]
        /\ b.length = Wire!ResponseSize[op] /\ b.structSize = Wire!ResponseSize[op]
        /\ b.returnCode = 0 /\ b.status = 0 /\ b.version = 1
        /\ b.operation = Wire!Code[op] /\ b.correlation = c
    BY <1>2 DEF Wire!Reply, Wire!ControlSize, Wire!Success, Wire!ProtocolVersion, Sent
  <2>2. Wire!Receive(b, op, r) = Wire!Verdict("ok", 0)
    <3>1. /\ ~(b.returned < Wire!ControlSize + Wire!HeaderSize)
          /\ ~(b.returned < Wire!ControlSize + Wire!ResponseSize[op])
          /\ ~(b.length < Wire!ResponseSize[op])
      <4>1. Wire!ResponseSize[op] \in 40..816
        BY MessageSizes
      <4> DEFINE size == Wire!ResponseSize[op]
      <4>2. b.returned = 28 + size /\ b.length = size
        BY <2>1 DEF Wire!ControlSize
      <4>3. size \in 40..816
        BY <4>1
      <4> HIDE DEF r, size
      <4>4. /\ ~(b.returned < 28 + 24) /\ ~(b.returned < 28 + size) /\ ~(b.length < size)
        BY <4>2, <4>3
      <4> QED
        BY <4>4 DEF Wire!ControlSize, Wire!HeaderSize, size
    <3> QED
      BY <2>1, <3>1 DEF Wire!Receive, Wire!SizeConfirmed, Wire!ProtocolVersion, Wire!Success, Sent
  <2> QED
    BY <2>1, <2>2 DEF Wire!Verdict, Verdicts, Wire!Success
<1>3. ASSUME NEW status \in Wire!Refusals, b = Wire!Reply(r, Wire!HeaderSize, status)
      PROVE  LET v == Wire!Receive(b, op, r)
             IN  /\ b.from = "ours" /\ b.status = status /\ status < 0
                 /\ v = Wire!Verdict("rejected", status)
  <2>1. /\ b.from = "ours" /\ b.control /\ b.returned = 28 + 24 /\ b.status = status /\ b.version = 1
        /\ b.operation = Wire!Code[op] /\ b.correlation = c
    BY <1>3 DEF Wire!Reply, Wire!ControlSize, Wire!HeaderSize, Wire!ProtocolVersion, Sent
  <2>2. status < 0 /\ status \in Int
    BY DEF Wire!Refusals
  <2> QED
    BY <2>1, <2>2
    DEF Wire!Receive, Wire!ControlSize, Wire!HeaderSize, Wire!ProtocolVersion, Sent
<1>4. \/ b = Wire!NoReply \/ b = Wire!Reply(r, Wire!ResponseSize[op], Wire!Success)
      \/ \E status \in Wire!Refusals : b = Wire!Reply(r, Wire!HeaderSize, status)
  BY DEF Wire!OurReplies
<1>5. CASE \E status \in Wire!Refusals : b = Wire!Reply(r, Wire!HeaderSize, status)
  BY <1>3, <1>5 DEF Wire!Verdict, Verdicts
<1> QED
  BY <1>1, <1>2, <1>4, <1>5

\* What query_version accepts.
Compatible(b) == b.major = 0 /\ b.minor >= 2 /\ b.disks <= Wire!MaximumDiskCount

\* Whatever anybody else answers to the version query does not make an adapter.
LEMMA OthersUnderstood ==
  ASSUME NEW c \in Nat, NEW k \in Wire!Kinds \ {"ours"},
         NEW b \in Wire!Replies(k, Sent("QueryVersion", c), "QueryVersion")
  PROVE  LET v == Wire!Receive(b, "QueryVersion", Sent("QueryVersion", c))
         IN  /\ b.from # "ours" /\ (b.from = "foreign" => v.is # "ok")
             /\ v.is \in Verdicts /\ v.status = Wire!Success
             /\ ~(v.is = "ok" /\ Compatible(b))
<1> DEFINE r == Sent("QueryVersion", c)
<1>1. CASE b = Wire!NoReply
  BY <1>1 DEF Wire!NoReply, Wire!Receive, Wire!Verdict, Verdicts
<1>2. CASE b \in Wire!ForeignReplies(r)
  <2> DEFINE untouched == Wire!Untouched(r)
  <2>0. untouched = [from |-> "foreign", control |-> TRUE, returned |-> 1024, length |-> 996,
                     returnCode |-> 0, structSize |-> 24, version |-> 1,
                     operation |-> Wire!Code["QueryVersion"], status |-> 0, correlation |-> c,
                     major |-> 0, minor |-> 0, disks |-> 0]
    BY DEF Wire!Untouched, Wire!BufferSize, Wire!PayloadCapacity, Wire!ControlSize,
       Wire!ProtocolVersion, Sent, Wire!RequestSize
  <2>3. b = untouched \/ b = [untouched EXCEPT !.control = FALSE]
    BY <1>2 DEF Wire!ForeignReplies
  <2> HIDE DEF untouched
  <2>1. /\ b.from = "foreign" /\ b.returned = 1024 /\ b.length = 996 /\ b.returnCode = 0
        /\ b.structSize = 24 /\ b.version = 1 /\ b.status = 0
        /\ b.operation = Wire!Code["QueryVersion"] /\ b.correlation = c
    BY <2>0, <2>3
  <2>2. \/ Wire!Receive(b, "QueryVersion", r) = Wire!Verdict("size", Wire!Success)
        \/ Wire!Receive(b, "QueryVersion", r) = Wire!Verdict("control", Wire!Success)
    BY <2>1 DEF Wire!Receive, Wire!SizeConfirmed, Wire!ControlSize, Wire!HeaderSize,
       Wire!ProtocolVersion, Sent, Wire!ResponseSize
  <2> QED
    BY <2>1, <2>2 DEF Wire!Verdict, Verdicts
<1>3. CASE b \in Wire!OtherVersionReplies(r, "QueryVersion")
  <2>1. /\ b.from = "otherVersion" /\ b.control /\ b.returned = 68 /\ b.length = 40
        /\ b.returnCode = 0 /\ b.structSize = 40 /\ b.version = 1 /\ b.status = 0
        /\ b.operation = Wire!Code["QueryVersion"] /\ b.correlation = c /\ ~Compatible(b)
    <3> DEFINE ours == Wire!Reply(r, Wire!ResponseSize["QueryVersion"], Wire!Success)
    <3>1. ours = [from |-> "ours", control |-> TRUE, returned |-> 68, length |-> 40,
                  returnCode |-> 0, structSize |-> 40, version |-> 1,
                  operation |-> Wire!Code["QueryVersion"], status |-> 0, correlation |-> c,
                  major |-> 0, minor |-> 3, disks |-> 16]
      BY DEF Wire!Reply, Wire!Success, Wire!ControlSize, Wire!ProtocolVersion, Sent,
         Wire!ResponseSize, Wire!MaximumDiskCount
    <3>2. \/ b = [ours EXCEPT !.from = "otherVersion", !.minor = 1]
          \/ b = [ours EXCEPT !.from = "otherVersion", !.major = 1]
          \/ b = [ours EXCEPT !.from = "otherVersion", !.disks = 17]
      BY <1>3 DEF Wire!OtherVersionReplies, Wire!MaximumDiskCount
    <3> HIDE DEF ours
    <3>3. CASE b = [ours EXCEPT !.from = "otherVersion", !.minor = 1]
      BY <3>1, <3>3 DEF Compatible
    <3>4. CASE b = [ours EXCEPT !.from = "otherVersion", !.major = 1]
      BY <3>1, <3>4 DEF Compatible
    <3>5. CASE b = [ours EXCEPT !.from = "otherVersion", !.disks = 17]
      BY <3>1, <3>5 DEF Compatible, Wire!MaximumDiskCount
    <3> QED
      BY <3>2, <3>3, <3>4, <3>5
  <2>2. Wire!Receive(b, "QueryVersion", r) = Wire!Verdict("ok", Wire!Success)
    BY <2>1 DEF Wire!Receive, Wire!SizeConfirmed, Wire!ControlSize, Wire!HeaderSize,
       Wire!ProtocolVersion, Sent, Wire!ResponseSize
  <2> QED
    BY <2>1, <2>2 DEF Wire!Verdict, Verdicts
<1> QED
  BY <1>1, <1>2, <1>3 DEF Wire!Replies, Wire!Kinds

\* The bounds of WireProtocol are numbers.
LEMMA WireBounds == Ports \in Nat /\ MaxCorrelation \in Nat
  BY Parameters DEF Wire!WireAssumption

\* Nothing has been sent before the scan.
LEMMA WireInit == Wire!Init => WireInv
  BY WireBounds DEF Wire!Init, WireInv, Wire!ExchangeIsSound, Wire!TypeOK,
     Wire!AnswersUnderstood, Wire!UntouchedIsNoAnswer, Wire!AdapterIsOurs, Wire!NoReply,
     Wire!Unread, Wire!Success

\* A request goes to this driver.
LEMMA TransmitToOurs ==
  ASSUME WireInv, NEW op \in Wire!Operations, NEW c \in Nat, wirePhase = "use",
         Wire!Transmit(wirePort, Sent(op, c), op), UNCHANGED <<wirePort, wirePhase>>,
         wireCorrelation' \in 1..(MaxCorrelation + 1)
  PROVE  WireInv'
<1>1. wireKind[wirePort] = "ours"
  BY DEF WireInv, Wire!ExchangeIsSound, Wire!AdapterIsOurs
<1>2. PICK b \in Wire!OurReplies(Sent(op, c), op) \cup {Wire!NoReply} :
        wireReply' = b /\ wireVerdict' = Wire!Receive(b, op, Sent(op, c))
  BY <1>1 DEF Wire!Transmit, Wire!Replies
<1>3. wireRequest' = Sent(op, c) /\ UNCHANGED wireKind
  BY DEF Wire!Transmit
<1>4. Wire!TypeOK'
  BY <1>2, <1>3, OurRepliesUnderstood DEF WireInv, Wire!ExchangeIsSound, Wire!TypeOK, Verdicts
<1>5. Wire!AnswersUnderstood' /\ Wire!UntouchedIsNoAnswer'
  BY <1>2, OurRepliesUnderstood DEF Wire!AnswersUnderstood, Wire!UntouchedIsNoAnswer
<1>6. Wire!AdapterIsOurs'
  BY <1>1, <1>3 DEF Wire!AdapterIsOurs
<1> QED
  BY <1>3, <1>4, <1>5, <1>6 DEF WireInv, Wire!ExchangeIsSound

\* A probe settles on this driver, or goes on to the next port.
LEMMA ProbeKeeps == WireInv /\ Wire!Probe => WireInv'
<1> SUFFICES ASSUME WireInv, Wire!Probe PROVE WireInv'
  OBVIOUS
<1> DEFINE op == "QueryVersion"
           c == wireCorrelation
<1>1. /\ c \in Nat /\ wireCorrelation' \in 1..(MaxCorrelation + 1)
      /\ wirePort \in 0..(Ports - 1) /\ wireKind \in [0..(Ports - 1) -> Wire!Kinds]
      /\ op \in Wire!Operations
  BY WireBounds, OperationNames
  DEF WireInv, Wire!ExchangeIsSound, Wire!TypeOK, Wire!Probe, Wire!NextCorrelation
<1>2. Wire!Request(op) = Sent(op, c)
  BY DEF Wire!Request, Sent
<1>3. PICK b \in Wire!Replies(wireKind[wirePort], Sent(op, c), op) :
        wireReply' = b /\ wireVerdict' = Wire!Receive(b, op, Sent(op, c))
  BY <1>2 DEF Wire!Probe, Wire!Transmit
<1>4. wireRequest' = Sent(op, c) /\ UNCHANGED wireKind
  BY <1>2 DEF Wire!Probe, Wire!Transmit
<1>5. CASE wireKind[wirePort] = "ours"
  <2>1. b \in Wire!OurReplies(Sent(op, c), op) \cup {Wire!NoReply}
    BY <1>5 DEF Wire!Replies
  <2>2. Wire!TypeOK'
    BY <1>1, <1>3, <1>4, <2>1, OurRepliesUnderstood, WireBounds
    DEF WireInv, Wire!ExchangeIsSound, Wire!TypeOK, Verdicts, Wire!Probe
  <2>3. Wire!AnswersUnderstood' /\ Wire!UntouchedIsNoAnswer'
    BY <1>1, <1>3, <2>1, OurRepliesUnderstood
    DEF Wire!AnswersUnderstood, Wire!UntouchedIsNoAnswer
  <2>4. Wire!AdapterIsOurs'
    BY <1>4, <1>5 DEF Wire!AdapterIsOurs, Wire!Probe
  <2> QED
    BY <1>1, <1>4, <2>2, <2>3, <2>4 DEF WireInv, Wire!ExchangeIsSound
<1>6. CASE wireKind[wirePort] # "ours"
  <2> DEFINE v == Wire!Receive(b, op, Sent(op, c))
  <2>1. wireKind[wirePort] \in Wire!Kinds \ {"ours"}
    BY <1>1, <1>6
  <2>2. /\ b.from # "ours" /\ (b.from = "foreign" => v.is # "ok")
        /\ v.is \in Verdicts /\ v.status = Wire!Success /\ ~(v.is = "ok" /\ Compatible(b))
    BY <1>1, <2>1, OthersUnderstood
  <2>3. wirePort' = wirePort + 1 /\ UNCHANGED wirePhase
    BY <1>3, <2>2 DEF Wire!Probe, Wire!Supported, Compatible
  <2>4. Wire!TypeOK'
    BY <1>1, <1>3, <1>4, <2>2, <2>3, WireBounds
    DEF WireInv, Wire!ExchangeIsSound, Wire!TypeOK, Verdicts, Wire!Probe
  <2>5. Wire!AnswersUnderstood' /\ Wire!UntouchedIsNoAnswer' /\ Wire!AdapterIsOurs'
    BY <1>3, <2>2, <2>3
    DEF Wire!AnswersUnderstood, Wire!UntouchedIsNoAnswer, Wire!AdapterIsOurs, Wire!Probe
  <2> QED
    BY <1>1, <1>4, <2>4, <2>5 DEF WireInv, Wire!ExchangeIsSound
<1> QED
  BY <1>5, <1>6

\* Every step of an exchange keeps the invariant; a resubmission repeats the operation that
\* was submitted.
LEMMA WireNext == WireInv /\ [Wire!Next]_(Wire!vars) => WireInv'
<1> SUFFICES ASSUME WireInv, [Wire!Next]_(Wire!vars) PROVE WireInv'
  OBVIOUS
<1>1. CASE Wire!Probe
  BY <1>1, ProbeKeeps
<1>2. CASE Wire!SkipPort \/ Wire!ScanEnds
  BY <1>2, WireBounds
  DEF Wire!SkipPort, Wire!ScanEnds, WireInv, Wire!ExchangeIsSound, Wire!TypeOK,
     Wire!AnswersUnderstood, Wire!UntouchedIsNoAnswer, Wire!AdapterIsOurs
<1>3. ASSUME NEW op \in Wire!Operations, Wire!Exchange(op) PROVE WireInv'
  <2>1. wireCorrelation \in Nat /\ wireCorrelation' \in 1..(MaxCorrelation + 1)
    BY <1>3, WireBounds
    DEF WireInv, Wire!ExchangeIsSound, Wire!TypeOK, Wire!Exchange, Wire!NextCorrelation
  <2>2. Wire!Request(op) = Sent(op, wireCorrelation)
    BY DEF Wire!Request, Sent
  <2> QED
    BY <1>3, <2>1, <2>2, TransmitToOurs DEF Wire!Exchange
<1>4. ASSUME NEW op \in Wire!Operations, Wire!Resubmit(op) PROVE WireInv'
  <2>1. wireRequest # Wire!NoRequest
    BY <1>4, MessageSizes DEF Wire!Resubmit, Wire!NoRequest
  <2>2. PICK op1 \in Wire!Operations, c \in Nat : wireRequest = Sent(op1, c)
    BY <2>1 DEF WireInv
  <2>3. op1 = op
    BY <1>4, <2>2, CodesDiffer DEF Wire!Resubmit, Sent
  <2>4. wireCorrelation' \in 1..(MaxCorrelation + 1)
    BY <1>4 DEF WireInv, Wire!ExchangeIsSound, Wire!TypeOK, Wire!Resubmit
  <2> QED
    BY <1>4, <2>2, <2>3, <2>4, TransmitToOurs DEF Wire!Resubmit
<1>5. CASE UNCHANGED Wire!vars
  BY <1>5 DEF Wire!vars, WireInv, Wire!ExchangeIsSound, Wire!TypeOK,
     Wire!AnswersUnderstood, Wire!UntouchedIsNoAnswer, Wire!AdapterIsOurs
<1> QED
  BY <1>1, <1>2, <1>3, <1>4, <1>5 DEF Wire!Next

-----------------------------------------------------------------------------
(***************************************************************************)
(* The command line.  What is proved is a fact about one interpretation:   *)
(* the invariant only says that the outcome is one.                        *)
(***************************************************************************)
\* A line has values that can be typed.
TypedLine(l) ==
  /\ l = [n \in Args!Names |-> l[n]]
  /\ \A n \in Args!Names : l[n] \subseteq Args!Values(n)

\* A line that was run has its interpretation as the outcome.
ArgsInv ==
  /\ TypedLine(argsLine)
  /\ \/ argsSpelling = "none" /\ argsOutcome = Args!Typing
     \/ /\ argsSpelling \in {"slash", "long"}
        /\ argsOutcome = Args!Interpretation(argsSpelling, argsLine)

\* What Arguments assumes of the sizes, one by one.
LEMMA SizeBounds ==
  /\ SectorSize \in Nat \ {0} /\ Kilo \in Nat /\ Kibi \in Nat /\ MaxWord \in Nat
  /\ MinDiskSize \in Nat /\ MinFat32DiskSize \in Nat /\ MaxDiskSize \in Nat
  /\ DriverMinimum \in Nat /\ DriverMaximum \in Nat
  /\ DriverMinimum <= MinDiskSize /\ MinDiskSize <= MinFat32DiskSize
  /\ MinFat32DiskSize <= MaxDiskSize /\ MaxDiskSize <= DriverMaximum
  /\ DriverMaximum <= MaxWord /\ Args!Identities \subseteq 0..MaxWord
  /\ Sizes \subseteq Nat \X STRING
  BY Parameters DEF Args!SizeAssumption

\* The options that clap knows, and the other names on a line.
LEMMA OptionNames ==
  /\ Args!Options = {"add", "del", "list", "json", "force", "hdd", "rem", "letter", "size",
                     "fs", "id", "adapter", "log"}
  /\ Args!Names = Args!Options \cup {"timings", "path"}
  BY DEF Args!Options, Args!Switches, Args!Names

\* The values that the proofs need.
LEMMA TypedValues ==
  /\ Args!Values("letter") = {"R:", "r", "RS"} /\ Args!Values("size") = Sizes
  /\ Args!Values("fs") = {"fat32", "NTFS", "ext4"} /\ Args!Values("log") = {"info", "off"}
  /\ Args!Values("id") = {0, 7} /\ Args!Values("adapter") = {0, 7}
  BY DEF Args!Values, Args!Switches, Args!Identities, Args!Off

\* normalize_one keeps every option as it was typed, /timings aside.
LEMMA NormalizedLine ==
  ASSUME NEW l, TypedLine(l), NEW s \in {"slash", "long"}, ~Args!Normalized(s, l).strange
  PROVE  LET o == Args!Normalized(s, l).options
         IN  /\ \A n \in Args!Options \ {"log"} : o[n] = l[n]
             /\ l["log"] \subseteq o["log"] /\ o["log"] \subseteq {"info", "off", "debug"}
             /\ l["path"] = {}
             /\ (o["log"] = {} => l["log"] = {} /\ l["timings"] = {})
<1> DEFINE o == Args!Normalized(s, l).options
           extra == IF l["timings"] # {} THEN {"debug"} ELSE {}
<1>1. "log" \in Args!Names /\ "timings" \in Args!Names /\ "path" \in Args!Names
  BY OptionNames
<1>2. l["log"] \subseteq {"info", "off"}
  BY <1>1, TypedValues DEF TypedLine
<1>3. CASE s = "slash"
  <2>1. /\ Args!Timings(l)["log"] = l["log"] \cup extra
        /\ \A n \in Args!Options \ {"log"} : Args!Timings(l)[n] = l[n]
    BY <1>1, OptionNames DEF Args!Timings, TypedLine
  <2>2. o = [n \in Args!Options |-> Args!Timings(l)[n]] /\ l["path"] = {}
    BY <1>3 DEF Args!Normalized, Args!Canonical
  <2>3. o["log"] = l["log"] \cup extra /\ \A n \in Args!Options \ {"log"} : o[n] = l[n]
    BY <2>1, <2>2, OptionNames
  <2> QED
    BY <1>2, <2>2, <2>3
<1>4. CASE s = "long"
  <2>1. o = [n \in Args!Options |-> l[n]] /\ l["path"] = {} /\ l["timings"] = {}
    BY <1>4 DEF Args!Normalized
  <2>2. \A n \in Args!Options : o[n] = l[n]
    BY <2>1
  <2> QED
    BY <1>2, <2>1, <2>2, OptionNames
<1> QED
  BY <1>3, <1>4

\* Without /timings, both spellings reach clap as the same line.
LEMMA SpellingsAgree ==
  ASSUME NEW l, TypedLine(l), l["timings"] = {}
  PROVE  Args!Interpretation("slash", l) = Args!Interpretation("long", l)
<1>1. "log" \in Args!Names
  BY OptionNames
<1>2. Args!Timings(l) = l
  <2>1. Args!Timings(l) = [l EXCEPT !["log"] = l["log"] \cup {}]
    BY DEF Args!Timings
  <2> QED
    BY <1>1, <2>1 DEF TypedLine
<1>3. [n \in Args!Options |-> IF n \in Args!Canonical THEN Args!Timings(l)[n] ELSE {}]
      = [n \in Args!Options |-> l[n]]
  BY <1>2 DEF Args!Canonical
<1>4. (\E n \in (Args!Options \ Args!Canonical) \cup {"path"} : l[n] # {})
      <=> \E n \in {"timings", "path"} : l[n] # {}
  BY DEF Args!Canonical
<1>5. Args!Normalized("slash", l) = Args!Normalized("long", l)
  BY <1>3, <1>4 DEF Args!Normalized
<1> QED
  BY <1>5 DEF Args!Interpretation

\* The multipliers are numbers, and so are their multiples.
LEMMA ProductsAreNumbers ==
  ASSUME NEW x \in DOMAIN Args!Multiplier, NEW k \in Nat
  PROVE  Args!Multiplier[x] \in Nat /\ k * Args!Multiplier[x] \in Nat
<1>1. \A a, b \in Nat : a * b \in Nat
  OBVIOUS
<1>2. Args!Multiplier[x] \in Nat
  BY <1>1, SizeBounds DEF Args!Multiplier
<1> QED
  BY <1>1, <1>2

\* A size that ByteSize::from_str accepts is the product that was typed.
LEMMA ParsedSize ==
  ASSUME NEW v \in Sizes, Args!ByteSize(v) # -1
  PROVE  /\ Args!ByteSize(v) = v[1] * Args!Multiplier[v[2]]
         /\ Args!ByteSize(v) \in Nat
<1>1. v[1] \in Nat /\ v[2] \in DOMAIN Args!Multiplier
  BY SizeBounds DEF Args!ByteSize
<1>2. Args!ByteSize(v) = v[1] * Args!Multiplier[v[2]]
  BY DEF Args!ByteSize
<1> QED
  BY <1>1, <1>2, ProductsAreNumbers

\* What into_command may rely on.
WellParsed(c) ==
  /\ \A n \in Args!Options : c[n] = {} \/ \E x : c[n] = {x}
  /\ c["letter"] \subseteq {"R"} /\ c["fs"] \subseteq {"FAT32", "NTFS"}
  /\ c["size"] \subseteq Nat /\ c["id"] \subseteq {0, 7} /\ c["adapter"] \subseteq {0, 7}
  /\ c["log"] \subseteq {"info", "off", "debug"}
  /\ \/ c["add"] # {} /\ c["del"] = {} /\ c["list"] = {}
     \/ c["add"] = {} /\ c["del"] # {} /\ c["list"] = {}
     \/ c["add"] = {} /\ c["del"] = {} /\ c["list"] # {}
  /\ c["hdd"] = {} \/ c["rem"] = {}
  /\ c["log"] = {} \/ c["json"] = {}

\* What clap lets through is well parsed, and is what was typed.
LEMMA UsageParses ==
  ASSUME NEW o,
         \A n \in Args!Options \ {"log"} : o[n] \subseteq Args!Values(n),
         o["log"] \subseteq {"info", "off", "debug"}, Args!UsageOK(o, Args!Parsed(o))
  PROVE  LET c == Args!Parsed(o)
         IN  /\ WellParsed(c)
             /\ \A n \in Args!Options : c[n] = {} <=> o[n] = {}
             /\ \A n \in Args!Options \ {"letter", "size", "fs"} : c[n] = o[n]
             /\ \A v \in o["size"] : c["size"] = {v[1] * Args!Multiplier[v[2]]}
<1> DEFINE c == Args!Parsed(o)
<1>1. /\ c["letter"] = {Args!DriveLetter(v) : v \in o["letter"]}
      /\ c["size"] = {Args!ByteSize(v) : v \in o["size"]}
      /\ c["fs"] = {Args!FileSystem(v) : v \in o["fs"]}
      /\ \A n \in Args!Options \ {"letter", "size", "fs"} : c[n] = o[n]
  BY OptionNames DEF Args!Parsed
<1>2. \A n \in Args!Options : o[n] = {} \/ \E x : o[n] = {x}
  <2> SUFFICES ASSUME NEW n \in Args!Options, NEW x \in o[n] PROVE o[n] = {x}
    OBVIOUS
  <2> QED
    BY DEF Args!UsageOK
<1> HIDE DEF c
<1>3. \A n \in Args!Options : (c[n] = {} <=> o[n] = {}) /\ (c[n] = {} \/ \E x : c[n] = {x})
  <2> SUFFICES ASSUME NEW n \in Args!Options
               PROVE  (c[n] = {} <=> o[n] = {}) /\ (c[n] = {} \/ \E x : c[n] = {x})
    OBVIOUS
  <2>1. CASE n \notin {"letter", "size", "fs"}
    BY <1>1, <1>2, <2>1
  <2>2. CASE n = "letter"
    BY <1>1, <1>2, <2>2
  <2>3. CASE n = "size"
    BY <1>1, <1>2, <2>3
  <2>4. CASE n = "fs"
    <3>1. CASE o["fs"] = {}
      BY <1>1, <2>4, <3>1
    <3>2. ASSUME NEW x, o["fs"] = {x} PROVE c["fs"] = {Args!FileSystem(x)}
      BY <1>1, <3>2
    <3> QED
      BY <1>2, <2>4, <3>1, <3>2
  <2> QED
    BY <2>1, <2>2, <2>3, <2>4
<1>4. c["letter"] \subseteq {"R"} /\ c["fs"] \subseteq {"FAT32", "NTFS"}
  BY <1>1 DEF Args!UsageOK, Args!DriveLetter, Args!FileSystem, c
<1>5. \A v \in o["size"] : /\ c["size"] = {v[1] * Args!Multiplier[v[2]]}
                           /\ v[1] * Args!Multiplier[v[2]] \in Nat
  <2> SUFFICES ASSUME NEW v \in o["size"]
               PROVE  /\ c["size"] = {v[1] * Args!Multiplier[v[2]]}
                      /\ v[1] * Args!Multiplier[v[2]] \in Nat
    OBVIOUS
  <2>1. v \in Sizes
    BY OptionNames, TypedValues
  <2>2. o["size"] = {v}
    BY <1>2, OptionNames
  <2>3. c["size"] = {Args!ByteSize(v)}
    BY <1>1, <2>2
  <2>4. Args!ByteSize(v) # -1
    BY <2>3 DEF Args!UsageOK, c
  <2> QED
    BY <2>1, <2>3, <2>4, ParsedSize
<1>6. c["size"] \subseteq Nat
  BY <1>1, <1>5
<1>7. c["id"] \subseteq {0, 7} /\ c["adapter"] \subseteq {0, 7}
  BY <1>1, OptionNames, TypedValues
<1>8. \/ c["add"] # {} /\ c["del"] = {} /\ c["list"] = {}
      \/ c["add"] = {} /\ c["del"] # {} /\ c["list"] = {}
      \/ c["add"] = {} /\ c["del"] = {} /\ c["list"] # {}
  BY <1>1, OptionNames DEF Args!UsageOK, Args!Verbs
<1>9. c["hdd"] = {} \/ c["rem"] = {}
  BY <1>1, OptionNames DEF Args!UsageOK
<1>10. (c["log"] = {} \/ c["json"] = {}) /\ c["log"] \subseteq {"info", "off", "debug"}
  BY <1>1, OptionNames DEF Args!UsageOK
<1>11. WellParsed(c)
  BY <1>3, <1>4, <1>6, <1>7, <1>8, <1>9, <1>10 DEF WellParsed
<1> QED
  BY <1>1, <1>3, <1>5, <1>11 DEF c

\* A ValidationError.
Refusals ==
  [is : {"invalid"}, error : Args!Errors]

\* What into_command makes of it.
Understood(c, k) ==
  /\ k \in Args!Commands \/ k \in Refusals
  /\ k.is # "invalid" =>
       /\ {n \in Args!Options \ {"log"} : c[n] # {}} \ {"fs"} = Args!Used(k)
       /\ c["fs"] # {} => k.is = "add"
  /\ k.is = "add" => c["size"] = {k.size} /\ k.size % SectorSize = 0
  /\ k.is = "list" /\ k.json => c["json"] # {}

\* An error promises nothing about the line.
LEMMA RefusalUnderstood ==
  ASSUME NEW c, NEW error \in Args!Errors
  PROVE  Understood(c, Args!Refused(error))
  BY DEF Understood, Refusals, Args!Refused

\* The value of an option that was given once.
LEMMA TheOnly == \A x : Args!The({x}) = x
  BY DEF Args!The

\* /list uses every option of its line, or refuses it.
LEMMA ListUnderstood ==
  ASSUME NEW c, WellParsed(c), c["list"] # {}, c["force"] = {}
  PROVE  Understood(c, Args!Listed(c))
<1>1. CASE \E n \in {"letter", "size", "fs", "hdd", "rem", "id", "adapter"} : c[n] # {}
  <2>1. Args!Listed(c) = Args!Refused("UnexpectedOptions")
    BY <1>1 DEF Args!Listed, Args!Given
  <2> QED
    BY <2>1, RefusalUnderstood DEF Args!Errors
<1>2. CASE \A n \in {"letter", "size", "fs", "hdd", "rem", "id", "adapter"} : c[n] = {}
  <2> DEFINE k == Args!Listed(c)
  <2>1. k = [is |-> "list", json |-> c["json"] # {}]
    BY <1>2 DEF Args!Listed, Args!Given
  <2>2. k.is = "list" /\ k \in Args!Commands /\ (k.json <=> c["json"] # {})
    <3>1. (c["json"] # {}) \in BOOLEAN
      OBVIOUS
    <3>2. k \in [is : {"list"}, json : BOOLEAN]
      BY <2>1, <3>1
    <3>3. k.is = "list" /\ k.json = (c["json"] # {})
      BY <2>1
    <3> QED
      BY <3>2, <3>3 DEF Args!Commands
  <2> HIDE DEF k
  <2>3. Args!Used(k) = {"list"} \cup (IF k.json THEN {"json"} ELSE {})
    BY <2>2 DEF Args!Used
  <2>4. {n \in Args!Options \ {"log"} : c[n] # {}} \ {"fs"} = Args!Used(k)
    BY <1>2, <2>2, <2>3, OptionNames DEF WellParsed
  <2>5. Understood(c, k)
    BY <1>2, <2>2, <2>4 DEF Understood
  <2> QED
    BY <2>5 DEF k
<1> QED
  BY <1>1, <1>2


\* /del uses every option of its line, or refuses it.
LEMMA DeleteUnderstood ==
  ASSUME NEW c, WellParsed(c), c["del"] # {}, c["json"] = {}
  PROVE  Understood(c, Args!Deleted(c))
<1> DEFINE k == Args!Deleted(c)
<1>1. CASE Args!OnlyForAdd(c) # "none"
  <2>1. k = Args!Refused(Args!OnlyForAdd(c)) /\ Args!OnlyForAdd(c) \in Args!Errors
    BY <1>1 DEF Args!Deleted, Args!OnlyForAdd, Args!Errors
  <2> QED
    BY <2>1, RefusalUnderstood
<1>2. CASE /\ Args!OnlyForAdd(c) = "none"
           /\ c["letter"] # {} /\ c["id"] = {} /\ c["adapter"] = {}
  <2>1. c["hdd"] = {} /\ c["rem"] = {} /\ c["size"] = {} /\ c["fs"] = {} /\ c["add"] = {}
        /\ c["list"] = {} /\ c["letter"] = {"R"}
    BY <1>2 DEF Args!OnlyForAdd, Args!Given, WellParsed
  <2>2. k = [is |-> "delete", letter |-> "R", force |-> c["force"] # {}]
    BY <1>2, <2>1, TheOnly DEF Args!Deleted, Args!Given
  <2>3. (c["force"] # {}) \in BOOLEAN
    OBVIOUS
  <2>4. k \in [is : {"delete"}, letter : {"R"}, force : BOOLEAN]
    BY <2>2, <2>3
  <2>5. k.is = "delete" /\ k.force = (c["force"] # {})
    BY <2>2
  <2> HIDE DEF k
  <2>6. Args!Used(k) = {"del", "letter"} \cup (IF k.force THEN {"force"} ELSE {})
    BY <2>5 DEF Args!Used
  <2>7. {n \in Args!Options \ {"log"} : c[n] # {}} \ {"fs"} = Args!Used(k)
    BY <1>2, <2>1, <2>5, <2>6, OptionNames
  <2>8. Understood(c, k)
    BY <2>1, <2>4, <2>5, <2>7 DEF Understood, Args!Commands
  <2> QED
    BY <2>8 DEF k
<1>3. CASE Args!OnlyForAdd(c) = "none" /\ Args!DeleteIdentity(c)
  <2>1. c["hdd"] = {} /\ c["rem"] = {} /\ c["size"] = {} /\ c["fs"] = {} /\ c["add"] = {}
        /\ c["list"] = {} /\ c["letter"] = {}
    BY <1>3 DEF Args!OnlyForAdd, Args!Given, WellParsed, Args!DeleteIdentity
  <2>2. c["id"] = {7} /\ c["adapter"] = {7}
    <3>1. c["id"] \in {{0}, {7}} /\ c["adapter"] \in {{0}, {7}}
      BY <1>3, OptionNames DEF Args!DeleteIdentity, Args!Given, WellParsed
    <3> QED
      BY <1>3, <3>1, TheOnly DEF Args!DeleteIdentity
  <2>3. k = [is |-> "deleteId", adapter |-> 7, id |-> 7, force |-> c["force"] # {}]
    BY <1>3, <2>1, <2>2, TheOnly DEF Args!Deleted, Args!Given
  <2>4. (c["force"] # {}) \in BOOLEAN
    OBVIOUS
  <2>5. k \in [is : {"deleteId"}, adapter : 1..MaxWord, id : 1..MaxWord, force : BOOLEAN]
    <3>1. 7 \in 1..MaxWord
      BY SizeBounds DEF Args!Identities
    <3> QED
      BY <2>3, <2>4, <3>1
  <2>6. k.is = "deleteId" /\ k.force = (c["force"] # {})
    BY <2>3
  <2> HIDE DEF k
  <2>7. Args!Used(k) = {"del", "id", "adapter"} \cup (IF k.force THEN {"force"} ELSE {})
    BY <2>6 DEF Args!Used
  <2>8. {n \in Args!Options \ {"log"} : c[n] # {}} \ {"fs"} = Args!Used(k)
    BY <2>1, <2>2, <2>6, <2>7, OptionNames
  <2>9. Understood(c, k)
    BY <2>1, <2>5, <2>6, <2>8 DEF Understood, Args!Commands
  <2> QED
    BY <2>9 DEF k
<1>4. CASE /\ Args!OnlyForAdd(c) = "none" /\ ~Args!DeleteIdentity(c)
           /\ ~(c["letter"] # {} /\ c["id"] = {} /\ c["adapter"] = {})
  <2>1. k = Args!Refused("MissingLetter") \/ k = Args!Refused("DeleteIdentity")
    BY <1>4 DEF Args!Deleted, Args!Given
  <2> QED
    BY <2>1, RefusalUnderstood DEF Args!Errors
<1> QED
  BY <1>1, <1>2, <1>3, <1>4

\* /add uses every option of its line, or refuses it.
LEMMA AddUnderstood ==
  ASSUME NEW c, WellParsed(c), c["add"] # {}, c["json"] = {}, c["force"] = {},
         c["id"] = {}, c["adapter"] = {}
  PROVE  Understood(c, Args!Added(c))
<1> DEFINE k == Args!Added(c)
           fs == IF Args!Given(c, "fs") THEN Args!The(c["fs"]) ELSE "NTFS"
           size == Args!The(c["size"])
           error == Args!SizeError(size, fs)
<1>1. CASE c["letter"] = {} \/ (c["hdd"] = {} /\ c["rem"] = {}) \/ c["size"] = {}
  <2>1. \E e \in {"MissingLetter", "MissingMedia", "MissingSize"} : k = Args!Refused(e)
    BY <1>1 DEF Args!Added, Args!Given
  <2> QED
    BY <2>1, RefusalUnderstood DEF Args!Errors
<1>2. CASE c["letter"] # {} /\ ~(c["hdd"] = {} /\ c["rem"] = {}) /\ c["size"] # {}
  <2>1. c["letter"] = {"R"} /\ c["size"] = {size} /\ size \in Nat /\ fs \in {"FAT32", "NTFS"}
    <3>1. c["letter"] = {"R"}
      BY <1>2 DEF WellParsed
    <3>2. c["size"] = {size} /\ size \in Nat
      BY <1>2, TheOnly, OptionNames DEF WellParsed
    <3>3. fs \in {"FAT32", "NTFS"}
      <4>1. CASE c["fs"] = {}
        BY <4>1 DEF Args!Given
      <4>2. CASE \E x : c["fs"] = {x}
        BY <4>2, TheOnly DEF WellParsed, Args!Given
      <4> QED
        BY <4>1, <4>2, OptionNames DEF WellParsed
    <3> QED
      BY <3>1, <3>2, <3>3
  <2>2. CASE error # "none"
    <3>1. k = Args!Refused(error)
      BY <1>2, <2>2 DEF Args!Added, Args!Given
    <3>2. error \in Args!Errors
      BY <2>2 DEF Args!SizeError, Args!Errors
    <3> QED
      BY <3>1, <3>2, RefusalUnderstood
  <2>3. CASE error = "none"
    <3> DEFINE media == IF Args!Given(c, "hdd") THEN "Fixed" ELSE "Removable"
    <3>1. k = [is |-> "add", letter |-> "R", size |-> size, fs |-> fs, media |-> media]
      BY <1>2, <2>1, <2>3, TheOnly DEF Args!Added, Args!Given
    <3>2. size \in MinDiskSize..MaxDiskSize /\ size % SectorSize = 0
      BY <2>1, <2>3, SizeBounds DEF Args!SizeError
    <3>3. (media = "Fixed" <=> c["hdd"] # {}) /\ media \in {"Fixed", "Removable"}
      BY DEF Args!Given
    <3> HIDE DEF fs, size, media, error
    <3>4. /\ k \in [is : {"add"}, letter : {"R"}, size : MinDiskSize..MaxDiskSize,
                    fs : {"FAT32", "NTFS"}, media : {"Fixed", "Removable"}]
          /\ k.is = "add" /\ k.size = size /\ k.media = media
      BY <2>1, <3>1, <3>2, <3>3
    <3> HIDE DEF k
    <3>5. Args!Used(k) = {"add", "letter", "size", IF k.media = "Fixed" THEN "hdd" ELSE "rem"}
      BY <3>4 DEF Args!Used
    <3>6. {n \in Args!Options \ {"log"} : c[n] # {}} \ {"fs"} = Args!Used(k)
      BY <1>2, <3>3, <3>4, <3>5, OptionNames DEF WellParsed
    <3>7. Understood(c, k)
      BY <2>1, <3>2, <3>4, <3>6 DEF Understood, Args!Commands
    <3> QED
      BY <3>7 DEF k
  <2> QED
    BY <2>2, <2>3
<1> QED
  BY <1>1, <1>2

\* into_command tests in an order that leaves no option unused.
LEMMA CommandUnderstood ==
  ASSUME NEW c, WellParsed(c)
  PROVE  Understood(c, Args!IntoCommand(c))
<1>1. CASE c["force"] # {} /\ c["del"] = {}
  BY <1>1, RefusalUnderstood DEF Args!IntoCommand, Args!Given, Args!Errors
<1>2. CASE ~(c["force"] # {} /\ c["del"] = {}) /\ c["list"] # {}
  <2>1. Args!IntoCommand(c) = Args!Listed(c)
    BY <1>2 DEF Args!IntoCommand, Args!Given
  <2>2. c["force"] = {}
    BY <1>2 DEF WellParsed
  <2> QED
    BY <1>2, <2>1, <2>2, ListUnderstood
<1>3. CASE ~(c["force"] # {} /\ c["del"] = {}) /\ c["list"] = {}
  <2>1. CASE c["json"] # {} \/ (c["add"] # {} /\ (c["id"] # {} \/ c["adapter"] # {}))
    BY <1>3, <2>1, RefusalUnderstood DEF Args!IntoCommand, Args!Given, Args!Errors
  <2>2. CASE /\ c["json"] = {} /\ ~(c["id"] # {} \/ c["adapter"] # {})
             /\ c["add"] # {}
    <3>1. Args!IntoCommand(c) = Args!Added(c)
      BY <1>3, <2>2 DEF Args!IntoCommand, Args!Given
    <3>2. c["force"] = {}
      BY <1>3, <2>2 DEF WellParsed
    <3> QED
      BY <2>2, <3>1, <3>2, AddUnderstood
  <2>3. CASE c["json"] = {} /\ c["add"] = {}
    <3>1. Args!IntoCommand(c) = Args!Deleted(c)
      BY <1>3, <2>3 DEF Args!IntoCommand, Args!Given
    <3>2. c["del"] # {}
      BY <1>3, <2>3 DEF WellParsed
    <3> QED
      BY <2>3, <3>1, <3>2, DeleteUnderstood
  <2> QED
    BY <2>1, <2>2, <2>3
<1> QED
  BY <1>1, <1>2, <1>3


\* The interpretation of a line is what LineIsUnderstood says.
LEMMA LineUnderstood ==
  ASSUME ArgsInv PROVE Args!LineIsUnderstood
<1>1. \A n \in Args!Names : argsLine[n] \subseteq Args!Values(n)
  BY DEF ArgsInv, TypedLine
<1>2. CASE argsSpelling = "none" /\ argsOutcome = Args!Typing
  <2>1. ~Args!Accepted
    BY <1>2 DEF Args!Accepted, Args!Typing
  <2>2. Args!TypeOK
    BY <1>1, <1>2 DEF Args!TypeOK
  <2> QED
    BY <1>2, <2>1, <2>2 DEF Args!LineIsUnderstood, Args!AcceptedByDriver,
       Args!MeansWhatWasTyped, Args!SpellingIrrelevant, Args!JsonIsPure
<1>3. CASE /\ argsSpelling \in {"slash", "long"}
           /\ argsOutcome = Args!Interpretation(argsSpelling, argsLine)
  <2> DEFINE o == Args!Normalized(argsSpelling, argsLine).options
             c == Args!Parsed(o)
             k == Args!IntoCommand(c)
  <2>1. Args!SpellingIrrelevant
    <3>1. TypedLine(argsLine)
      BY DEF ArgsInv
    <3> QED
      BY <1>3, <3>1, SpellingsAgree DEF Args!SpellingIrrelevant
  <2>2. CASE argsOutcome = [is |-> "usage"]
    <3>1. ~Args!Accepted
      BY <2>2 DEF Args!Accepted
    <3>2. Args!TypeOK
      BY <1>1, <1>3, <2>2 DEF Args!TypeOK
    <3> QED
      BY <2>1, <3>1, <3>2 DEF Args!LineIsUnderstood, Args!AcceptedByDriver,
         Args!MeansWhatWasTyped, Args!JsonIsPure
  <2>3. CASE argsOutcome # [is |-> "usage"]
    <3>1. /\ ~Args!Normalized(argsSpelling, argsLine).strange /\ Args!UsageOK(o, c)
          /\ argsOutcome = [is |-> "parsed", command |-> k, log |-> Args!LogLevel(c)]
      BY <1>3, <2>3 DEF Args!Interpretation
    <3>2. /\ \A n \in Args!Options \ {"log"} : o[n] = argsLine[n]
          /\ o["log"] \subseteq {"info", "off", "debug"}
          /\ (o["log"] = {} => argsLine["log"] = {} /\ argsLine["timings"] = {})
      BY <1>3, <3>1, NormalizedLine DEF ArgsInv
    <3>3. \A n \in Args!Options \ {"log"} : o[n] \subseteq Args!Values(n)
      BY <1>1, <3>2, OptionNames
    <3> HIDE DEF o
    <3>4. /\ WellParsed(c)
          /\ \A n \in Args!Options : c[n] = {} <=> o[n] = {}
          /\ \A n \in Args!Options \ {"letter", "size", "fs"} : c[n] = o[n]
          /\ \A v \in o["size"] : c["size"] = {v[1] * Args!Multiplier[v[2]]}
      BY <3>1, <3>2, <3>3, UsageParses
    <3> HIDE DEF c
    <3>5. Understood(c, k)
      BY <3>4, CommandUnderstood
    <3> HIDE DEF k
    <3>6. Args!LogLevel(c) \in {"off", "info", "debug"}
      <4>1. CASE c["log"] = {}
        BY <4>1 DEF Args!LogLevel, Args!Off
      <4>2. ASSUME NEW x, c["log"] = {x} PROVE Args!LogLevel(c) \in {"off", "info", "debug"}
        <5>1. Args!The(c["log"]) = x /\ x \in {"info", "off", "debug"}
          BY <3>4, <4>2, TheOnly DEF WellParsed
        <5> QED
          BY <5>1 DEF Args!LogLevel, Args!Off
      <4> QED
        BY <3>4, <4>1, <4>2, OptionNames DEF WellParsed
    <3>7. /\ argsOutcome.is = "parsed" /\ argsOutcome.command = k
          /\ argsOutcome.log = Args!LogLevel(c)
      BY <3>1
    <3>8. Args!TypeOK
      BY <1>1, <1>3, <3>5, <3>6, <3>7 DEF Args!TypeOK, Understood, Refusals, Args!Off
    <3>9. Args!AcceptedByDriver
      <4> SUFFICES ASSUME k.is = "add"
                   PROVE  /\ k.size \in DriverMinimum..DriverMaximum
                          /\ k.size % SectorSize = 0 /\ k.letter = "R"
        BY <3>7 DEF Args!AcceptedByDriver
      <4>1. k \in [is : {"add"}, letter : {"R"}, size : MinDiskSize..MaxDiskSize,
                   fs : {"FAT32", "NTFS"}, media : {"Fixed", "Removable"}]
        BY <3>5 DEF Understood, Args!Commands, Refusals
      <4> QED
        BY <3>5, <4>1, SizeBounds DEF Understood
    <3>10. Args!MeansWhatWasTyped
      <4> SUFFICES ASSUME k.is # "invalid"
                   PROVE  /\ {n \in Args!Options \ {"log"} : argsLine[n] # {}} \ {"fs"}
                               = Args!Used(k)
                          /\ argsLine["fs"] # {} => k.is = "add"
                          /\ k.is = "add" =>
                               \A v \in argsLine["size"] : k.size = v[1] * Args!Multiplier[v[2]]
        BY <3>7 DEF Args!MeansWhatWasTyped, Args!Accepted
      <4>1. \A n \in Args!Options \ {"log"} : c[n] # {} <=> argsLine[n] # {}
        BY <3>2, <3>4
      <4>2. /\ {n \in Args!Options \ {"log"} : c[n] # {}} \ {"fs"} = Args!Used(k)
            /\ c["fs"] # {} => k.is = "add"
            /\ k.is = "add" => c["size"] = {k.size}
        BY <3>5 DEF Understood
      <4>3. /\ {n \in Args!Options \ {"log"} : argsLine[n] # {}} \ {"fs"} = Args!Used(k)
            /\ argsLine["fs"] # {} => k.is = "add"
        BY <4>1, <4>2, OptionNames
      <4>4. ASSUME k.is = "add", NEW v \in argsLine["size"]
            PROVE  k.size = v[1] * Args!Multiplier[v[2]]
        <5>1. c["size"] = {k.size} /\ c["size"] = {v[1] * Args!Multiplier[v[2]]}
          BY <3>2, <3>4, <4>2, <4>4, OptionNames
        <5> QED
          BY <5>1
      <4> QED
        BY <4>3, <4>4
    <3>11. Args!JsonIsPure
      <4> SUFFICES ASSUME k.is = "list", k.json
                   PROVE  /\ Args!LogLevel(c) = "off" /\ argsLine["log"] = {}
                          /\ argsLine["timings"] = {}
        BY <3>7 DEF Args!JsonIsPure, Args!Off
      <4>1. c["log"] = {}
        BY <3>4, <3>5 DEF Understood, WellParsed
      <4> QED
        BY <3>2, <3>4, <4>1, OptionNames DEF Args!LogLevel, Args!Off
    <3> QED
      BY <2>1, <3>8, <3>9, <3>10, <3>11 DEF Args!LineIsUnderstood
  <2> QED
    BY <2>2, <2>3
<1> QED
  BY <1>2, <1>3 DEF ArgsInv

\* A line that was run is not being typed any more.
LEMMA InterpretationIsNotTyping ==
  \A s, l : Args!Interpretation(s, l) # Args!Typing
<1> SUFFICES ASSUME NEW s, NEW l PROVE Args!Interpretation(s, l) # Args!Typing
  OBVIOUS
<1>1. Args!Interpretation(s, l).is \in {"usage", "parsed"}
  BY DEF Args!Interpretation
<1> QED
  BY <1>1 DEF Args!Typing

\* Nothing has been typed.
LEMMA ArgsInit == Args!Init => ArgsInv
  BY DEF Args!Init, ArgsInv, TypedLine

\* Typing keeps the line typed, and running it interprets it.
LEMMA ArgsNext == ArgsInv /\ [Args!Next]_(Args!vars) => ArgsInv'
<1> SUFFICES ASSUME ArgsInv, [Args!Next]_(Args!vars) PROVE ArgsInv'
  OBVIOUS
<1>1. ASSUME NEW n \in Args!Names, NEW v \in Args!Values(n), Args!Type(n, v) PROVE ArgsInv'
  <2>1. argsLine' = [argsLine EXCEPT ![n] = @ \cup {v}]
    BY <1>1 DEF Args!Type
  <2>2. TypedLine(argsLine)
    BY DEF ArgsInv
  <2>3. argsLine' = [m \in Args!Names |-> IF m = n THEN argsLine[n] \cup {v} ELSE argsLine[m]]
    BY <2>1, <2>2 DEF TypedLine
  <2>4. TypedLine(argsLine')
    BY <2>2, <2>3 DEF TypedLine
  <2>5. argsOutcome = Args!Typing /\ UNCHANGED <<argsSpelling, argsOutcome>>
    BY <1>1 DEF Args!Type
  <2>6. argsSpelling = "none"
    BY <2>5, InterpretationIsNotTyping DEF ArgsInv
  <2> QED
    BY <2>4, <2>5, <2>6 DEF ArgsInv
<1>2. ASSUME NEW s \in {"slash", "long"}, Args!Run(s) PROVE ArgsInv'
  BY <1>2 DEF Args!Run, ArgsInv
<1>3. CASE UNCHANGED Args!vars
  BY <1>3 DEF Args!vars, ArgsInv
<1> QED
  BY <1>1, <1>2, <1>3 DEF Args!Next

-----------------------------------------------------------------------------
(***************************************************************************)
(* The search for a new disk.                                              *)
(***************************************************************************)
\* The search proper, between the subscription and its end.
Searching == {"list", "visit", "deadline", "wait"}

\* The subscription is in force during the whole search and no callback outlives it.
Subscription ==
  /\ arrivalRegistered <=> arrivalPc \in Searching \cup {"unregister"}
  /\ arrivalPc \in {"new", "register", "close", "end"} => arrivalCallbacks = 0
  /\ arrivalEvent = "none" => arrivalPc \in {"new", "end"}
  /\ arrivalEvent = "closed" => arrivalPc = "end"
  /\ arrivalResult # "none" => arrivalPc \in {"unregister", "drain", "close", "end"}

\* An interface that came after the snapshot has a callback running, or has set the event.
NoticedSince ==
  arrivalPc \in {"visit", "deadline", "wait"} /\ ~(Arrival!Present \subseteq arrivalListed) =>
    arrivalEvent = "set" \/ arrivalCallbacks > 0

\* The enumeration keeps one number, and has it of every disk at the location that was
\* there all along.
OneNumber ==
  /\ \A i \in arrivalStable : arrivalInterface[i] = "usable"
  /\ \A m, n \in arrivalMatched : m = n
  /\ arrivalPc = "visit" =>
       \A i \in (arrivalStable \cap AtLocation) \ arrivalLeft : Number[i] \in arrivalMatched
  /\ arrivalResult = "found" =>
       \A i, j \in arrivalStable \cap AtLocation : Number[i] = Number[j]

\* What the search, the callbacks and Windows keep true together.
ArrivalInv ==
  /\ Arrival!TypeOK
  /\ Subscription
  /\ NoticedSince
  /\ OneNumber

\* Leaving the search gives its subscription back.
LEMMA LeaveStep ==
  ASSUME ArrivalInv, NEW r, Arrival!Leave(r)
  PROVE  /\ arrivalResult' = r
         /\ arrivalPc' \in {"unregister", "close", "end"}
         /\ (arrivalRegistered <=> arrivalPc' = "unregister")
         /\ arrivalEvent = "none" => arrivalPc' = "end"
  BY DEF Arrival!Leave, ArrivalInv, Subscription, Searching

\* Every variable keeps its type: only what was listed is visited, and only numbers of disks
\* at the location are kept.
LEMMA ArrivalTypeStep ==
  ASSUME Arrival!ArrivalAssumption, ArrivalInv, [Arrival!Next]_(Arrival!vars)
  PROVE  Arrival!TypeOK'
<1> USE DEF ArrivalInv, Arrival!ArrivalAssumption
<1>1. CASE Arrival!CreateEvent \/ Arrival!Register \/ Arrival!Wait
  BY <1>1 DEF Arrival!CreateEvent, Arrival!AfterEvent, Arrival!Register, Arrival!Wait,
       Arrival!TypeOK
<1>2. CASE Arrival!Unregister \/ Arrival!CloseEvent
  BY <1>2 DEF Arrival!Unregister, Arrival!CloseEvent, Arrival!TypeOK
<1>3. CASE Arrival!List
  BY <1>3 DEF Arrival!List, Arrival!Snapshot, Arrival!Present, Arrival!Usable,
       Arrival!TypeOK
<1>4. ASSUME NEW i \in Interfaces, Arrival!Skip(i)
      PROVE  Arrival!TypeOK'
  BY <1>4 DEF Arrival!Skip, Arrival!TypeOK
<1>5. ASSUME NEW i \in Interfaces, Arrival!Match(i)
      PROVE  Arrival!TypeOK'
  <2>1. Number[i] \in {Number[j] : j \in AtLocation}
    BY <1>5 DEF Arrival!Match
  <2> QED
    BY <1>5, <2>1, LeaveStep DEF Arrival!Match, Arrival!TypeOK
<1>6. CASE Arrival!EnumerationEnds \/ Arrival!CheckDeadline \/ Arrival!CallFails
  BY <1>6, LeaveStep DEF Arrival!EnumerationEnds, Arrival!CheckDeadline,
       Arrival!CallFails, Arrival!TypeOK
<1>7. ASSUME NEW i \in Interfaces, Arrival!Arrive(i)
      PROVE  Arrival!TypeOK'
  BY <1>7 DEF Arrival!Arrive, Arrival!callerVars, Arrival!TypeOK
<1>8. ASSUME NEW i \in Interfaces, Arrival!BecomeUsable(i) \/ Arrival!Depart(i)
      PROVE  Arrival!TypeOK'
  BY <1>8 DEF Arrival!BecomeUsable, Arrival!Depart, Arrival!callerVars, Arrival!TypeOK
<1>9. CASE Arrival!Callback \/ Arrival!DeadlinePasses
  <2>1. arrivalCallbacks > 0 => arrivalCallbacks - 1 \in 0..MaxCallbacks
    BY DEF Arrival!TypeOK
  <2>2. CASE Arrival!Callback
    BY <2>1, <2>2 DEF Arrival!Callback, Arrival!callerVars, Arrival!TypeOK
  <2>3. CASE Arrival!DeadlinePasses
    BY <2>3 DEF Arrival!DeadlinePasses, Arrival!callerVars, Arrival!TypeOK
  <2> QED
    BY <1>9, <2>2, <2>3
<1>10. CASE UNCHANGED Arrival!vars
  BY <1>10 DEF Arrival!vars, Arrival!callerVars, Arrival!TypeOK
<1> QED
  BY <1>1, <1>2, <1>3, <1>4, <1>5, <1>6, <1>7, <1>8, <1>9, <1>10
  DEF Arrival!Next, Arrival!CallerStep

\* A callback runs only while its subscription is in force or being given back.
LEMMA SubscriptionStep ==
  ASSUME Arrival!ArrivalAssumption, ArrivalInv, [Arrival!Next]_(Arrival!vars)
  PROVE  Subscription'
<1> USE DEF ArrivalInv, Searching
<1>1. CASE Arrival!CreateEvent \/ Arrival!Register \/ Arrival!Wait
  BY <1>1 DEF Arrival!CreateEvent, Arrival!AfterEvent, Arrival!Register, Arrival!Wait,
       Arrival!TypeOK, Subscription
<1>2. CASE Arrival!Unregister \/ Arrival!CloseEvent
  BY <1>2 DEF Arrival!Unregister, Arrival!Unregistered, Arrival!CloseEvent,
       Arrival!TypeOK, Subscription
<1>3. CASE Arrival!List
  BY <1>3 DEF Arrival!List, Subscription
<1>4. ASSUME NEW i \in Interfaces, Arrival!Skip(i)
      PROVE  Subscription'
  BY <1>4 DEF Arrival!Skip, Subscription
<1>5. ASSUME NEW i \in Interfaces, Arrival!Match(i)
      PROVE  Subscription'
  BY <1>5, LeaveStep DEF Arrival!Match, Subscription
<1>6. CASE Arrival!EnumerationEnds \/ Arrival!CheckDeadline \/ Arrival!CallFails
  BY <1>6, LeaveStep DEF Arrival!EnumerationEnds, Arrival!CheckDeadline,
       Arrival!CallFails, Subscription
<1>7. ASSUME NEW i \in Interfaces, Arrival!Arrive(i)
      PROVE  Subscription'
  BY <1>7 DEF Arrival!Arrive, Arrival!callerVars, Subscription
<1>8. ASSUME NEW i \in Interfaces, Arrival!BecomeUsable(i) \/ Arrival!Depart(i)
      PROVE  Subscription'
  BY <1>8 DEF Arrival!BecomeUsable, Arrival!Depart, Arrival!callerVars, Subscription
<1>9. CASE Arrival!Callback \/ Arrival!DeadlinePasses
  BY <1>9 DEF Arrival!Callback, Arrival!DeadlinePasses, Arrival!callerVars,
       Arrival!TypeOK, Subscription
<1>10. CASE UNCHANGED Arrival!vars
  BY <1>10 DEF Arrival!vars, Arrival!callerVars, Subscription
<1> QED
  BY <1>1, <1>2, <1>3, <1>4, <1>5, <1>6, <1>7, <1>8, <1>9, <1>10
  DEF Arrival!Next, Arrival!CallerStep

\* An arrival after the snapshot is noticed.
LEMMA NoticedStep ==
  ASSUME Arrival!ArrivalAssumption, ArrivalInv, [Arrival!Next]_(Arrival!vars)
  PROVE  NoticedSince'
<1> USE DEF ArrivalInv, Arrival!Present
<1>1. CASE Arrival!CreateEvent \/ Arrival!Register \/ Arrival!Wait
  BY <1>1 DEF Arrival!CreateEvent, Arrival!AfterEvent, Arrival!Register, Arrival!Wait,
       NoticedSince
<1>2. CASE Arrival!Unregister \/ Arrival!CloseEvent
  BY <1>2 DEF Arrival!Unregister, Arrival!CloseEvent, NoticedSince
<1>3. CASE Arrival!List
  BY <1>3 DEF Arrival!List, NoticedSince
<1>4. ASSUME NEW i \in Interfaces, Arrival!Skip(i)
      PROVE  NoticedSince'
  BY <1>4 DEF Arrival!Skip, NoticedSince
<1>5. ASSUME NEW i \in Interfaces, Arrival!Match(i)
      PROVE  NoticedSince'
  BY <1>5, LeaveStep DEF Arrival!Match, NoticedSince
<1>6. CASE Arrival!EnumerationEnds \/ Arrival!CheckDeadline \/ Arrival!CallFails
  BY <1>6, LeaveStep DEF Arrival!EnumerationEnds, Arrival!CheckDeadline,
       Arrival!CallFails, NoticedSince
<1>7. ASSUME NEW i \in Interfaces, Arrival!Arrive(i)
      PROVE  NoticedSince'
  BY <1>7 DEF Arrival!Arrive, Arrival!callerVars, NoticedSince, Subscription, Searching,
       Arrival!TypeOK
<1>8. ASSUME NEW i \in Interfaces, Arrival!BecomeUsable(i) \/ Arrival!Depart(i)
      PROVE  NoticedSince'
  BY <1>8 DEF Arrival!BecomeUsable, Arrival!Depart, Arrival!callerVars, NoticedSince,
       Arrival!TypeOK
<1>9. CASE Arrival!Callback \/ Arrival!DeadlinePasses
  BY <1>9 DEF Arrival!Callback, Arrival!DeadlinePasses, Arrival!callerVars, NoticedSince,
       Subscription, Arrival!TypeOK
<1>10. CASE UNCHANGED Arrival!vars
  BY <1>10 DEF Arrival!vars, Arrival!callerVars, NoticedSince
<1> QED
  BY <1>1, <1>2, <1>3, <1>4, <1>5, <1>6, <1>7, <1>8, <1>9, <1>10
  DEF Arrival!Next, Arrival!CallerStep

\* The numbers agree, since the first that differs ends the enumeration.
LEMMA OneNumberStep ==
  ASSUME Arrival!ArrivalAssumption, ArrivalInv, [Arrival!Next]_(Arrival!vars)
  PROVE  OneNumber'
<1> USE DEF ArrivalInv
<1>1. CASE Arrival!CreateEvent \/ Arrival!Register \/ Arrival!Wait
  BY <1>1 DEF Arrival!CreateEvent, Arrival!AfterEvent, Arrival!Register, Arrival!Wait,
       OneNumber
<1>2. CASE Arrival!Unregister \/ Arrival!CloseEvent
  BY <1>2 DEF Arrival!Unregister, Arrival!CloseEvent, OneNumber
<1>3. CASE Arrival!List
  BY <1>3 DEF Arrival!List, Arrival!Snapshot, Arrival!Present, Arrival!Usable,
       Subscription, OneNumber, Arrival!TypeOK
<1>4. ASSUME NEW i \in Interfaces, Arrival!Skip(i)
      PROVE  OneNumber'
  BY <1>4 DEF Arrival!Skip, Arrival!Usable, OneNumber
<1>5. ASSUME NEW i \in Interfaces, Arrival!Match(i)
      PROVE  OneNumber'
  BY <1>5, LeaveStep DEF Arrival!Match, Arrival!Ambiguous, Subscription, OneNumber
<1>6. CASE Arrival!EnumerationEnds
  BY <1>6, LeaveStep DEF Arrival!EnumerationEnds, OneNumber
<1>7. CASE Arrival!CheckDeadline \/ Arrival!CallFails
  BY <1>7, LeaveStep DEF Arrival!CheckDeadline, Arrival!CallFails, OneNumber
<1>8. ASSUME NEW i \in Interfaces, Arrival!Arrive(i) \/ Arrival!BecomeUsable(i)
      PROVE  OneNumber'
  BY <1>8 DEF Arrival!Arrive, Arrival!BecomeUsable, Arrival!callerVars, OneNumber,
       Arrival!TypeOK
<1>9. ASSUME NEW i \in Interfaces, Arrival!Depart(i)
      PROVE  OneNumber'
  BY <1>9 DEF Arrival!Depart, Arrival!callerVars, OneNumber, Arrival!TypeOK
<1>10. CASE Arrival!Callback \/ Arrival!DeadlinePasses
  BY <1>10 DEF Arrival!Callback, Arrival!DeadlinePasses, Arrival!callerVars, OneNumber
<1>11. CASE UNCHANGED Arrival!vars
  BY <1>11 DEF Arrival!vars, Arrival!callerVars, OneNumber
<1> QED
  BY <1>1, <1>2, <1>3, <1>4, <1>5, <1>6, <1>7, <1>8, <1>9, <1>10, <1>11
  DEF Arrival!Next, Arrival!CallerStep

\* The search has not begun.
LEMMA ArrivalInit == Arrival!Init => ArrivalInv
<1> SUFFICES ASSUME Arrival!Init
             PROVE  ArrivalInv
  OBVIOUS
<1>1. Arrival!TypeOK
  <2>1. arrivalInterface \in [Interfaces -> {"absent", "present", "usable"}]
    BY DEF Arrival!Init
  <2>2. arrivalCallbacks \in 0..MaxCallbacks
    BY Parameters DEF Arrival!Init, Arrival!ArrivalAssumption
  <2> QED
    BY <2>1, <2>2 DEF Arrival!Init, Arrival!TypeOK
<1>2. Subscription /\ NoticedSince /\ OneNumber
  BY DEF Arrival!Init, Subscription, Searching, NoticedSince, OneNumber
<1> QED
  BY <1>1, <1>2 DEF ArrivalInv

\* Every step of the search, of a callback and of Windows keeps the invariant.
LEMMA ArrivalNext == ArrivalInv /\ [Arrival!Next]_(Arrival!vars) => ArrivalInv'
<1>1. Arrival!ArrivalAssumption
  BY Parameters
<1> QED
  BY <1>1, ArrivalTypeStep, SubscriptionStep, NoticedStep, OneNumberStep DEF ArrivalInv

-----------------------------------------------------------------------------
(***************************************************************************)
(* The parts in Cli.                                                       *)
(***************************************************************************)
\* A behaviour of Cli is one of Add: the steps of the other parts leave it alone.
LEMMA AddMoves == Spec => Add!Spec
<1>1. Init => Add!Init
  BY DEF Init
<1>2. UNCHANGED addVars => UNCHANGED Add!vars
  BY DEF addVars, Add!vars, Add!world
<1>3. [Next]_vars => [Add!Next]_(Add!vars)
  <2>1. CASE Next
    BY <1>2, <2>1 DEF Next
  <2>2. CASE UNCHANGED vars
    BY <1>2, <2>2 DEF vars
  <2> QED
    BY <2>1, <2>2
<1> QED
  BY <1>1, <1>3, PTL DEF Spec, Add!Spec

\* A behaviour of Cli is one of Remove: the steps of the other parts leave it alone.
LEMMA RemoveMoves == Spec => Remove!Spec
<1>1. Init => Remove!Init
  BY DEF Init
<1>2. UNCHANGED removeVars => UNCHANGED Remove!vars
  BY DEF removeVars, Remove!vars
<1>3. [Next]_vars => [Remove!Next]_(Remove!vars)
  <2>1. CASE Next
    BY <1>2, <2>1 DEF Next
  <2>2. CASE UNCHANGED vars
    BY <1>2, <2>2 DEF vars
  <2> QED
    BY <2>1, <2>2
<1> QED
  BY <1>1, <1>3, PTL DEF Spec, Remove!Spec

\* A behaviour of Cli is one of Arrival: the steps of the other parts leave it alone.
LEMMA ArrivalMoves == Spec => Arrival!Spec
<1>1. Init => Arrival!Init
  BY DEF Init
<1>2. UNCHANGED arrivalVars => UNCHANGED Arrival!vars
  BY DEF arrivalVars, Arrival!vars, Arrival!callerVars
<1>3. [Next]_vars => [Arrival!Next]_(Arrival!vars)
  <2>1. CASE Next
    BY <1>2, <2>1 DEF Next
  <2>2. CASE UNCHANGED vars
    BY <1>2, <2>2 DEF vars
  <2> QED
    BY <2>1, <2>2
<1> QED
  BY <1>1, <1>3, PTL DEF Spec, Arrival!Spec

\* A behaviour of Cli is one of Install: the steps of the other parts leave it alone.
LEMMA InstallMoves == Spec => Install!Spec
<1>1. Init => Install!Init
  BY DEF Init
<1>2. UNCHANGED installVars => UNCHANGED Install!vars
  BY DEF installVars, Install!vars
<1>3. [Next]_vars => [Install!Next]_(Install!vars)
  <2>1. CASE Next
    BY <1>2, <2>1 DEF Next
  <2>2. CASE UNCHANGED vars
    BY <1>2, <2>2 DEF vars
  <2> QED
    BY <2>1, <2>2
<1> QED
  BY <1>1, <1>3, PTL DEF Spec, Install!Spec

\* A behaviour of Cli is one of Wire: the steps of the other parts leave it alone.
LEMMA WireMoves == Spec => Wire!Spec
<1>1. Init => Wire!Init
  BY DEF Init
<1>2. UNCHANGED wireVars => UNCHANGED Wire!vars
  BY DEF wireVars, Wire!vars
<1>3. [Next]_vars => [Wire!Next]_(Wire!vars)
  <2>1. CASE Next
    BY <1>2, <2>1 DEF Next
  <2>2. CASE UNCHANGED vars
    BY <1>2, <2>2 DEF vars
  <2> QED
    BY <2>1, <2>2
<1> QED
  BY <1>1, <1>3, PTL DEF Spec, Wire!Spec

\* A behaviour of Cli is one of Log: the steps of the other parts leave it alone.
LEMMA LogMoves == Spec => Log!Spec
<1>1. Init => Log!Init
  BY DEF Init
<1>2. UNCHANGED logVars => UNCHANGED Log!vars
  BY DEF logVars, Log!vars
<1>3. [Next]_vars => [Log!Next]_(Log!vars)
  <2>1. CASE Next
    BY <1>2, <2>1 DEF Next
  <2>2. CASE UNCHANGED vars
    BY <1>2, <2>2 DEF vars
  <2> QED
    BY <2>1, <2>2
<1> QED
  BY <1>1, <1>3, PTL DEF Spec, Log!Spec

\* A behaviour of Cli is one of Args: the steps of the other parts leave it alone.
LEMMA ArgsMoves == Spec => Args!Spec
<1>1. Init => Args!Init
  BY DEF Init
<1>2. UNCHANGED argsVars => UNCHANGED Args!vars
  BY DEF argsVars, Args!vars
<1>3. [Next]_vars => [Args!Next]_(Args!vars)
  <2>1. CASE Next
    BY <1>2, <2>1 DEF Next
  <2>2. CASE UNCHANGED vars
    BY <1>2, <2>2 DEF vars
  <2> QED
    BY <2>1, <2>2
<1> QED
  BY <1>1, <1>3, PTL DEF Spec, Args!Spec

\* Whatever fails while a disk is added, the exit code and the error of wispdisk /add say
\* what became of the disk.
THEOREM AddsOfTheCliAreHonest == Spec => []AddIsHonest
<1>1. Add!AddAssumption
  BY Parameters
<1>2. Add!Spec => []Add!AddIsHonest
  BY <1>1, Add!AddsAreHonest
<1> QED
  BY <1>2, AddMoves, PTL DEF AddIsHonest

\* wispdisk /add reports a success only while the letter leads to the new disk, and that disk
\* has been formatted unless the letter was somewhere else in between.
THEOREM SuccessesOfTheCliAreUsable == Spec => SuccessIsUsable
<1>1. Add!AddAssumption
  BY Parameters
<1>2. Add!Spec => Add!SuccessIsUsable
  BY <1>1, Add!SuccessesAreUsable
<1> QED
  BY <1>2, AddMoves, PTL DEF SuccessIsUsable

\* A deletion that fails is undone in order, and without /force touches no volume in use,
\* however many volumes and mount points the disk has.
THEOREM DeletesOfTheCliAreCareful == Spec => []DeleteIsCareful
<1>1. Remove!RemoveAssumption
  BY Parameters
<1>2. Remove!Spec => []Remove!DeleteIsCareful
  BY <1>1, Remove!DeletesAreCareful
<1> QED
  BY <1>2, RemoveMoves, PTL DEF DeleteIsCareful

\* wispdisk /del deletes the disk that the user named, at once or late, only while it is
\* dismounted and without mount points, and puts none back once a delete was or may be done.
THEOREM DeletesOfTheCliAreOrdered == Spec => DeleteOrder
<1>1. Remove!RemoveAssumption
  BY Parameters
<1>2. Remove!Spec => Remove!DeleteOrder
  BY <1>1, Remove!DeletesAreOrdered
<1> QED
  BY <1>2, RemoveMoves, PTL DEF DeleteOrder

\* wait_for_physical_disk misses no arrival, uses no event that was closed and never guesses
\* between disks, however many interfaces come and go.
THEOREM SearchesAreSound == Spec => []SearchIsSound
<1>1. Arrival!Init => ArrivalInv
  BY ArrivalInit
<1>2. ArrivalInv /\ [Arrival!Next]_(Arrival!vars) => ArrivalInv'
  BY ArrivalNext
<1>3. ArrivalInv => SearchIsSound
  BY DEF ArrivalInv, NoticedSince, Subscription, OneNumber, SearchIsSound,
     Arrival!SearchIsSound, Arrival!NoLostArrival, Arrival!NoCallbackOnClosedEvent,
     Arrival!NeverGuesses
<1> QED
  BY <1>1, <1>2, <1>3, ArrivalMoves, PTL DEF Arrival!Spec

\* However many CLI processes install the driver at once, a failed installation removes the
\* root device that it created and no other, or says that it could not, and reports why the
\* binding failed.
THEOREM InstallationsCleanUp == Spec => []InstallCleansUp
<1>1. Install!Init => InstallInv
  BY InstallInit
<1>2. InstallInv /\ [Install!Next]_(Install!vars) => InstallInv'
  <2>1. ASSUME InstallInv, Install!Next PROVE InstallInv'
    BY <2>1, InstallStep DEF Install!Next
  <2>2. ASSUME InstallInv, UNCHANGED Install!vars PROVE InstallInv'
    BY <2>2 DEF Install!vars, InstallInv, Install!TypeOK, Install!Registered,
       Install!FailureLeavesNoDevice, Install!OthersUntouched, Install!BindErrorSurvives
  <2> QED
    BY <2>1, <2>2
<1>3. InstallInv => InstallCleansUp
  BY DEF InstallInv, InstallCleansUp, Install!InstallCleansUp
<1> QED
  BY <1>1, <1>2, <1>3, InstallMoves, PTL DEF Install!Spec

\* Adapter::send understands this driver's successes and refusals as they were meant, takes no
\* request that comes back untouched for an answer, and the scan settles on this driver,
\* whatever is behind however many ports.
THEOREM ExchangesAreSound == Spec => []ExchangeIsSound
<1>1. Wire!Init => WireInv
  BY WireInit
<1>2. WireInv /\ [Wire!Next]_(Wire!vars) => WireInv'
  BY WireNext
<1>3. WireInv => ExchangeIsSound
  BY DEF WireInv, ExchangeIsSound
<1> QED
  BY <1>1, <1>2, <1>3, WireMoves, PTL DEF Wire!Spec

\* Whichever call of Logging and DriverEvents fails, no line is lost, no callback state freed
\* under a running thread and no ETW session left behind without a word, for every number of
\* lines and size of the buffer.
THEOREM LogsAreAccountable == Spec => []LogIsAccountable
<1>1. Log!Init => LogInv
  BY LogInit
<1>2. LogInv /\ [Log!Next]_(Log!vars) => LogInv'
  BY LogNext
<1>3. LogInv => LogIsAccountable
  BY DEF LogInv, LogIsAccountable, Log!LogIsAccountable, Log!TypeOK,
     Log!NothingLostSilently, Log!CallbackStateAlive, Log!NoSessionLeft
<1> QED
  BY <1>1, <1>2, <1>3, LogMoves, PTL DEF Log!Spec

\* Every line, however long and whatever sizes are typed, is refused or becomes the command
\* that was typed, with a size that the driver accepts, in either spelling.
THEOREM LinesAreUnderstood == Spec => []LineIsUnderstood
<1>1. Args!Init => ArgsInv
  BY ArgsInit
<1>2. ArgsInv /\ [Args!Next]_(Args!vars) => ArgsInv'
  BY ArgsNext
<1>3. ArgsInv => LineIsUnderstood
  BY LineUnderstood DEF LineIsUnderstood
<1> QED
  BY <1>1, <1>2, <1>3, ArgsMoves, PTL DEF Args!Spec

=============================================================================
