----------------------------------- MODULE Cli -----------------------------------
(***************************************************************************)
(* The parts of the CLI side by side.  They share no state (each module    *)
(* states what the others are to it), so a behaviour of this module is a   *)
(* behaviour of one part, which Init chooses, while the others stay in an  *)
(* initial state: the state space is the sum of the parts'.  A part is     *)
(* taken with the theorems about it where it has a module of them.         *)
(***************************************************************************)
EXTENDS Naturals

CONSTANTS          \* of AddDisk, RemoveDisk, DiskArrival, DriverInstall, WireProtocol, Logging
  MaxRetries, VolumeCount, MountCount, Interfaces, AtLocation, Number, MaxCallbacks,
  Installers, Ports, MaxCorrelation, MaxEvents, LineLimit
CONSTANTS          \* of Arguments
  SectorSize, MinDiskSize, MinFat32DiskSize, MaxDiskSize, DriverMinimum, DriverMaximum,
  MaxWord, Kilo, Kibi, Sizes, MaxArguments, MaxValues

VARIABLE part      \* the part that moves

VARIABLES
  addMedia, addAdapter, addDevice, addPhysical, addLayout, addAttached, addLetter,
  addBusy, addVolume, addFormatted, addPc, addRetries, addError, addSaid, addExit,
  addLate, addUnknown, addStrayed
VARIABLES
  removeDevice, removePhysical, removeBusy, removeForce, removeId, removeOpened,
  removePc, removeAt, removeIndex, removeLocked, removeDismounted, removePoints,
  removeRemoved, removeFailure, removeRestoreFailed, removeLate, removeResult,
  removeEverLocked, removeLost
VARIABLES
  arrivalInterface, arrivalEvent, arrivalRegistered, arrivalCallbacks, arrivalPc,
  arrivalListed, arrivalLeft, arrivalMatched, arrivalExpired, arrivalResult,
  arrivalStable
VARIABLES
  installContent, installStaged, installDevice, installStarted, installPc,
  installFile, installLastError, installReported, installResult, installRemover
VARIABLES
  wireKind, wirePort, wirePhase, wireRequest, wireReply, wireVerdict,
  wireCorrelation
VARIABLES
  logPc, logSession, logConsumer, logHeld, logWorker, logJoinable, logBuffered,
  logLines, logEvents, logWritten, logDropped, logReported, logWarned, logFinished
VARIABLES
  argsLine, argsSpelling, argsOutcome

Parts == {"add", "remove", "arrival", "install", "wire", "log", "args"}

Add == INSTANCE AddDiskProofs WITH
  media <- addMedia, adapter <- addAdapter, device <- addDevice,
  physical <- addPhysical, layout <- addLayout, attached <- addAttached,
  letter <- addLetter, busy <- addBusy, volume <- addVolume, formatted <- addFormatted,
  pc <- addPc, retries <- addRetries, error <- addError, said <- addSaid,
  exit <- addExit, late <- addLate, unknown <- addUnknown, strayed <- addStrayed
Remove == INSTANCE RemoveDiskProofs WITH
  device <- removeDevice, physical <- removePhysical, busy <- removeBusy,
  force <- removeForce, id <- removeId, opened <- removeOpened, pc <- removePc,
  at <- removeAt, index <- removeIndex, locked <- removeLocked,
  dismounted <- removeDismounted, points <- removePoints, removed <- removeRemoved,
  failure <- removeFailure, restoreFailed <- removeRestoreFailed, late <- removeLate,
  result <- removeResult, everLocked <- removeEverLocked, lost <- removeLost
Arrival == INSTANCE DiskArrival WITH
  interface <- arrivalInterface, event <- arrivalEvent,
  registered <- arrivalRegistered, callbacks <- arrivalCallbacks, pc <- arrivalPc,
  listed <- arrivalListed, left <- arrivalLeft, matched <- arrivalMatched,
  expired <- arrivalExpired, result <- arrivalResult, stable <- arrivalStable
Install == INSTANCE DriverInstall WITH
  content <- installContent, staged <- installStaged, device <- installDevice,
  started <- installStarted, pc <- installPc, file <- installFile,
  lastError <- installLastError, reported <- installReported, result <- installResult,
  remover <- installRemover
Wire == INSTANCE WireProtocol WITH
  kind <- wireKind, port <- wirePort, phase <- wirePhase, request <- wireRequest,
  reply <- wireReply, verdict <- wireVerdict, correlation <- wireCorrelation
Log == INSTANCE Logging WITH
  pc <- logPc, session <- logSession, consumer <- logConsumer, held <- logHeld,
  worker <- logWorker, joinable <- logJoinable, buffered <- logBuffered,
  lines <- logLines, events <- logEvents, written <- logWritten, dropped <- logDropped,
  reported <- logReported, warned <- logWarned, finished <- logFinished
Args == INSTANCE Arguments WITH
  line <- argsLine, spelling <- argsSpelling, outcome <- argsOutcome

ASSUME Parameters ==
  /\ Add!AddAssumption /\ Remove!RemoveAssumption /\ Arrival!ArrivalAssumption
  /\ Wire!WireAssumption /\ Log!LoggingAssumption /\ Args!SizeAssumption

addVars == <<addMedia, addAdapter, addDevice, addPhysical, addLayout, addAttached,
  addLetter, addBusy, addVolume, addFormatted, addPc, addRetries, addError, addSaid,
  addExit, addLate, addUnknown, addStrayed>>
removeVars == <<removeDevice, removePhysical, removeBusy, removeForce, removeId,
  removeOpened, removePc, removeAt, removeIndex, removeLocked, removeDismounted,
  removePoints, removeRemoved, removeFailure, removeRestoreFailed, removeLate,
  removeResult, removeEverLocked, removeLost>>
arrivalVars == <<arrivalInterface, arrivalEvent, arrivalRegistered,
  arrivalCallbacks, arrivalPc, arrivalListed, arrivalLeft, arrivalMatched,
  arrivalExpired, arrivalResult, arrivalStable>>
installVars == <<installContent, installStaged, installDevice, installStarted,
  installPc, installFile, installLastError, installReported, installResult,
  installRemover>>
wireVars == <<wireKind, wirePort, wirePhase, wireRequest, wireReply, wireVerdict,
  wireCorrelation>>
logVars == <<logPc, logSession, logConsumer, logHeld, logWorker, logJoinable,
  logBuffered, logLines, logEvents, logWritten, logDropped, logReported, logWarned,
  logFinished>>
argsVars == <<argsLine, argsSpelling, argsOutcome>>
vars == <<part, addVars, removeVars, arrivalVars, installVars, wireVars, logVars, argsVars>>

-----------------------------------------------------------------------------
\* A part that stays still does so in one of its initial states.
Init ==
  /\ part \in Parts
  /\ Add!Init /\ Remove!Init /\ Arrival!Init /\ Install!Init /\ Wire!Init /\ Log!Init
  /\ Args!Init
  /\ part # "add" => addMedia = "Fixed" /\ addAdapter /\ addLetter = "none"
  /\ part # "remove" => removeBusy = {} /\ removeForce /\ removePc = "letter"
  /\ part # "arrival" => \A i \in DOMAIN arrivalInterface : arrivalInterface[i] = "absent"
  /\ part # "wire" => \A p \in DOMAIN wireKind : wireKind[p] = "ours"

Next ==
  \/ /\ part = "add" /\ Add!Next
     /\ UNCHANGED <<part, removeVars, arrivalVars, installVars, wireVars, logVars, argsVars>>
  \/ /\ part = "remove" /\ Remove!Next
     /\ UNCHANGED <<part, addVars, arrivalVars, installVars, wireVars, logVars, argsVars>>
  \/ /\ part = "arrival" /\ Arrival!Next
     /\ UNCHANGED <<part, addVars, removeVars, installVars, wireVars, logVars, argsVars>>
  \/ /\ part = "install" /\ Install!Next
     /\ UNCHANGED <<part, addVars, removeVars, arrivalVars, wireVars, logVars, argsVars>>
  \/ /\ part = "wire" /\ Wire!Next
     /\ UNCHANGED <<part, addVars, removeVars, arrivalVars, installVars, logVars, argsVars>>
  \/ /\ part = "log" /\ Log!Next
     /\ UNCHANGED <<part, addVars, removeVars, arrivalVars, installVars, wireVars, argsVars>>
  \/ /\ part = "args" /\ Args!Next
     /\ UNCHANGED <<part, addVars, removeVars, arrivalVars, installVars, wireVars, logVars>>

Spec == Init /\ [][Next]_vars

\* Each part under the fairness that its own module states and explains.
FairSpec ==
  /\ Spec
  /\ WF_addVars(part = "add" /\ Add!CliStep)
  /\ WF_arrivalVars(part = "arrival" /\ Arrival!CallerStep)
  /\ WF_arrivalVars(part = "arrival" /\ Arrival!Callback)
  /\ WF_logVars(part = "log" /\ Log!MainStep)
  /\ WF_logVars(part = "log" /\ Log!WorkerStep)
  /\ WF_logVars(part = "log" /\ Log!WriteLine)

-----------------------------------------------------------------------------
(***************************************************************************)
(* The parts' properties.  A liveness property is asked of the part that   *)
(* moves.                                                                  *)
(***************************************************************************)
\* creation.rs, provisioning.rs, main.rs: exit code and error say what became of the disk.
AddIsHonest == Add!AddIsHonest
\* provisioning.rs: a reported success means that the letter leads to the new disk, which has
\* been formatted unless the letter was somewhere else in between.
SuccessIsUsable == Add!SuccessIsUsable
\* removal.rs, deletion.rs, volume/mod.rs: a failed delete is undone, in order, and open
\* files are safe without /force.
DeleteIsCareful == Remove!DeleteIsCareful
\* removal.rs: the named disk is quiet when it is deleted, now or late, and nothing is
\* mounted under a delete.
DeleteOrder == Remove!DeleteOrder
\* disk/mod.rs, interface_notification.rs: no arrival is missed, no closed event used, no
\* disk guessed.
SearchIsSound == Arrival!SearchIsSound
\* install.rs: a failed installation removes its own device and reports why it failed.
InstallCleansUp == Install!InstallCleansUp
\* adapter/mod.rs: answers are understood as they were meant, and come from this driver.
ExchangeIsSound == Wire!ExchangeIsSound
\* logging.rs, driver_events.rs: nothing is lost, freed early or left running silently.
LogIsAccountable == Log!LogIsAccountable
\* args.rs: a command is what was typed, and what the driver accepts.
LineIsUnderstood == Args!LineIsUnderstood

\* creation.rs, disk/mod.rs, logging.rs: an add ends although a volume stays locked; a
\* search ends when its deadline passes, and finds a disk that stays; taking the logging
\* down never hangs.
CallsEnd ==
  /\ part = "add" => Add!AddEnds
  /\ part = "arrival" => Arrival!FindsWhatStays /\ Arrival!SearchEnds
  /\ part = "log" => Log!LoggingEnds
=============================================================================
