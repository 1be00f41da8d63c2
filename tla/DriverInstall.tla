------------------------------ MODULE DriverInstall ------------------------------
(***************************************************************************)
(* ensure_adapter (disk/creation.rs) with install_embedded_driver and      *)
(* wait_for_adapter (adapter/install.rs, adapter/mod.rs), run by several   *)
(* CLI processes at once: they share the directory the package is         *)
(* extracted to, the driver store and the root devices.                   *)
(*                                                                         *)
(* A definition may follow a wrong form of itself, named for the mistake   *)
(* and used by no action.                                                  *)
(***************************************************************************)
EXTENDS Naturals, Sequences

CONSTANT Installers

PackageFiles == <<"WispDisk.sys", "WispDisk.inf", "WispDisk.cat">>
Files == {PackageFiles[i] : i \in DOMAIN PackageFiles}

VARIABLES
  content,         \* each extracted file: "absent", "partial" or "whole"
  staged,          \* DiInstallDriverW put the package into the driver store
  device,          \* the root device an installer created
  started,         \* devices whose driver has been bound and started
  pc, file,
  lastError,       \* the thread's GetLastError: the call that failed last
  reported,        \* the primary error of the result
  result,
  remover          \* observer: who removed the device

vars == <<content, staged, device, started, pc, file, lastError, reported, result, remover>>

Registered == {d \in Installers : device[d] = "registered"}

\* The state is well formed; the extraction of install.rs stays within the package, and only
\* a registered device is ever started.
TypeOK ==
  /\ content \in [Files -> {"absent", "partial", "whole"}] /\ staged \in BOOLEAN
  /\ device \in [Installers -> {"none", "info", "registered"}]
  /\ started \subseteq Registered
  /\ pc \in [Installers -> {"look", "truncate", "fill", "stage", "exists", "info", "id",
                            "register", "bind", "remove", "wait", "end"}]
  /\ file \in [Installers -> DOMAIN PackageFiles]
  /\ lastError \in [Installers -> {"none", "bind", "remove"}]
  /\ reported \in [Installers -> {"none", "other", "bind", "remove"}]
  /\ result \in [Installers -> {"none", "ok", "failed", "rollbackFailed", "reboot",
                                "noAdapter"}]
  /\ remover \in [Installers -> Installers \cup {"nobody"}]

Init ==
  /\ content = [f \in Files |-> "absent"] /\ staged = FALSE
  /\ device = [p \in Installers |-> "none"] /\ started = {}
  /\ pc = [p \in Installers |-> "look"] /\ file = [p \in Installers |-> 1]
  /\ lastError = [p \in Installers |-> "none"] /\ reported = [p \in Installers |-> "none"]
  /\ result = [p \in Installers |-> "none"] /\ remover = [p \in Installers |-> "nobody"]

Go(p, next) == pc' = [pc EXCEPT ![p] = next] /\ UNCHANGED <<reported, result>>
Return(p, r, error) ==
  /\ pc' = [pc EXCEPT ![p] = "end"]
  /\ result' = [result EXCEPT ![p] = r] /\ reported' = [reported EXCEPT ![p] = error]

world == <<content, staged, device, started, remover>>

-----------------------------------------------------------------------------
(***************************************************************************)
(* ensure_adapter and wait_for_adapter: a started device answers.          *)
(***************************************************************************)
Look(p) ==
  /\ pc[p] = "look"
  /\ IF started # {} THEN Return(p, "ok", "none") ELSE Go(p, "truncate")
  /\ UNCHANGED <<world, file, lastError>>

WaitForAdapter(p) ==
  /\ pc[p] = "wait"
  /\ \/ started # {} /\ Return(p, "ok", "none")
     \/ Return(p, "noAdapter", "other")           \* after 30 seconds
  /\ UNCHANGED <<world, file, lastError>>

-----------------------------------------------------------------------------
(***************************************************************************)
(* extract_embedded: fs::write truncates, then writes.                     *)
(***************************************************************************)
TruncateFile(p) ==
  /\ pc[p] = "truncate"
  /\ content' = [content EXCEPT ![PackageFiles[file[p]]] = "partial"]
  /\ Go(p, "fill")
  /\ UNCHANGED <<staged, device, started, remover, file, lastError>>

MoreFiles(i) == i < Len(PackageFiles)

FillFile(p) ==
  /\ pc[p] = "fill"
  /\ content' = [content EXCEPT ![PackageFiles[file[p]]] = "whole"]
  /\ IF MoreFiles(file[p])
       THEN file' = [file EXCEPT ![p] = @ + 1] /\ Go(p, "truncate")
       ELSE UNCHANGED file /\ Go(p, "stage")
  /\ UNCHANGED <<staged, device, started, remover, lastError>>

-----------------------------------------------------------------------------
(***************************************************************************)
(* DriverPackage::install and CreatedDevice.                               *)
(***************************************************************************)
\* Windows checks the files against the signed catalog.
Stage(p) ==
  /\ pc[p] = "stage" /\ \A f \in Files : content[f] = "whole"
  /\ staged' = TRUE
  /\ Go(p, "exists")
  /\ UNCHANGED <<content, device, started, remover, file, lastError>>

\* CreatedDevice::exists looks for the hardware ID of any root device.
Exists(p) ==
  /\ pc[p] = "exists"
  /\ Go(p, IF Registered # {} THEN "bind" ELSE "info")
  /\ UNCHANGED <<world, file, lastError>>

\* A device info element that was not registered goes with its DeviceInfoSet.
DeviceInfoDropped(p) == IF device[p] = "info" THEN "none" ELSE device[p]

CreateDeviceInfo(p) ==
  /\ pc[p] = "info"
  /\ device' = [device EXCEPT ![p] = "info"]
  /\ Go(p, "id")
  /\ UNCHANGED <<content, staged, started, remover, file, lastError>>

SetHardwareId(p) ==
  /\ pc[p] = "id"
  /\ Go(p, "register")
  /\ UNCHANGED <<world, file, lastError>>

RegisterDevice(p) ==
  /\ pc[p] = "register"
  /\ device' = [device EXCEPT ![p] = "registered"]
  /\ Go(p, "bind")
  /\ UNCHANGED <<content, staged, started, remover, file, lastError>>

\* Every device with the hardware ID is bound; there has to be one.
Bind(p) ==
  /\ pc[p] = "bind" /\ staged /\ Registered # {}
  /\ \/ started' = Registered /\ Go(p, "wait")
     \/ started' = started /\ Return(p, "reboot", "other")
  /\ UNCHANGED <<content, staged, device, remover, file, lastError>>

CreatedOrFound(p) == Registered # {}
Created(p) == device[p] = "registered"

BindFails(p) ==
  /\ pc[p] = "bind"
  /\ lastError' = [lastError EXCEPT ![p] = "bind"]
  /\ IF Created(p)
       THEN Go(p, "remove")
       ELSE Return(p, "failed", "bind")
  /\ UNCHANGED <<world, file>>

\* DIF_REMOVE acts on the element of this process's own DeviceInfoSet, or, had
\* it none, on the device that exists() found.
Removed(p) == IF device[p] = "registered" THEN p ELSE CHOOSE d \in Registered : TRUE

\* The bind error was captured before the removal.
Primary(p) == lastError[p]

RemoveDevice(p) ==
  /\ pc[p] = "remove"
  /\ \/ /\ Registered # {}
        /\ device' = [device EXCEPT ![Removed(p)] = "none"]
        /\ started' = started \ {Removed(p)}
        /\ remover' = [remover EXCEPT ![Removed(p)] = p]
        /\ lastError' = lastError
        /\ Return(p, "failed", Primary(p))
     \/ /\ lastError' = [lastError EXCEPT ![p] = "remove"]
        /\ Return(p, "rollbackFailed", Primary(p))
        /\ UNCHANGED <<device, started, remover>>
  /\ UNCHANGED <<content, staged, file>>

\* Any other call that fails ends the installation with its error.
CallFails(p) ==
  /\ pc[p] \in {"truncate", "fill", "stage", "exists", "info", "id", "register"}
  /\ device' = [device EXCEPT ![p] = DeviceInfoDropped(p)]
  /\ Return(p, "failed", "other")
  /\ UNCHANGED <<content, staged, started, remover, file, lastError>>

Step(p) ==
  \/ Look(p) \/ WaitForAdapter(p) \/ TruncateFile(p) \/ FillFile(p) \/ Stage(p) \/ Exists(p)
  \/ CreateDeviceInfo(p) \/ SetHardwareId(p) \/ RegisterDevice(p) \/ Bind(p) \/ BindFails(p)
  \/ RemoveDevice(p) \/ CallFails(p)

Next == \E p \in Installers : Step(p)
Spec == Init /\ [][Next]_vars

-----------------------------------------------------------------------------
(***************************************************************************)
(* Properties.                                                             *)
(***************************************************************************)

\* A root device is left behind by an installation that failed only where the
\* error says so: a plain failure leaves none, a failed removal leaves one.
FailureLeavesNoDevice ==
  \A p \in Installers :
    /\ result[p] = "failed" => device[p] = "none"
    /\ result[p] = "rollbackFailed" => device[p] = "registered"

\* A rollback removes only the device that its own process created, never one
\* that another process created and may be using.
OthersUntouched == \A d \in Installers : remover[d] \in {"nobody", d}

\* An installation that fails at the binding reports the binding's error, also
\* when the removal fails with another one.
BindErrorSurvives ==
  \A p \in Installers : lastError[p] # "none" /\ pc[p] = "end" => reported[p] = "bind"

\* install_embedded_driver, run by several processes at once, cleans up after itself, only
\* after itself, and reports why.
InstallCleansUp == TypeOK /\ FailureLeavesNoDevice /\ OthersUntouched /\ BindErrorSurvives

=============================================================================
