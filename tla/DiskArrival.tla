------------------------------- MODULE DiskArrival -------------------------------
(***************************************************************************)
(* wait_for_physical_disk (disk/mod.rs) and the arrival subscription it     *)
(* holds (disk/interface_notification.rs): one thread enumerates disk      *)
(* interfaces and waits on an auto-reset event that callbacks of the       *)
(* configuration manager set, while interfaces arrive, become usable and   *)
(* go, and until the deadline passes.                                      *)
(*                                                                         *)
(* A definition may follow a wrong form of itself, named for the mistake   *)
(* and used by no action.                                                  *)
(***************************************************************************)
EXTENDS Naturals

CONSTANTS
  Interfaces,      \* disk interfaces that may exist
  AtLocation,      \* those whose disk reports the expected ScsiLocation
  Number,          \* the storage device number of each
  MaxCallbacks     \* bound of the model: callbacks running at once

\* What the instances of this module assume.
ArrivalAssumption ==
  AtLocation \subseteq Interfaces /\ Number \in [Interfaces -> Nat] /\ MaxCallbacks \in Nat

VARIABLES
  interface,       \* "absent", "present" (enumerated, not answering yet) or "usable"
  event,           \* the event: "none", "unset", "set" or "closed"
  registered,      \* CM_Register_Notification is in force
  callbacks,       \* callbacks that have not called SetEvent yet
  pc,
  listed,          \* the SetupAPI snapshot that is being enumerated
  left,            \* its interfaces not visited yet
  matched,         \* the numbers found in it
  expired,         \* the deadline has passed
  result,
  stable           \* observer: listed interfaces usable ever since

callerVars == <<pc, listed, left, matched, result>>
vars == <<interface, event, registered, callbacks, callerVars, expired, stable>>

Usable == {i \in Interfaces : interface[i] = "usable"}
Present == {i \in Interfaces : interface[i] # "absent"}

\* The state is well formed; find_physical_disk visits only what it has listed, at the
\* location it was asked for.
TypeOK ==
  /\ interface \in [Interfaces -> {"absent", "present", "usable"}]
  /\ event \in {"none", "unset", "set", "closed"}
  /\ registered \in BOOLEAN /\ callbacks \in 0..MaxCallbacks
  /\ pc \in {"new", "register", "list", "visit", "deadline", "wait", "unregister", "drain",
             "close", "end"}
  /\ listed \subseteq Interfaces /\ left \subseteq listed /\ stable \subseteq listed
  /\ matched \subseteq {Number[i] : i \in AtLocation}
  /\ expired \in BOOLEAN
  /\ result \in {"none", "found", "error", "ambiguous", "timeout"}

Init ==
  /\ interface \in [Interfaces -> {"absent", "usable"}]
  /\ event = "none" /\ registered = FALSE /\ callbacks = 0
  /\ pc = "new" /\ listed = {} /\ left = {} /\ matched = {} /\ result = "none"
  /\ expired = FALSE /\ stable = {}

-----------------------------------------------------------------------------
(***************************************************************************)
(* DiskInterfaceNotification: new, wait and drop.  The struct's own drop    *)
(* unregisters, which waits for running callbacks; then the field `event`   *)
(* closes the handle.                                                      *)
(***************************************************************************)
Leave(r) ==
  /\ result' = r
  /\ pc' = IF registered THEN "unregister" ELSE IF event = "none" THEN "end" ELSE "close"

AfterEventLists == "list"
AfterEvent == "register"

CreateEvent ==
  /\ pc = "new"
  /\ event' = "unset" /\ pc' = AfterEvent
  /\ UNCHANGED <<interface, registered, callbacks, listed, left, matched, result, expired,
                 stable>>

\* The subscription starts before the first enumeration.
Register ==
  /\ pc = "register"
  /\ registered' = TRUE /\ pc' = "list"
  /\ UNCHANGED <<interface, event, callbacks, listed, left, matched, result, expired, stable>>

FallbackNever == FALSE
\* The wait lasts at most RETRY_INTERVAL: it may end without an arrival.
Fallback == TRUE

Wait ==
  /\ pc = "wait"
  /\ event = "set" \/ Fallback
  /\ event' = "unset" /\ pc' = "list"
  /\ UNCHANGED <<interface, registered, callbacks, listed, left, matched, result, expired,
                 stable>>

Unregistered == callbacks = 0

\* CM_Unregister_Notification: no callback starts any more, and the running ones
\* end before it returns.
Unregister ==
  /\ \/ pc = "unregister" /\ registered' = FALSE /\ pc' = "drain"
     \/ pc = "drain" /\ Unregistered /\ pc' = "close" /\ UNCHANGED registered
  /\ UNCHANGED <<interface, event, callbacks, listed, left, matched, result, expired, stable>>

CloseEvent ==
  /\ pc = "close"
  /\ event' = "closed" /\ pc' = "end"
  /\ UNCHANGED <<interface, registered, callbacks, listed, left, matched, result, expired,
                 stable>>

-----------------------------------------------------------------------------
(***************************************************************************)
(* find_physical_disk: a snapshot of the present interfaces, visited one by *)
(* one; an interface that cannot be opened or asked is skipped.            *)
(***************************************************************************)
\* DIGCF_PRESENT
Snapshot == Present

List ==
  /\ pc = "list"
  /\ listed' = Present /\ left' = Snapshot /\ matched' = {} /\ stable' = Usable
  /\ pc' = "visit"
  /\ UNCHANGED <<interface, event, registered, callbacks, result, expired>>

\* The comparison with the number found before, and the error it leads to.
Ambiguous(n) == matched # {} /\ n \notin matched

\* disk_interface_path, open_device, scsi_location and storage_device_number.
Skip(i) ==
  /\ pc = "visit" /\ i \in left /\ (i \in Usable => i \notin AtLocation)
  /\ left' = left \ {i}
  /\ UNCHANGED <<interface, event, registered, callbacks, pc, listed, matched, result, expired,
                 stable>>

Match(i) ==
  /\ pc = "visit" /\ i \in left \cap AtLocation \cap Usable
  /\ left' = left \ {i}
  /\ IF Ambiguous(Number[i])
       THEN Leave("ambiguous") /\ UNCHANGED matched
       ELSE /\ matched' = matched \cup {Number[i]}
            /\ UNCHANGED <<pc, result>>
  /\ UNCHANGED <<interface, event, registered, callbacks, listed, expired, stable>>

EnumerationEnds ==
  /\ pc = "visit" /\ left = {}
  /\ IF matched # {} THEN Leave("found") ELSE pc' = "deadline" /\ UNCHANGED result
  /\ UNCHANGED <<interface, event, registered, callbacks, listed, left, matched, expired,
                 stable>>

Deadline == expired

CheckDeadline ==
  /\ pc = "deadline"
  /\ IF Deadline THEN Leave("timeout") ELSE pc' = "wait" /\ UNCHANGED result
  /\ UNCHANGED <<interface, event, registered, callbacks, listed, left, matched, expired,
                 stable>>

\* CreateEventW, CM_Register_Notification, WaitForSingleObject,
\* SetupDiGetClassDevsW or SetupDiEnumDeviceInterfaces fails.
CallFails ==
  /\ pc \in {"new", "register", "wait", "list", "visit"}
  /\ Leave("error")
  /\ UNCHANGED <<interface, event, registered, callbacks, listed, left, matched, expired,
                 stable>>

CallerStep ==
  \/ CreateEvent \/ Register \/ Wait \/ Unregister \/ CloseEvent
  \/ List \/ EnumerationEnds \/ CheckDeadline
  \/ \E i \in Interfaces : Skip(i) \/ Match(i)

-----------------------------------------------------------------------------
(***************************************************************************)
(* Windows.                                                                *)
(***************************************************************************)
\* An arrival while the subscription is in force starts a callback.
Arrive(i) ==
  /\ interface[i] = "absent" /\ callbacks < MaxCallbacks
  /\ \E state \in {"present", "usable"} : interface' = [interface EXCEPT ![i] = state]
  /\ callbacks' = IF registered THEN callbacks + 1 ELSE callbacks
  /\ UNCHANGED <<event, registered, callerVars, expired, stable>>

BecomeUsable(i) ==
  /\ interface[i] = "present"
  /\ interface' = [interface EXCEPT ![i] = "usable"]
  /\ UNCHANGED <<event, registered, callbacks, callerVars, expired, stable>>

Depart(i) ==
  /\ interface[i] # "absent"
  /\ interface' = [interface EXCEPT ![i] = "absent"]
  /\ stable' = stable \ {i}
  /\ UNCHANGED <<event, registered, callbacks, callerVars, expired>>

\* disk_interface_notification.
Callback ==
  /\ callbacks > 0
  /\ event' = IF event = "unset" THEN "set" ELSE event
  /\ callbacks' = callbacks - 1
  /\ UNCHANGED <<interface, registered, callerVars, expired, stable>>

DeadlinePasses ==
  /\ expired' = TRUE
  /\ UNCHANGED <<interface, event, registered, callbacks, callerVars, stable>>

Next ==
  \/ CallerStep \/ CallFails
  \/ \E i \in Interfaces : Arrive(i) \/ BecomeUsable(i) \/ Depart(i)
  \/ Callback \/ DeadlinePasses

Spec == Init /\ [][Next]_vars

\* The thread runs, each call in it returns (no call needs to fail for that), and
\* started callbacks finish.
FairSpec == Spec /\ WF_vars(CallerStep) /\ WF_vars(Callback)

-----------------------------------------------------------------------------
(***************************************************************************)
(* Properties.                                                             *)
(***************************************************************************)

\* No arrival is lost between the enumeration and the wait: when the thread waits
\* and an interface is there that the enumeration did not list, the event is set
\* or a callback is about to set it.
NoLostArrival ==
  pc \in {"deadline", "wait"} /\ ~(Present \subseteq listed) =>
    event = "set" \/ callbacks > 0

\* Drop order: no callback is running when its event handle has been closed.
NoCallbackOnClosedEvent == event = "closed" => callbacks = 0

\* Two disks that both report the location throughout an enumeration are never
\* silently reduced to one.
NeverGuesses ==
  result = "found" => \A i, j \in stable \cap AtLocation : Number[i] = Number[j]

\* A disk that is there and stays is found, or the search ends with an error,
\* also when its arrival was signalled before it could be opened.
FindsWhatStays == \A i \in AtLocation : <>[](interface[i] = "usable") => <>(pc = "end")

\* The search ends once its deadline has passed.
SearchEnds == <>expired => <>(pc = "end")

\* wait_for_physical_disk misses no arrival, uses no closed event and picks no disk by
\* chance, in every interleaving of its thread, the callbacks and Windows.
SearchIsSound == TypeOK /\ NoLostArrival /\ NoCallbackOnClosedEvent /\ NeverGuesses

=============================================================================
