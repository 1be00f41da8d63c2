-------------------------------- MODULE Recovery --------------------------------
(***************************************************************************)
(* One create or delete of the CLI: Adapter::create_disk and               *)
(* Adapter::delete_by_id with resolve_operation (recovery.rs, adapter/),    *)
(* over a transport that loses requests and responses, against the driver  *)
(* as OperationContract describes it and beside other clients of it.       *)
(*                                                                         *)
(* A definition may follow a wrong form of itself, named for the mistake   *)
(* and used by no action.                                                  *)
(***************************************************************************)
EXTENDS OperationContract

CONSTANTS
  NoHandle,        \* no reservation yet
  MaxInstance,     \* bound of the model: adapter instances
  MaxRetries       \* bound of the model: waits that fit before the deadline

ASSUME RecoveryAssumption ==
  /\ NoHandle \notin Handles
  /\ MaxInstance \in Nat \ {0} /\ MaxRetries \in Nat

VARIABLES
  mutation,        \* Operation::CreateDisk or DeleteDisk
  target,          \* delete_by_id's `instance`: where the device ID was read
  mine,            \* the OperationHandle: the ID, and
  mineInstance,    \* the instance that issued it
  pc,
  action,          \* RecoveryAction
  wire,            \* the reply on its way to the CLI
  retries,         \* waits left before the deadline
  outcome,         \* what the call returns
  disk,            \* the disk that is created or deleted
  happened         \* observer: what became of the mutation of this handle

cliVars == <<mutation, target, mine, mineInstance, pc, action, wire, retries, outcome>>
vars == <<contractVars, cliVars, disk, happened>>

\* A reply is an operation state, or one of the ways to get none: "busy" is the
\* DriverRejection STATUS_DEVICE_BUSY, "refused" any other, "lost" a transport
\* error, "invalid" an answer that interpret does not accept.
Answers == {"Reserved", "Pending", "Succeeded", "Failed", "Deleted"}
Wire == Answers \cup {"none", "awaiting", "lost", "invalid", "busy", "refused"}

\* The state is well formed; the waits that resolve_operation has left never go below zero,
\* so it never waits past its deadline.
TypeOK ==
  /\ ContractTypeOK
  /\ mutation \in {"Create", "Delete"} /\ target \in Nat
  /\ mine \in Handles \cup {NoHandle} /\ mineInstance \in Nat
  /\ pc \in {"reserve", "send", "reply", "wait", "confirm", "end"}
  /\ action \in {"Submit", "Query"}
  /\ wire \in Wire
  /\ retries \in Nat
  /\ outcome \in {"running", "ok", "rejected", "unresolved"}
  /\ disk \in {"absent", "online", "stopping"}
  /\ happened \in {"none", "done", "undone"}

Init ==
  /\ ContractInit
  /\ mutation \in {"Create", "Delete"}
  /\ target = 1 /\ mine = NoHandle /\ mineInstance = 0
  /\ pc = "reserve" /\ action = "Submit" /\ wire = "none" /\ retries = MaxRetries
  /\ outcome = "running"
  /\ disk = (IF mutation = "Create" THEN "absent" ELSE "online")
  /\ happened = "none"

Return(result) == pc' = "end" /\ outcome' = result
Continue(next) == pc' = next /\ UNCHANGED outcome

-----------------------------------------------------------------------------
(***************************************************************************)
(* reserve_operation, and the check of delete_by_id that the device ID is  *)
(* still one of this instance.                                             *)
(***************************************************************************)
Evictions == {{}} \cup {{e} : e \in Handles}

StaleTargetUnchecked == FALSE
StaleTarget == mutation = "Delete" /\ instance # target

ReserveOperation(h) ==
  /\ pc = "reserve"
  /\ \E evicted \in Evictions : Reserve(h, mutation, evicted)
  /\ mine' = h /\ mineInstance' = instance
  /\ IF StaleTarget THEN Return("rejected") ELSE Continue("send")
  /\ UNCHANGED <<mutation, target, action, wire, retries, disk, happened>>

\* require_recovery fails, the driver refuses, or the response is lost: then a
\* record may have been reserved that nobody will use.
ReserveFails ==
  /\ pc = "reserve"
  /\ \/ UNCHANGED contractVars
     \/ \E h \in Handles, evicted \in Evictions : Reserve(h, mutation, evicted)
  /\ Return("rejected")
  /\ UNCHANGED <<mutation, target, mine, mineInstance, action, wire, retries, disk,
                 happened>>

-----------------------------------------------------------------------------
(***************************************************************************)
(* The transport and the driver's answers to submit and query.             *)
(***************************************************************************)
Mine(h) == h = mine /\ instance = mineInstance
Known(h) == Mine(h) /\ handle[h].state \in Answers

Receive(reply) ==
  /\ pc' = "reply" /\ wire' = reply
  /\ UNCHANGED <<mutation, target, mine, mineInstance, action, retries, outcome, disk,
                 happened>>

\* The request does not reach the driver, or the driver is stopping.
Unsent ==
  /\ pc = "send"
  /\ \E reply \in {"lost", "refused"} : Receive(reply)
  /\ UNCHANGED contractVars

SubmitToBusyAdapter ==
  /\ pc = "send" /\ action = "Submit" /\ PendingHandles # {}
  /\ \E reply \in {"busy", "lost"} : Receive(reply)
  /\ UNCHANGED contractVars

SubmitUnknown ==
  /\ pc = "send" /\ action = "Submit" /\ PendingHandles = {} /\ ~Known(mine)
  /\ \E reply \in {"refused", "lost"} : Receive(reply)
  /\ UNCHANGED contractVars

\* DeviceIoControl returns when the worker has finished.
SubmitAccepted ==
  /\ pc = "send" /\ action = "Submit" /\ mine \in Handles /\ Mine(mine)
  /\ Accept(mine)
  /\ Receive("awaiting")

Answered ==
  /\ pc = "send" /\ Known(mine)
  /\ action = "Submit" => PendingHandles = {} /\ handle[mine].state # "Reserved"
  /\ \E reply \in {handle[mine].state, "lost", "invalid"} : Receive(reply)
  /\ UNCHANGED contractVars

QueryUnknown ==
  /\ pc = "send" /\ action = "Query" /\ ~Known(mine)
  /\ \E reply \in {"refused", "lost"} : Receive(reply)
  /\ UNCHANGED contractVars

\* A response that never comes: the SRB fails while the worker is at it.
LoseResponse ==
  /\ wire = "awaiting"
  /\ wire' = "lost"
  /\ UNCHANGED <<contractVars, mutation, target, mine, mineInstance, pc, action, retries,
                 outcome, disk, happened>>

Exchange ==
  \/ Unsent \/ SubmitToBusyAdapter \/ SubmitUnknown \/ SubmitAccepted \/ Answered
  \/ QueryUnknown

-----------------------------------------------------------------------------
(***************************************************************************)
(* resolve_operation.                                                      *)
(***************************************************************************)
TerminalIfAnyError(reply) == reply \in {"refused", "busy", "lost"}
\* DriverRejection::is_terminal, asked by record_submission.
Terminal(reply) == reply = "refused"

\* The error of a submission is recorded; an ambiguous one is queried at once.
RecordSubmission ==
  /\ pc = "reply" /\ action = "Submit" /\ wire \in {"lost", "busy", "refused"}
  /\ wire' = "none" /\ action' = "Query"
  /\ IF Terminal(wire) THEN Return("rejected") ELSE Continue("send")
  /\ UNCHANGED <<contractVars, mutation, target, mine, mineInstance, retries, disk,
                 happened>>

\* The error of a query is recorded and proves nothing.
RecordQuery ==
  /\ pc = "reply" /\ action = "Query" /\ wire \in {"lost", "refused"}
  /\ wire' = "none"
  /\ Continue("wait")
  /\ UNCHANGED <<contractVars, mutation, target, mine, mineInstance, action, retries, disk,
                 happened>>

NextActionResubmits(reply) == "Submit"
\* Only a matching Reserved response permits resubmission.
NextAction(reply) == IF reply = "Reserved" THEN "Submit" ELSE "Query"

Interpret ==
  /\ pc = "reply" /\ wire \in Answers \cup {"invalid"}
  /\ wire' = "none" /\ action' = NextAction(wire)
  /\ IF wire = "Succeeded" THEN Continue("confirm")
     ELSE IF wire \in {"Failed", "Deleted"} THEN Return("rejected")
     ELSE Continue("wait")
  /\ UNCHANGED <<contractVars, mutation, target, mine, mineInstance, retries, disk,
                 happened>>

WaitForRetryForEver ==
  /\ pc = "wait"
  /\ Continue("send")
  /\ UNCHANGED <<contractVars, mutation, target, mine, mineInstance, action, wire, retries,
                 disk, happened>>
\* The deadline may pass during any wait.
WaitForRetry ==
  /\ pc = "wait"
  /\ \/ retries > 0 /\ retries' = retries - 1 /\ Continue("send")
     \/ UNCHANGED retries /\ Return("unresolved")
  /\ UNCHANGED <<contractVars, mutation, target, mine, mineInstance, action, wire, disk,
                 happened>>

\* create_disk refuses a malformed identity, delete_by_id wants the device gone
\* from the inventory of the same instance.
Confirmed ==
  mutation = "Delete" => instance = mineInstance /\ disk = "absent"

Confirm ==
  /\ pc = "confirm"
  /\ \/ Confirmed /\ Return("ok")
     \/ Return("unresolved")
  /\ UNCHANGED <<contractVars, mutation, target, mine, mineInstance, action, wire, retries,
                 disk, happened>>

ClientStep ==
  \/ \E h \in Handles : ReserveOperation(h)
  \/ ReserveFails \/ RecordSubmission \/ RecordQuery \/ Interpret \/ WaitForRetry
  \/ Confirm

-----------------------------------------------------------------------------
(***************************************************************************)
(* The driver at work on this handle, and everything else that happens.    *)
(***************************************************************************)
\* In another instance the same device ID may name another disk.
MutateMine ==
  /\ \E h \in Handles : Mine(h) /\ Mutate(h)
  /\ mutation = "Delete" /\ instance = target => disk = "online"
  /\ disk' = IF mutation = "Create" THEN "online"
             ELSE IF instance = target THEN "stopping" ELSE disk
  /\ happened' = "done"
  /\ UNCHANGED cliVars

\* The answer that a waiting submission gets is the record at publication;
\* queueing may also have failed, which is answered as a rejection.
FinishMine ==
  /\ \E h \in Handles : Mine(h) /\ Finish(h)
  /\ disk' = IF disk = "stopping" THEN "absent" ELSE disk
  /\ wire' \in IF wire # "awaiting" THEN {wire}
               ELSE {handle'[mine].state, "lost", "invalid"} \cup
                    (IF handle'[mine].state = "Failed" THEN {"refused"} ELSE {})
  /\ UNCHANGED <<mutation, target, mine, mineInstance, pc, action, retries, outcome,
                 happened>>

OtherHandle ==
  /\ \E h \in Handles :
       /\ ~Mine(h)
       /\ \/ \E m \in {"Create", "Delete"}, evicted \in Evictions : Reserve(h, m, evicted)
          \/ Accept(h) \/ Mutate(h) \/ Finish(h) \/ Remove(h)
  /\ UNCHANGED <<cliVars, disk, happened>>

Undone == IF happened = "done" /\ mutation = "Create" THEN "undone" ELSE happened

\* Somebody else's delete takes the disk away.
OtherRemoves ==
  /\ disk = "online" /\ instance = mineInstance
  /\ \E h \in PendingHandles :
       h # mine /\ handle[h].mutation = "Delete" /\ effect[h] = 1
  /\ disk' = "absent" /\ happened' = Undone
  /\ IF mutation = "Create" THEN \E h \in Handles : Mine(h) /\ Remove(h)
     ELSE UNCHANGED contractVars
  /\ UNCHANGED cliVars

\* The disks of an adapter do not outlive it.
AdapterRestarts ==
  /\ instance < MaxInstance
  /\ Restart
  /\ disk' = "absent" /\ happened' = Undone
  /\ UNCHANGED cliVars

Next ==
  \/ ClientStep \/ Exchange \/ LoseResponse \/ MutateMine \/ FinishMine
  \/ OtherHandle \/ OtherRemoves \/ AdapterRestarts

Spec == Init /\ [][Next]_vars

\* The CLI runs on, its calls return, and the driver finishes what it accepted.
FairSpec ==
  /\ Spec
  /\ WF_vars(ClientStep) /\ WF_vars(Exchange) /\ WF_vars(FinishMine)

-----------------------------------------------------------------------------
(***************************************************************************)
(* Properties.                                                             *)
(***************************************************************************)

\* create_disk and delete_by_id tell the truth through lost requests, lost
\* responses, replays, evicted records, other clients and restarts: Ok means the
\* mutation was done, a plain error means it does not stand and will not happen
\* later, and only an unresolved error leaves it open.
Call == INSTANCE MutationCall
TellsTheTruth == Call!CallSpec

\* A delete confirmed to the user leaves no disk, and a disk is deleted only in
\* the adapter instance its device ID was read from.
DeleteIsSafe ==
  mutation = "Delete" =>
    /\ outcome = "ok" => disk = "absent" /\ happened = "done"
    /\ happened = "done" => mineInstance = target

\* A handle that this CLI has given up on with a plain error is not in the
\* driver's hands any more.
NothingLeftBehind ==
  outcome = "rejected" /\ mine \in Handles /\ Mine(mine) => handle[mine].state # "Pending"

\* resolve_operation ends, whatever is lost.
Resolves == <>(outcome # "running")

=============================================================================
