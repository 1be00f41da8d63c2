--------------------------- MODULE OperationContract ---------------------------
(***************************************************************************)
(* What the driver promises about reserved operations, as seen by someone  *)
(* who can only send requests and query handles: the abstract side of      *)
(* driver/src/management.  A handle is bound once, mutates at most once,   *)
(* and keeps its outcome until it is given up.  ManagementController       *)
(* implements this specification; Recovery relies on it and on no more.    *)
(***************************************************************************)
EXTENDS Naturals

CONSTANT Handles   \* operation IDs that one adapter instance can issue

VARIABLES
  instance,        \* the adapter instance that answers
  handle,          \* what a query of each ID answers
  effect           \* mutations carried out for each ID

contractVars == <<instance, handle, effect>>

HandleState == {"Unissued", "Reserved", "Pending", "Succeeded", "Failed", "Deleted",
                "Expired"}
HandleRecord == [state : HandleState, mutation : {"None", "Create", "Delete"}]
Unissued == [state |-> "Unissued", mutation |-> "None"]
Expired == [state |-> "Expired", mutation |-> "None"]

ContractTypeOK ==
  /\ instance \in Nat
  /\ handle \in [Handles -> HandleRecord]
  /\ effect \in [Handles -> {0, 1}]

ContractInit ==
  /\ instance = 1
  /\ handle = [h \in Handles |-> Unissued]
  /\ effect = [h \in Handles |-> 0]

PendingHandles == {h \in Handles : handle[h].state = "Pending"}
Become(h, state) == handle' = [handle EXCEPT ![h].state = state]

\* A reservation may give up another record, but no pending one and none of a
\* create whose disk exists.
Expirable(h) ==
  \/ handle[h].state \in {"Reserved", "Failed", "Deleted"}
  \/ handle[h].state = "Succeeded" /\ handle[h].mutation = "Delete"

Reserve(h, mutation, evicted) ==
  /\ handle[h].state = "Unissued"
  /\ \A e \in evicted : Expirable(e)
  /\ handle' = [x \in Handles |->
                  IF x = h THEN [state |-> "Reserved", mutation |-> mutation]
                  ELSE IF x \in evicted THEN Expired ELSE handle[x]]
  /\ UNCHANGED <<instance, effect>>

\* One mutation at a time, and only from a handle that was never used.
Accept(h) ==
  /\ handle[h].state = "Reserved" /\ PendingHandles = {}
  /\ Become(h, "Pending")
  /\ UNCHANGED <<instance, effect>>

Mutate(h) ==
  /\ handle[h].state = "Pending" /\ effect[h] = 0
  /\ effect' = [effect EXCEPT ![h] = 1]
  /\ UNCHANGED <<instance, handle>>

Finish(h) ==
  /\ handle[h].state = "Pending"
  /\ Become(h, IF effect[h] = 1 THEN "Succeeded" ELSE "Failed")
  /\ UNCHANGED <<instance, effect>>

\* The disk of a create is removed by somebody's delete or by a drain.
Remove(h) ==
  /\ handle[h].state = "Succeeded" /\ handle[h].mutation = "Create"
  /\ Become(h, "Deleted")
  /\ UNCHANGED <<instance, effect>>

\* A new adapter instance, never while a mutation is in progress.
Restart ==
  /\ PendingHandles = {}
  /\ instance' = instance + 1
  /\ handle' = [h \in Handles |-> Unissued]
  /\ effect' = [h \in Handles |-> 0]

ContractNext ==
  \/ UNCHANGED contractVars      \* what the driver does beside its operations
  \/ \E h \in Handles :
       \/ \E mutation \in {"Create", "Delete"} :
            \E evicted \in {{}} \cup {{e} : e \in Handles} : Reserve(h, mutation, evicted)
       \/ Accept(h) \/ Mutate(h) \/ Finish(h) \/ Remove(h)
  \/ Restart

ContractSpec == ContractInit /\ [][ContractNext]_contractVars

=============================================================================
