------------------------------ MODULE MutationCall ------------------------------
(***************************************************************************)
(* What Adapter::create_disk and Adapter::delete_by_id promise to the CLI   *)
(* flows that call them: the error they return says truthfully whether the  *)
(* mutation stands, or says that this is unknown.                          *)
(***************************************************************************)
VARIABLES
  outcome,   \* "running", then "ok", "rejected" or "unresolved"
  happened   \* the mutation: "none" yet, "done", or "undone" by somebody else

CallInit == outcome = "running" /\ happened = "none"

\* The driver may also act after the caller has given up waiting.
Act == /\ outcome \in {"running", "unresolved"} /\ happened = "none"
       /\ happened' = "done"
       /\ UNCHANGED outcome

Undo == /\ happened = "done" /\ happened' = "undone"
        /\ UNCHANGED outcome

Ends(result) ==
  /\ outcome = "running"
  /\ outcome' = result
  /\ UNCHANGED happened

CallNext ==
  \/ Act \/ Undo
  \/ Ends("ok") /\ happened # "none"
  \/ Ends("rejected") /\ happened # "done"
  \/ Ends("unresolved")

CallSpec == CallInit /\ [][CallNext]_<<outcome, happened>>

=============================================================================
