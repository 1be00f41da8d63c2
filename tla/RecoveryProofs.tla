----------------------------- MODULE RecoveryProofs -----------------------------
(***************************************************************************)
(* Proofs about Recovery, for every number of handles, retries and adapter *)
(* instances.                                                              *)
(***************************************************************************)
EXTENDS Recovery, TLAPS

-----------------------------------------------------------------------------
(***************************************************************************)
(* The inductive invariant.                                                *)
(***************************************************************************)
\* The adapter instance that issued this handle is still the one that answers.
Held == mine \in Handles /\ Mine(mine)

\* The mutation was not done and nobody is about to do it.
Untouched ==
  /\ happened = "none"
  /\ Held => handle[mine].state \in {"Reserved", "Failed", "Expired"}

\* A state that claims the mutation goes with one effect, one that denies it with none.
ContractInv ==
  \A h \in Handles :
    /\ handle[h].state \in {"Unissued", "Reserved", "Failed"} => effect[h] = 0
    /\ handle[h].state \in {"Succeeded", "Deleted"} => effect[h] = 1

\* What the driver holds under this handle is this call's mutation.
HandleInv ==
  /\ mineInstance <= instance
  /\ mine = NoHandle => happened = "none" /\ pc \in {"reserve", "end"} /\ outcome # "ok"
  /\ pc = "reserve" => mine = NoHandle
  /\ Held =>
       /\ handle[mine].state # "Unissued"
       /\ handle[mine].state # "Expired" => handle[mine].mutation = mutation
       /\ effect[mine] = 0 <=> happened = "none"
       /\ handle[mine].state = "Deleted" => happened = "undone"
       /\ happened = "undone" => handle[mine].state # "Pending"

\* What resolve_operation may conclude from where it is and from the reply on its way.
CallInv ==
  /\ pc = "end" <=> outcome # "running"
  /\ wire = "none" <=> pc # "reply"
  /\ wire = "awaiting" => Held /\ handle[mine].state = "Pending" /\ action = "Submit"
  /\ pc \in {"send", "wait"} /\ action = "Submit" => Untouched
  /\ wire \in {"Reserved", "Failed"} => Untouched
  /\ wire = "refused" /\ action = "Submit" => Untouched
  /\ wire = "Deleted" => happened = "undone"
  /\ wire = "Succeeded" \/ pc = "confirm" => happened # "none"
  /\ outcome = "rejected" => Untouched \/ happened = "undone"
  /\ outcome = "ok" => happened # "none"

\* A delete goes on only in the instance that its device ID was read from.
DeleteInv ==
  mutation = "Delete" =>
    /\ mine # NoHandle /\ outcome # "rejected" => mineInstance = target
    /\ happened # "none" => mineInstance = target /\ happened = "done"
    /\ outcome = "ok" => disk = "absent"

Inv == TypeOK /\ ContractInv /\ HandleInv /\ CallInv /\ DeleteInv

-----------------------------------------------------------------------------
(***************************************************************************)
(* The driver's side.                                                      *)
(***************************************************************************)
\* What a step of the contract does to a handle it is not about.
LEMMA ContractSteps ==
  ASSUME TypeOK, ContractInv, NEW h \in Handles,
         \/ \E m \in {"Create", "Delete"}, evicted \in Evictions : Reserve(h, m, evicted)
         \/ Accept(h) \/ Mutate(h) \/ Finish(h) \/ Remove(h)
  PROVE  /\ ContractTypeOK' /\ ContractInv' /\ instance' = instance
         /\ \A x \in Handles : x # h =>
              /\ effect'[x] = effect[x]
              /\ \/ handle'[x] = handle[x]
                 \/ handle'[x] = Expired /\ Expirable(x)
<1> USE DEF TypeOK, ContractTypeOK, ContractInv, HandleRecord, HandleState
<1>1. ASSUME NEW m \in {"Create", "Delete"}, NEW evicted \in Evictions, Reserve(h, m, evicted)
      PROVE  /\ ContractTypeOK' /\ ContractInv' /\ instance' = instance
             /\ \A x \in Handles : x # h =>
                  /\ effect'[x] = effect[x]
                  /\ \/ handle'[x] = handle[x]
                     \/ handle'[x] = Expired /\ Expirable(x)
  <2>1. ContractTypeOK' /\ instance' = instance /\ effect' = effect
    BY <1>1 DEF Reserve, Expired
  <2>2. ASSUME NEW x \in Handles
        PROVE  IF x = h THEN handle'[x].state = "Reserved" /\ handle[x].state = "Unissued"
               ELSE handle'[x] = handle[x] \/ (handle'[x] = Expired /\ Expirable(x))
    BY <1>1 DEF Reserve
  <2>3. ContractInv'
    <3>1. ASSUME NEW x \in Handles
          PROVE  /\ handle'[x].state \in {"Unissued", "Reserved", "Failed"} => effect'[x] = 0
                 /\ handle'[x].state \in {"Succeeded", "Deleted"} => effect'[x] = 1
      BY <2>1, <2>2 DEF Expired
    <3> QED  BY <3>1
  <2> QED  BY <2>1, <2>2, <2>3
<1>2. CASE Accept(h)
  BY <1>2 DEF Accept, Become
<1>3. CASE Mutate(h)
  BY <1>3 DEF Mutate
<1>4. CASE Finish(h)
  BY <1>4 DEF Finish, Become
<1>5. CASE Remove(h)
  BY <1>5 DEF Remove, Become
<1> QED
  BY <1>1, <1>2, <1>3, <1>4, <1>5

\* Steps of the driver that leave this handle alone, or evict it, leave the invariant.
LEMMA AsideStep ==
  ASSUME Inv, UNCHANGED <<cliVars, disk, happened>>,
         ContractTypeOK', ContractInv', instance' = instance,
         Held => /\ effect'[mine] = effect[mine]
                 /\ \/ handle'[mine] = handle[mine]
                    \/ handle'[mine] = Expired /\ Expirable(mine)
  PROVE  Inv'
<1> USE DEF cliVars
<1>1. TypeOK'
  BY DEF Inv, TypeOK
<1>2. Held' = Held
  BY DEF Held, Mine
<1>3. Untouched => Untouched'
  BY <1>2 DEF Untouched, Expired
<1>4. HandleInv'
  BY <1>2 DEF Inv, HandleInv, Expired
<1>5. CallInv'
  <2>1. wire = "awaiting" => handle'[mine].state = "Pending"
    BY DEF Inv, CallInv, Expirable
  <2> QED  BY <1>2, <1>3, <2>1 DEF Inv, CallInv
<1>6. DeleteInv'
  BY DEF Inv, DeleteInv
<1> QED
  BY <1>1, <1>4, <1>5, <1>6 DEF Inv

LEMMA OtherHandleStep ==
  ASSUME Inv, OtherHandle
  PROVE  Inv'
<1>1. PICK h \in Handles :
        /\ ~Mine(h)
        /\ \/ \E m \in {"Create", "Delete"}, evicted \in Evictions : Reserve(h, m, evicted)
           \/ Accept(h) \/ Mutate(h) \/ Finish(h) \/ Remove(h)
  BY DEF OtherHandle
<1>2. /\ ContractTypeOK' /\ ContractInv' /\ instance' = instance
      /\ \A x \in Handles : x # h =>
           /\ effect'[x] = effect[x]
           /\ \/ handle'[x] = handle[x]
              \/ handle'[x] = Expired /\ Expirable(x)
  BY <1>1, ContractSteps DEF Inv
<1>3. Held => mine \in Handles /\ mine # h
  BY <1>1 DEF Held, Mine
<1>4. UNCHANGED <<cliVars, disk, happened>>
  BY DEF OtherHandle
<1> QED
  BY <1>2, <1>3, <1>4, AsideStep

-----------------------------------------------------------------------------
(***************************************************************************)
(* The steps of the call.                                                  *)
(***************************************************************************)
LEMMA ReserveStep ==
  ASSUME Inv, (\E h \in Handles : ReserveOperation(h)) \/ ReserveFails
  PROVE  Inv'
<1>0. mine = NoHandle /\ NoHandle \notin Handles /\ happened = "none" /\ wire = "none"
      /\ outcome = "running"
  BY RecoveryAssumption DEF Inv, HandleInv, CallInv, ReserveOperation, ReserveFails
<1>1. ASSUME NEW h \in Handles, ReserveOperation(h)
      PROVE  Inv'
  <2>1. PICK evicted \in Evictions : Reserve(h, mutation, evicted)
    BY <1>1 DEF ReserveOperation
  <2>2. ContractTypeOK' /\ ContractInv' /\ instance' = instance
    BY <2>1, ContractSteps DEF Inv, TypeOK
  <2>3. /\ handle'[h].state = "Reserved" /\ handle'[h].mutation = mutation
        /\ effect'[h] = 0 /\ mine' = h /\ mineInstance' = instance
    BY <1>1, <2>1 DEF ReserveOperation, Reserve, Inv, ContractInv
  <2>4. TypeOK'
    BY <1>1, <2>2 DEF ReserveOperation, Return, Continue, Inv, TypeOK, ContractTypeOK
  <2>5. HandleInv'
    BY <1>0, <1>1, <2>2, <2>3
    DEF ReserveOperation, Return, Continue, HandleInv, Held, Mine, Inv, TypeOK,
        ContractTypeOK
  <2>6. CallInv'
    BY <1>0, <1>1, <2>3
    DEF ReserveOperation, Return, Continue, CallInv, Held, Mine, Untouched
  <2>7. DeleteInv'
    BY <1>0, <1>1, <2>3 DEF ReserveOperation, Return, Continue, DeleteInv, StaleTarget
  <2> QED  BY <2>2, <2>4, <2>5, <2>6, <2>7 DEF Inv
<1>2. CASE ReserveFails
  <2>1. ContractTypeOK' /\ ContractInv' /\ instance' = instance
    <3>1. CASE UNCHANGED contractVars
      BY <3>1 DEF contractVars, ContractTypeOK, ContractInv, Inv, TypeOK
    <3>2. CASE \E h \in Handles, evicted \in Evictions : Reserve(h, mutation, evicted)
      BY <3>2, ContractSteps DEF Inv, TypeOK
    <3> QED  BY <1>2, <3>1, <3>2 DEF ReserveFails
  <2>2. TypeOK'
    BY <1>2, <2>1 DEF ReserveFails, Return, Inv, TypeOK
  <2>3. mine' = NoHandle /\ ~Held'
    BY <1>0, <1>2 DEF ReserveFails, Held
  <2>4. HandleInv' /\ CallInv' /\ DeleteInv'
    BY <1>0, <1>2, <2>1, <2>3
    DEF ReserveFails, Return, Inv, HandleInv, CallInv, DeleteInv, Untouched
  <2> QED  BY <2>1, <2>2, <2>4 DEF Inv
<1> QED
  BY <1>1, <1>2

LEMMA ClientSteps ==
  ASSUME Inv, RecordSubmission \/ RecordQuery \/ Interpret \/ WaitForRetry \/ Confirm
  PROVE  Inv'
<1>1. /\ UNCHANGED <<contractVars, mutation, target, mine, mineInstance, disk, happened>>
      /\ pc \in {"reply", "wait", "confirm"}
  BY DEF RecordSubmission, RecordQuery, Interpret, WaitForRetry, Confirm
<1>2. Held' = Held /\ Untouched' = Untouched /\ ContractInv' = ContractInv
  BY <1>1 DEF Held, Mine, Untouched, ContractInv, contractVars
<1>3. TypeOK'
  BY <1>1
  DEF Inv, TypeOK, ContractTypeOK, contractVars, RecordSubmission, RecordQuery, Interpret,
      NextAction, WaitForRetry, Confirm, Return, Continue, Wire, Answers
<1>4. HandleInv'
  BY <1>1, <1>2
  DEF Inv, HandleInv, contractVars, RecordSubmission, RecordQuery, Interpret,
      WaitForRetry, Confirm, Return, Continue
<1>5. CallInv'
  <2>1. CASE RecordSubmission
    BY <1>1, <1>2, <2>1
    DEF Inv, CallInv, contractVars, RecordSubmission, Terminal, Return, Continue
  <2>2. CASE RecordQuery
    BY <1>1, <1>2, <2>2 DEF Inv, CallInv, contractVars, RecordQuery, Return, Continue
  <2>3. CASE Interpret
    BY <1>1, <1>2, <2>3
    DEF Inv, CallInv, contractVars, Interpret, NextAction, Return, Continue, Answers
  <2>4. CASE WaitForRetry
    BY <1>1, <1>2, <2>4 DEF Inv, CallInv, contractVars, WaitForRetry, Return, Continue
  <2>5. CASE Confirm
    BY <1>1, <1>2, <2>5 DEF Inv, CallInv, contractVars, Confirm, Return, Continue
  <2> QED  BY <2>1, <2>2, <2>3, <2>4, <2>5
<1>6. DeleteInv'
  BY <1>1
  DEF Inv, DeleteInv, HandleInv, CallInv, RecordSubmission, RecordQuery, Interpret,
      WaitForRetry, Confirm, Confirmed, Return, Continue
<1> QED
  BY <1>2, <1>3, <1>4, <1>5, <1>6 DEF Inv

-----------------------------------------------------------------------------
(***************************************************************************)
(* The transport.                                                          *)
(***************************************************************************)
\* A reply that changes nothing in the driver and that says what the invariant knows.
LEMMA ReplyStep ==
  ASSUME Inv, pc = "send", UNCHANGED contractVars,
         NEW reply \in Wire \ {"none", "awaiting"}, Receive(reply),
         reply \in {"Reserved", "Failed"} => Untouched,
         reply = "refused" /\ action = "Submit" => Untouched,
         reply = "Deleted" => happened = "undone",
         reply = "Succeeded" => happened # "none"
  PROVE  Inv'
<1>1. Held' = Held /\ Untouched' = Untouched /\ ContractInv' = ContractInv
  BY DEF Held, Mine, Untouched, ContractInv, contractVars, Receive
<1>2. TypeOK'
  BY DEF Inv, TypeOK, ContractTypeOK, contractVars, Receive
<1>3. HandleInv'
  BY <1>1 DEF Inv, HandleInv, contractVars, Receive
<1>4. CallInv'
  BY <1>1 DEF Inv, CallInv, contractVars, Receive
<1>5. DeleteInv'
  BY DEF Inv, DeleteInv, Receive
<1> QED
  BY <1>1, <1>2, <1>3, <1>4, <1>5 DEF Inv

LEMMA ExchangeStep ==
  ASSUME Inv, Exchange
  PROVE  Inv'
<1>0. pc = "send" /\ (action = "Submit" => Untouched)
  BY DEF Exchange, Unsent, SubmitToBusyAdapter, SubmitUnknown, SubmitAccepted, Answered,
         QueryUnknown, Inv, CallInv
<1>1. CASE Unsent \/ SubmitToBusyAdapter \/ SubmitUnknown \/ QueryUnknown
  <2>1. PICK reply \in {"lost", "refused", "busy"} : Receive(reply)
    BY <1>1 DEF Unsent, SubmitToBusyAdapter, SubmitUnknown, QueryUnknown
  <2>2. UNCHANGED contractVars
    BY <1>1 DEF Unsent, SubmitToBusyAdapter, SubmitUnknown, QueryUnknown
  <2>3. reply \in Wire \ {"none", "awaiting"}
    BY DEF Wire
  <2> QED  BY <1>0, <2>1, <2>2, <2>3, ReplyStep
<1>2. CASE Answered
  <2>1. PICK reply \in {handle[mine].state, "lost", "invalid"} : Receive(reply)
    BY <1>2 DEF Answered
  <2>2. mine \in Handles /\ Held /\ handle[mine].state \in Answers
    BY <1>2 DEF Answered, Known, Held, Inv, TypeOK, HandleInv
  <2>3. reply \in Wire \ {"none", "awaiting"} /\ UNCHANGED contractVars
    BY <1>2, <2>1, <2>2 DEF Answered, Wire, Answers
  <2>4. /\ reply \in {"Reserved", "Failed"} => Untouched
        /\ reply = "refused" /\ action = "Submit" => Untouched
        /\ reply = "Deleted" => happened = "undone"
        /\ reply = "Succeeded" => happened # "none"
    BY <2>1, <2>2 DEF Inv, ContractInv, HandleInv, Untouched, Answers
  <2> QED  BY <1>0, <2>1, <2>3, <2>4, ReplyStep
<1>3. CASE SubmitAccepted
  <2>1. /\ ContractTypeOK' /\ ContractInv' /\ instance' = instance
        /\ effect' = effect /\ handle'[mine].state = "Pending"
        /\ handle'[mine].mutation = handle[mine].mutation
        /\ handle[mine].state = "Reserved"
    BY <1>3, ContractSteps
    DEF SubmitAccepted, Accept, Become, Inv, TypeOK, ContractTypeOK, HandleRecord
  <2>2. Held /\ Held'
    BY <1>3, <2>1 DEF SubmitAccepted, Receive, Held, Mine
  <2>3. TypeOK'
    BY <1>3, <2>1 DEF SubmitAccepted, Receive, Inv, TypeOK, Wire
  <2>4. HandleInv'
    BY <1>0, <1>3, <2>1, <2>2
    DEF SubmitAccepted, Receive, Inv, HandleInv, Untouched, ContractInv
  <2>5. CallInv'
    BY <1>0, <1>3, <2>1, <2>2 DEF SubmitAccepted, Receive, Inv, CallInv
  <2>6. DeleteInv'
    BY <1>3 DEF SubmitAccepted, Receive, Inv, DeleteInv
  <2> QED  BY <2>1, <2>3, <2>4, <2>5, <2>6 DEF Inv
<1> QED
  BY <1>1, <1>2, <1>3 DEF Exchange

LEMMA LoseResponseStep ==
  ASSUME Inv, LoseResponse
  PROVE  Inv'
<1>1. Held' = Held /\ Untouched' = Untouched /\ ContractInv' = ContractInv
  BY DEF LoseResponse, Held, Mine, Untouched, ContractInv, contractVars
<1>2. TypeOK'
  BY DEF LoseResponse, Inv, TypeOK, ContractTypeOK, contractVars, Wire
<1>3. HandleInv' /\ DeleteInv'
  BY <1>1 DEF LoseResponse, Inv, HandleInv, DeleteInv, contractVars
<1>4. CallInv'
  BY <1>1 DEF LoseResponse, Inv, CallInv
<1> QED
  BY <1>1, <1>2, <1>3, <1>4 DEF Inv

-----------------------------------------------------------------------------
(***************************************************************************)
(* The driver at work, other clients, restarts.                            *)
(***************************************************************************)
\* A handle that is pending was neither rejected nor confirmed to the caller.
LEMMA PendingIsOpen ==
  ASSUME Inv, Held, handle[mine].state = "Pending"
  PROVE  ~Untouched /\ happened # "undone" /\ outcome # "rejected"
<1> QED
  BY DEF Inv, HandleInv, CallInv, Untouched

LEMMA MutateMineStep ==
  ASSUME Inv, MutateMine
  PROVE  Inv' /\ happened = "none" /\ happened' = "done"
         /\ outcome \in {"running", "unresolved"} /\ UNCHANGED outcome
<1>1. PICK h \in Handles : Mine(h) /\ Mutate(h)
  BY DEF MutateMine
<1>2. h = mine /\ Held /\ handle[mine].state = "Pending" /\ effect[mine] = 0
  BY <1>1 DEF Mine, Mutate, Held
<1>3. happened = "none" /\ outcome \in {"running", "unresolved"}
  BY <1>2, PendingIsOpen DEF Inv, HandleInv, CallInv, TypeOK
<1>4. /\ ContractTypeOK' /\ ContractInv' /\ instance' = instance
      /\ handle' = handle /\ effect'[mine] = 1
  BY <1>1, <1>2, ContractSteps DEF Mutate, Inv, TypeOK, ContractTypeOK
<1>5. Held' /\ happened' = "done" /\ UNCHANGED cliVars
  BY <1>2, <1>4 DEF MutateMine, Held, Mine, cliVars
<1>6. TypeOK'
  BY <1>4, <1>5 DEF MutateMine, Inv, TypeOK, cliVars
<1>7. HandleInv'
  BY <1>2, <1>3, <1>4, <1>5, RecoveryAssumption DEF Inv, HandleInv, cliVars, Held
<1>8. CallInv'
  BY <1>2, <1>3, <1>4, <1>5, PendingIsOpen DEF Inv, CallInv, cliVars
<1>9. DeleteInv'
  BY <1>2, <1>3, <1>5, RecoveryAssumption DEF Inv, DeleteInv, cliVars, Held
<1> QED
  BY <1>3, <1>4, <1>5, <1>6, <1>7, <1>8, <1>9 DEF Inv, cliVars

LEMMA FinishMineStep ==
  ASSUME Inv, FinishMine
  PROVE  Inv'
<1>1. PICK h \in Handles : Mine(h) /\ Finish(h)
  BY DEF FinishMine
<1>2. h = mine /\ Held /\ handle[mine].state = "Pending"
  BY <1>1 DEF Mine, Finish, Held
<1>3. /\ ContractTypeOK' /\ ContractInv' /\ instance' = instance /\ effect' = effect
      /\ handle'[mine].state = (IF effect[mine] = 1 THEN "Succeeded" ELSE "Failed")
      /\ handle'[mine].mutation = handle[mine].mutation
      /\ effect[mine] \in {0, 1}
  <2>1. ContractTypeOK' /\ ContractInv'
    BY <1>1, ContractSteps DEF Inv
  <2> QED
    BY <1>1, <1>2, <2>1 DEF Finish, Become, Inv, TypeOK, ContractTypeOK, HandleRecord
<1>4. Held'
  BY <1>2, <1>3 DEF FinishMine, Held, Mine
<1>5. wire # "awaiting" => wire' = wire
  BY DEF FinishMine
<1>6. wire = "awaiting" =>
        \/ wire' \in {"lost", "invalid"}
        \/ wire' = "Succeeded" /\ effect[mine] = 1
        \/ wire' \in {"Failed", "refused"} /\ effect[mine] = 0
  BY <1>3 DEF FinishMine
<1>7. TypeOK'
  BY <1>3, <1>5, <1>6 DEF FinishMine, Inv, TypeOK, Wire, Answers
<1>8. effect[mine] = 0 <=> happened = "none"
  BY <1>2 DEF Inv, HandleInv
<1>9. HandleInv'
  BY <1>2, <1>3, <1>4, <1>8 DEF FinishMine, Inv, HandleInv
<1>10. effect[mine] = 0 => Untouched'
  BY <1>3, <1>8 DEF FinishMine, Untouched
<1>11. CallInv'
  <2>1. ~Untouched /\ outcome # "rejected"
    BY <1>2, PendingIsOpen
  <2>2. CASE wire = "awaiting"
    BY <1>3, <1>4, <1>6, <1>8, <1>10, <2>1, <2>2 DEF FinishMine, Inv, CallInv
  <2>3. CASE wire # "awaiting"
    BY <1>4, <1>5, <2>1, <2>3 DEF FinishMine, Inv, CallInv
  <2> QED  BY <2>2, <2>3
<1>12. DeleteInv'
  BY DEF FinishMine, Inv, DeleteInv
<1> QED
  BY <1>3, <1>7, <1>9, <1>11, <1>12 DEF Inv

LEMMA OtherRemovesStep ==
  ASSUME Inv, OtherRemoves
  PROVE  Inv'
<1>1. CASE mutation = "Delete"
  <2>1. UNCHANGED <<cliVars, contractVars, happened>> /\ disk' = "absent"
    BY <1>1 DEF OtherRemoves, Undone
  <2>2. Held' = Held /\ Untouched' = Untouched /\ ContractInv' = ContractInv
    BY <2>1 DEF Held, Mine, Untouched, ContractInv, contractVars, cliVars
  <2>3. TypeOK' /\ HandleInv' /\ CallInv' /\ DeleteInv'
    BY <2>1, <2>2
    DEF Inv, TypeOK, ContractTypeOK, HandleInv, CallInv, DeleteInv, contractVars, cliVars
  <2> QED  BY <2>2, <2>3 DEF Inv
<1>2. CASE mutation = "Create"
  <2>1. PICK h \in Handles : Mine(h) /\ Remove(h)
    BY <1>2 DEF OtherRemoves
  <2>2. h = mine /\ Held /\ handle[mine].state = "Succeeded"
    BY <2>1 DEF Mine, Remove, Held
  <2>3. /\ ContractTypeOK' /\ ContractInv' /\ instance' = instance /\ effect' = effect
        /\ handle'[mine].state = "Deleted"
        /\ handle'[mine].mutation = handle[mine].mutation
    <3>1. ContractTypeOK' /\ ContractInv'
      BY <2>1, ContractSteps DEF Inv
    <3> QED
      BY <2>1, <2>2, <3>1 DEF Remove, Become, Inv, TypeOK, ContractTypeOK, HandleRecord
  <2>4. happened # "none" /\ happened' = "undone" /\ UNCHANGED cliVars /\ disk' = "absent"
    BY <1>2, <2>2 DEF OtherRemoves, Undone, Inv, ContractInv, HandleInv, TypeOK
  <2>5. Held'
    BY <2>2, <2>3, <2>4 DEF Held, Mine, cliVars
  <2>6. TypeOK'
    BY <2>3, <2>4 DEF Inv, TypeOK, cliVars
  <2>7. HandleInv'
    BY <2>2, <2>3, <2>4, <2>5, RecoveryAssumption DEF Inv, HandleInv, cliVars, Held
  <2>8. CallInv'
    BY <2>2, <2>4, <2>5 DEF Inv, CallInv, cliVars, Untouched
  <2>9. DeleteInv'
    BY <1>2, <2>4 DEF DeleteInv, cliVars
  <2> QED  BY <2>3, <2>6, <2>7, <2>8, <2>9 DEF Inv
<1> QED
  BY <1>1, <1>2 DEF Inv, TypeOK

LEMMA AdapterRestartsStep ==
  ASSUME Inv, AdapterRestarts
  PROVE  Inv'
<1>1. /\ instance' = instance + 1 /\ handle' = [h \in Handles |-> Unissued]
      /\ effect' = [h \in Handles |-> 0] /\ UNCHANGED cliVars /\ disk' = "absent"
      /\ happened' = Undone /\ PendingHandles = {}
  BY DEF AdapterRestarts, Restart
<1>2. instance \in Nat /\ mineInstance \in Nat /\ mineInstance <= instance
  BY DEF Inv, TypeOK, ContractTypeOK, HandleInv
<1>3. ~Held' /\ mineInstance' <= instance'
  BY <1>1, <1>2 DEF Held, Mine, cliVars
<1>4. ContractInv'
  BY <1>1 DEF ContractInv, Unissued
<1>5. TypeOK'
  BY <1>1, <1>2
  DEF Inv, TypeOK, ContractTypeOK, HandleRecord, HandleState, Unissued, cliVars, Undone
<1>6. HandleInv'
  BY <1>1, <1>3 DEF Inv, HandleInv, cliVars, Undone
<1>7. wire # "awaiting"
  BY <1>1 DEF Inv, CallInv, PendingHandles, Held
<1>8. Untouched => Untouched'
  BY <1>1, <1>3 DEF Untouched, Undone
<1>9. CallInv'
  BY <1>1, <1>7, <1>8 DEF Inv, CallInv, cliVars, Undone
<1>10. DeleteInv'
  BY <1>1 DEF Inv, DeleteInv, cliVars, Undone
<1> QED
  BY <1>4, <1>5, <1>6, <1>9, <1>10 DEF Inv

-----------------------------------------------------------------------------
(***************************************************************************)
(* The theorems.                                                           *)
(***************************************************************************)
LEMMA InvInit ==
  ASSUME Init
  PROVE  Inv
<1>1. TypeOK
  BY RecoveryAssumption
  DEF Init, ContractInit, TypeOK, ContractTypeOK, HandleRecord, HandleState, Unissued, Wire
<1>2. ContractInv
  BY DEF Init, ContractInit, ContractInv, Unissued
<1>3. HandleInv /\ CallInv /\ DeleteInv
  BY RecoveryAssumption
  DEF Init, ContractInit, HandleInv, CallInv, DeleteInv, Held
<1> QED
  BY <1>1, <1>2, <1>3 DEF Inv

LEMMA InvStep ==
  ASSUME Inv, [Next]_vars
  PROVE  Inv'
<1>1. CASE ClientStep
  BY <1>1, ReserveStep, ClientSteps DEF ClientStep
<1>2. CASE UNCHANGED vars
  <2>1. UNCHANGED <<cliVars, disk, happened, instance, handle, effect>>
    BY <1>2 DEF vars, contractVars
  <2>2. ContractTypeOK' /\ ContractInv'
    BY <2>1 DEF Inv, TypeOK, ContractTypeOK, ContractInv
  <2> QED  BY <2>1, <2>2, AsideStep
<1> QED
  BY <1>1, <1>2, ExchangeStep, LoseResponseStep, MutateMineStep, FinishMineStep,
     OtherHandleStep, OtherRemovesStep, AdapterRestartsStep DEF Next

\* Every step of resolve_operation and of its surroundings keeps the types; in particular
\* it never waits past its deadline.
THEOREM RecoveryTypeCorrect == Spec => []TypeOK
<1>1. Inv => TypeOK
  BY DEF Inv
<1> QED
  BY <1>1, InvInit, InvStep, PTL DEF Spec

\* delete_by_id reports success only for a disk that is gone, and a disk is deleted only in
\* the adapter instance that its device ID was read from, with any number of handles,
\* restarts, retries and other clients.
THEOREM DeletesAreSafe == Spec => []DeleteIsSafe
<1>1. Inv => DeleteIsSafe
  BY DEF Inv, DeleteInv, CallInv, DeleteIsSafe
<1> QED
  BY <1>1, InvInit, InvStep, PTL DEF Spec

\* A call that ended with a plain error leaves nothing in the driver's hands.
THEOREM NothingIsLeftBehind == Spec => []NothingLeftBehind
<1>1. Inv => NothingLeftBehind
  BY DEF Inv, HandleInv, CallInv, Untouched, Held, NothingLeftBehind
<1> QED
  BY <1>1, InvInit, InvStep, PTL DEF Spec

\* What a step does to the answer and to the mutation is a step of MutationCall.
LEMMA CallRefinement ==
  ASSUME Inv, [Next]_vars
  PROVE  [Call!CallNext]_<<outcome, happened>>
<1> USE DEF Call!CallNext, Call!Act, Call!Undo, Call!Ends
<1>0. Inv' /\ happened \in {"none", "done", "undone"}
  BY InvStep DEF Inv, TypeOK
<1>1. CASE ClientStep
  <2>1. happened' = happened
    BY <1>1
    DEF ClientStep, ReserveOperation, ReserveFails, RecordSubmission, RecordQuery, Interpret,
        WaitForRetry, Confirm
  <2>2. outcome' = outcome \/ outcome' \in {"ok", "rejected", "unresolved"}
    BY <1>1
    DEF ClientStep, ReserveOperation, ReserveFails, RecordSubmission, RecordQuery, Interpret,
        WaitForRetry, Confirm, Return, Continue
  <2>3. outcome = "running"
    BY <1>1
    DEF ClientStep, ReserveOperation, ReserveFails, RecordSubmission, RecordQuery, Interpret,
        WaitForRetry, Confirm, Inv, CallInv
  <2>4. /\ outcome' = "rejected" => happened' # "done"
        /\ outcome' = "ok" => happened' # "none"
    BY <1>0 DEF Inv, CallInv, Untouched
  <2> QED  BY <2>1, <2>2, <2>3, <2>4
<1>2. CASE Exchange \/ LoseResponse \/ FinishMine \/ OtherHandle \/ UNCHANGED vars
  <2>1. UNCHANGED <<outcome, happened>>
    BY <1>2
    DEF Exchange, Unsent, SubmitToBusyAdapter, SubmitUnknown, SubmitAccepted, Answered,
        QueryUnknown, Receive, LoseResponse, FinishMine, OtherHandle, vars, cliVars
  <2> QED  BY <2>1
<1>3. CASE MutateMine
  BY <1>3, MutateMineStep
<1>4. CASE OtherRemoves \/ AdapterRestarts
  <2>1. outcome' = outcome /\ happened' = Undone
    BY <1>4 DEF OtherRemoves, AdapterRestarts, cliVars
  <2> QED  BY <2>1 DEF Undone
<1> QED
  BY <1>1, <1>2, <1>3, <1>4 DEF Next

\* create_disk and delete_by_id implement MutationCall: whatever is lost, replayed, evicted
\* or restarted, what they tell their caller is true.
THEOREM CallsTellTheTruth == Spec => TellsTheTruth
<1>1. Init => Call!CallInit
  BY DEF Init, Call!CallInit
<1> QED
  BY <1>1, InvInit, InvStep, CallRefinement, PTL DEF Spec, TellsTheTruth, Call!CallSpec

=============================================================================
