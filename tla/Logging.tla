--------------------------------- MODULE Logging ---------------------------------
(***************************************************************************)
(* The life of --log (main.rs, logging.rs, logging/driver_events.rs,        *)
(* logging/subscriber.rs): the main thread starts a subscriber with a      *)
(* bounded line buffer and an ETW session with a consumer thread, runs the  *)
(* command, and takes both down again, while the driver emits events into   *)
(* the session, the consumer turns them into lines, and the writer thread   *)
(* puts lines on stdout.                                                   *)
(*                                                                         *)
(* ferrisetw and tracing_appender are modelled from how this code uses     *)
(* them.  A definition may follow a wrong form of itself, named for the    *)
(* mistake and used by no action.                                          *)
(***************************************************************************)
EXTENDS Naturals

CONSTANTS
  MaxEvents,       \* bound of the model: lines the command and the driver produce
  LineLimit        \* buffered_lines_limit (8192 in the code)

\* What the instances of this module assume.
LoggingAssumption == MaxEvents \in Nat /\ LineLimit \in Nat

VARIABLES
  pc,              \* the main thread
  session,         \* the ETW session: "none", "running" or "stopped"
  consumer,        \* the trace handle: "none", "open" or "closed"
  held,            \* the UserTrace, which owns the callback state, is alive
  worker,          \* the consumer thread: "none", "running", "exited"
  joinable,        \* the JoinHandle is still kept
  buffered,        \* events in the session's buffers
  lines,           \* lines in the writer's buffer
  events,          \* lines produced so far
  written, dropped,
  reported,        \* the number of dropped lines told on stderr
  warned,          \* an error or a cleanup warning went to stderr
  finished         \* what DriverEvents::finish has come to

vars == <<pc, session, consumer, held, worker, joinable, buffered, lines, events, written,
          dropped, reported, warned, finished>>

\* The state is well formed; the queue of the non-blocking writer never exceeds its limit.
TypeOK ==
  /\ pc \in {"subscribe", "session", "spawn", "command", "stop", "close", "join", "release",
             "report", "flush", "exit"}
  /\ session \in {"none", "running", "stopped"} /\ consumer \in {"none", "open", "closed"}
  /\ held \in BOOLEAN /\ worker \in {"none", "running", "exited"} /\ joinable \in BOOLEAN
  /\ buffered \in 0..MaxEvents /\ lines \in 0..LineLimit /\ events \in 0..MaxEvents
  /\ written \in 0..MaxEvents /\ dropped \in 0..MaxEvents /\ reported \in 0..MaxEvents
  /\ warned \in BOOLEAN /\ finished \in {"no", "ok", "failed"}

Init ==
  /\ pc = "subscribe" /\ session = "none" /\ consumer = "none" /\ held = FALSE
  /\ worker = "none" /\ joinable = FALSE
  /\ buffered = 0 /\ lines = 0 /\ events = 0 /\ written = 0 /\ dropped = 0
  /\ reported = 0 /\ warned = FALSE /\ finished = "no"

counts == <<buffered, lines, events, written, dropped>>

-----------------------------------------------------------------------------
(***************************************************************************)
(* Logging::start.  An error of it ends the process with code 1; what was  *)
(* started before is dropped.                                              *)
(***************************************************************************)
Install ==
  /\ pc = "subscribe"
  /\ \/ pc' = "session" /\ UNCHANGED warned
     \/ pc' = "exit" /\ warned' = TRUE
  /\ UNCHANGED <<session, consumer, held, worker, joinable, counts, reported, finished>>

StartSession ==
  /\ pc = "session"
  /\ \/ /\ session' = "running" /\ consumer' = "open" /\ held' = TRUE
        /\ pc' = "spawn" /\ UNCHANGED warned
     \/ pc' = "flush" /\ warned' = TRUE /\ UNCHANGED <<session, consumer, held>>
  /\ UNCHANGED <<worker, joinable, counts, reported, finished>>

SpawnConsumer ==
  /\ pc = "spawn"
  /\ \/ /\ worker' = "running" /\ joinable' = TRUE /\ pc' = "command"
        /\ UNCHANGED <<session, consumer, held, warned>>
     \/ /\ consumer' = "closed" /\ session' \in {"stopped", "running"} /\ held' = FALSE
        /\ pc' = "flush" /\ warned' = TRUE
        /\ UNCHANGED <<worker, joinable>>
  /\ UNCHANGED <<counts, reported, finished>>

\* driver::execute returns; then `logging` is dropped, whatever it returned.
CommandEnds ==
  /\ pc = "command"
  /\ pc' = "stop"
  /\ UNCHANGED <<session, consumer, held, worker, joinable, counts, reported, warned,
                 finished>>

-----------------------------------------------------------------------------
(***************************************************************************)
(* DriverEvents::finish.                                                   *)
(***************************************************************************)
StopBehindConsumer ==
  /\ pc = "stop"
  /\ session' = "stopped" /\ consumer' = "closed" /\ pc' = "join"
  /\ UNCHANGED <<held, worker, joinable, counts, reported, warned, finished>>
\* stop_trace_by_name: the session stops, and ProcessTrace drains its buffers.
StopSession ==
  /\ pc = "stop"
  /\ \/ session' = "stopped" /\ pc' = "join" /\ UNCHANGED finished
     \/ pc' = "close" /\ finished' = "failed" /\ UNCHANGED session
  /\ UNCHANGED <<consumer, held, worker, joinable, counts, reported, warned>>

\* The thread is detached: joining it could wait for ever.
AfterFailedClose == pc' = "report" /\ joinable' = FALSE

\* session.stop() closes the consumer and then stops the session.
CloseConsumer ==
  /\ pc = "close"
  /\ \/ /\ consumer' = "closed" /\ session' \in {"stopped", "running"}
        /\ pc' = "join" /\ UNCHANGED joinable
     \/ AfterFailedClose /\ UNCHANGED <<session, consumer>>
  /\ UNCHANGED <<held, worker, counts, reported, warned, finished>>

WorkerDone == worker = "exited"

\* In the fallback ferrisetw keeps the callback state, and finish returns.
Join ==
  /\ pc = "join" /\ joinable /\ WorkerDone
  /\ joinable' = FALSE
  /\ finished' \in (IF finished = "failed" THEN {"failed"} ELSE {"ok", "failed"})
  /\ pc' = IF finished = "failed" THEN "report" ELSE "release"
  /\ UNCHANGED <<session, consumer, held, worker, counts, reported, warned>>

\* drop(session): CloseTrace, and the callback state goes.
Release ==
  /\ pc = "release"
  /\ held' = FALSE /\ consumer' = "closed" /\ pc' = "report"
  /\ UNCHANGED <<session, worker, joinable, counts, reported, warned, finished>>

Warns == finished = "failed"

\* Logging::drop after finish: the warning, then report_dropped_lines.
ReportDroppedLines ==
  /\ pc = "report"
  /\ reported' = dropped
  /\ warned' = (warned \/ Warns)
  /\ pc' = "flush"
  /\ UNCHANGED <<session, consumer, held, worker, joinable, counts, finished>>

\* Dropping the WorkerGuard waits for the writer, which is taken to keep up.
Flush ==
  /\ pc = "flush" /\ lines = 0
  /\ pc' = "exit"
  /\ UNCHANGED <<session, consumer, held, worker, joinable, counts, reported, warned,
                 finished>>

MainStep ==
  \/ Install \/ StartSession \/ SpawnConsumer \/ CommandEnds \/ StopSession \/ CloseConsumer
  \/ Join \/ Release \/ ReportDroppedLines \/ Flush

-----------------------------------------------------------------------------
(***************************************************************************)
(* Lines, and the other threads.  A full buffer drops the line.            *)
(***************************************************************************)
Emit ==
  IF lines < LineLimit THEN lines' = lines + 1 /\ UNCHANGED dropped
                       ELSE dropped' = dropped + 1 /\ UNCHANGED lines

fixed == <<session, consumer, held, joinable, reported, warned, finished>>

CommandLogs ==
  /\ pc = "command" /\ events < MaxEvents
  /\ events' = events + 1 /\ Emit
  /\ UNCHANGED <<pc, fixed, worker, buffered, written>>

DriverEmits ==
  /\ session = "running" /\ pc # "exit" /\ events < MaxEvents
  /\ events' = events + 1 /\ buffered' = buffered + 1
  /\ UNCHANGED <<pc, fixed, worker, lines, written, dropped>>

\* on_event, called by ProcessTrace; an event that cannot be decoded makes a line too.
OnEvent ==
  /\ worker = "running" /\ consumer = "open" /\ buffered > 0 /\ pc # "exit"
  /\ buffered' = buffered - 1 /\ Emit
  /\ UNCHANGED <<pc, fixed, worker, events, written>>

\* ProcessTrace returns when the consumer is closed, or the session is stopped
\* and drained.
WorkerExits ==
  /\ worker = "running"
  /\ consumer = "closed" \/ (session = "stopped" /\ buffered = 0)
  /\ worker' = "exited"
  /\ UNCHANGED <<pc, fixed, counts>>

WriteLine ==
  /\ lines > 0
  /\ lines' = lines - 1 /\ written' = written + 1
  /\ UNCHANGED <<pc, fixed, worker, buffered, events, dropped>>

WorkerStep == OnEvent \/ WorkerExits

Next == MainStep \/ CommandLogs \/ DriverEmits \/ WorkerStep \/ WriteLine

Spec == Init /\ [][Next]_vars

\* Every thread runs.
FairSpec == Spec /\ WF_vars(MainStep) /\ WF_vars(WorkerStep) /\ WF_vars(WriteLine)

-----------------------------------------------------------------------------
(***************************************************************************)
(* Properties.                                                             *)
(***************************************************************************)

\* Every line that the command logged and every event that the driver emitted
\* into the session is on stdout, or counted in the report on stderr, when the
\* process ends without a warning.
NothingLostSilently ==
  pc = "exit" /\ ~warned => events = written + reported

\* The callback state is not released under a running consumer thread.
CallbackStateAlive == worker = "running" => held

\* The ETW session does not outlive the process, unless stderr said so.
NoSessionLeft == pc = "exit" /\ ~warned => session = "stopped"

\* Taking the logging down never hangs, whichever of stop and close fail.
LoggingEnds == <>(pc = "exit")

\* Whichever call of Logging and DriverEvents fails, nothing is lost, freed early or left
\* running without a word.
LogIsAccountable ==
  TypeOK /\ NothingLostSilently /\ CallbackStateAlive /\ NoSessionLeft

=============================================================================
