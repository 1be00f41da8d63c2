---------------------------- MODULE AdapterIdentity ----------------------------
(***************************************************************************)
(* The identity of an adapter, AdapterContext::Initialize                  *)
(* (adapter_context.cpp): the system time, made distinct from the last one *)
(* by a compare-exchange on a variable that lives as long as the driver is *)
(* loaded.  Adapters are initialized concurrently, are removed and         *)
(* initialized again; the clock moves as it likes; the driver is unloaded  *)
(* when no adapter is left, and its variable starts again from zero.        *)
(*                                                                         *)
(* A definition may follow a wrong form of itself, named for the mistake   *)
(* and used by no action.                                                  *)
(***************************************************************************)
EXTENDS Integers, FiniteSets

CONSTANTS
  Adapters,
  Times,           \* what the clock may show
  MaxIssued,       \* bound of the model: identities handed out
  ClockLaterAfterReload  \* a loaded driver sees times later than the identities of earlier loads

ASSUME IdentityAssumption ==
  /\ Times \subseteq Nat \ {0} /\ MaxIssued \in Nat
  /\ ClockLaterAfterReload \in BOOLEAN

VARIABLES
  clock,           \* KeQuerySystemTimePrecise
  lastInstance,    \* the static variable
  pc,              \* of each Initialize: "absent", "time", "read", "exchange", "done"
  time, previous,  \* its locals
  instance,        \* AdapterInstance of each adapter, 0 while it has none
  issued,          \* every identity handed out so far
  retired          \* those of them from before the driver was loaded again

vars == <<clock, lastInstance, pc, time, previous, instance, issued, retired>>

\* The state is well formed, and a removed adapter has no identity.
TypeOK ==
  /\ clock \in Times /\ lastInstance \in Nat
  /\ pc \in [Adapters -> {"absent", "time", "read", "exchange", "done"}]
  /\ time \in [Adapters -> Times \cup {0}] /\ previous \in [Adapters -> Nat]
  /\ instance \in [Adapters -> Nat] /\ issued \in SUBSET (Nat \ {0})
  /\ retired \subseteq issued
  /\ \A a \in Adapters : instance[a] # 0 <=> pc[a] = "done"

Init ==
  /\ clock \in Times /\ lastInstance = 0
  /\ pc = [a \in Adapters |-> "absent"]
  /\ time = [a \in Adapters |-> 0] /\ previous = [a \in Adapters |-> 0]
  /\ instance = [a \in Adapters |-> 0] /\ issued = {} /\ retired = {}

-----------------------------------------------------------------------------
\* PnP starts the adapter; the extension is zeroed.
Start(a) ==
  /\ pc[a] = "absent" /\ Cardinality(issued) < MaxIssued
  /\ pc' = [pc EXCEPT ![a] = "time"]
  /\ UNCHANGED <<clock, lastInstance, time, previous, instance, issued, retired>>

QueryTime(a) ==
  /\ pc[a] = "time"
  /\ time' = [time EXCEPT ![a] = clock] /\ pc' = [pc EXCEPT ![a] = "read"]
  /\ UNCHANGED <<clock, lastInstance, previous, instance, issued, retired>>

ReadLast(a) ==
  /\ pc[a] = "read"
  /\ previous' = [previous EXCEPT ![a] = lastInstance]
  /\ pc' = [pc EXCEPT ![a] = "exchange"]
  /\ UNCHANGED <<clock, lastInstance, time, instance, issued, retired>>

Candidate(a) == IF time[a] > previous[a] THEN time[a] ELSE previous[a] + 1

ExchangesBlindly(a) == TRUE
\* InterlockedCompareExchange64 stores only over the value that was read.
Exchanges(a) == lastInstance = previous[a]

Assigned(a) == [instance EXCEPT ![a] = Candidate(a)]

Exchange(a) ==
  /\ pc[a] = "exchange" /\ Exchanges(a)
  /\ lastInstance' = Candidate(a)
  /\ instance' = Assigned(a)
  /\ issued' = issued \cup {Candidate(a)}
  /\ pc' = [pc EXCEPT ![a] = "done"] /\ previous' = [previous EXCEPT ![a] = 0]
  /\ time' = [time EXCEPT ![a] = 0]
  /\ UNCHANGED <<clock, retired>>

RetryWithoutReading(a) == pc' = [pc EXCEPT ![a] = "exchange"]
\* The time is not read again, the last identity is.
Retry(a) == pc' = [pc EXCEPT ![a] = "read"]

ExchangeFails(a) ==
  /\ pc[a] = "exchange" /\ ~Exchanges(a) /\ Retry(a)
  /\ UNCHANGED <<clock, lastInstance, time, previous, instance, issued, retired>>

-----------------------------------------------------------------------------
(***************************************************************************)
(* The environment (external): PnP, the clock, the loader.                 *)
(***************************************************************************)
Remove(a) ==
  /\ pc[a] = "done"
  /\ pc' = [pc EXCEPT ![a] = "absent"] /\ instance' = [instance EXCEPT ![a] = 0]
  /\ UNCHANGED <<clock, lastInstance, time, previous, issued, retired>>

SetClock(t) ==
  /\ clock' = t /\ t # clock
  /\ ClockLaterAfterReload => \A i \in retired : t > i
  /\ UNCHANGED <<lastInstance, pc, time, previous, instance, issued, retired>>

\* The driver is unloaded with its last adapter, and loaded again when the clock shows t.
Reload(t) ==
  /\ \A a \in Adapters : pc[a] = "absent"
  /\ ClockLaterAfterReload => \A i \in issued : t > i
  /\ lastInstance' = 0 /\ clock' = t /\ retired' = issued
  /\ UNCHANGED <<pc, time, previous, instance, issued>>

Step(a) ==
  QueryTime(a) \/ ReadLast(a) \/ Exchange(a) \/ ExchangeFails(a)

Next ==
  \/ \E a \in Adapters :
       Start(a) \/ QueryTime(a) \/ ReadLast(a) \/ Exchange(a) \/ ExchangeFails(a) \/ Remove(a)
  \/ \E t \in Times : SetClock(t) \/ Reload(t)

Spec == Init /\ [][Next]_vars

\* A processor that runs Initialize goes on with it.
FairSpec == Spec /\ \A a \in Adapters : WF_vars(Step(a))

-----------------------------------------------------------------------------
(***************************************************************************)
(* Properties.                                                             *)
(***************************************************************************)
\* An identity is never handed out twice, so that an operation handle or a device named
\* with the identity of an adapter that is gone is refused by whichever adapter gets it:
\* two adapters that start together are told apart although the clock stands still, and so
\* are an adapter and its predecessor.
NeverReissued ==
  [][\A a \in Adapters :
       instance'[a] # instance[a] /\ instance'[a] # 0 => instance'[a] \notin issued]_vars

\* Initialize ends, although others start beside it: its compare-exchange fails only when
\* another one has succeeded, and each of those hands out one of the MaxIssued identities.
InitializeEnds == \A a \in Adapters : pc[a] = "time" ~> pc[a] = "done"
=============================================================================
