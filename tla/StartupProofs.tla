----------------------------- MODULE StartupProofs -----------------------------
(***************************************************************************)
(* Proofs about Startup for any set of error codes and any bound of the    *)
(* attempt counter.  Three tasks read two shared cells and act on what     *)
(* they read later; the proofs say what such a reading is still worth:     *)
(* HandOver of a phase the heartbeat task holds, and Granted of a handler  *)
(* the command worker has looked up.                                       *)
(***************************************************************************)
EXTENDS Startup, TLAPS

(* The phase is over exactly from EndPhase on; only a task that returned   *)
(* may have left it either way.  The counter it shows is the task's own.   *)
PhaseInv ==
  /\ discovery \in {"discover", "sleep", "discovered"} => phase # Done
  /\ discovery \in {"install", "authenticate", "polling"} => phase = Done
  /\ phase # Done => phase.failures = attempt

(* A heartbeat in the making holds a phase that was not over when it was   *)
(* read; once a late one was sent no other is in the making.               *)
HandOver ==
  /\ late <= 1
  /\ late = 1 => phase = Done /\ heartbeat # "emit"
  /\ heartbeat = "emit" => held # Done

(* The manager's failure count is behind the one in the making, and that   *)
(* is behind the task's.                                                   *)
Told == health.from = "discovery"

CountsInOrder ==
  /\ Told => health.failures <= attempt
  /\ heartbeat = "emit" => held.failures <= attempt
  /\ Told /\ heartbeat = "emit" => health.failures <= held.failures

(* A handler, once seen by a command, stays; and a command that found none *)
(* looked before any other had found one.                                  *)
Granted ==
  /\ command = "forwarded" \/ answer = "handler" => installed
  /\ command = "refused" => answer # "handler"

Inv == TypeOK /\ PhaseInv /\ HandOver /\ CountsInOrder /\ Granted

-----------------------------------------------------------------------------
(* A phase with a counter and a code is not the end of discovery.          *)
LEMMA DiscoveringIsPhase ==
  ASSUME NEW n \in 0..MaxAttempt, NEW code \in ErrorCodes
  PROVE  /\ Discovering(n, code) \in Phases /\ Discovering(n, code) # Done
         /\ Discovering(n, code).failures = n
  BY StartupAssumption DEF Discovering, Phases, Done

LEMMA PhaseTyped ==
  ASSUME NEW p \in Phases
  PROVE  p.failures \in 0..MaxAttempt /\ p.failures \in Nat
  BY StartupAssumption DEF Phases, Done

LEMMA InitInv == Init => Inv
  <1> SUFFICES ASSUME Init PROVE Inv
    OBVIOUS
  <1> USE StartupAssumption
  <1>1. phase \in Phases /\ phase # Done /\ phase.failures = 0 /\ held \in Phases
    BY DiscoveringIsPhase DEF Init, Phases
  <1>2. TypeOK
    <2>1. chassisUp \in BOOLEAN
      BY Zenon DEF Init
    <2>2. health \in [from : {"nobody", "discovery", "polling"}, reachable : BOOLEAN,
                     failures : 0..MaxAttempt]
      BY DEF Init, NoHealth
    <2>3. attempt \in 0..MaxAttempt /\ late \in 0..2
      BY DEF Init
    <2> QED
      BY <1>1, <2>1, <2>2, <2>3 DEF Init, TypeOK
  <1> QED
    BY <1>1, <1>2 DEF Init, Inv, PhaseInv, HandOver, CountsInOrder, Granted, Told, NoHealth

-----------------------------------------------------------------------------
(* The discovery task; the cells of the others do not change.              *)
LEMMA DiscoverFailsInv == ASSUME Inv, NEW code \in ErrorCodes, DiscoverFails(code) PROVE Inv'
  <1> USE StartupAssumption
  <1>1. /\ discovery = "discover" /\ discovery' = "sleep"
        /\ attempt' = NextAttempt /\ phase' = Discovering(attempt', code)
        /\ UNCHANGED <<installed, heartbeatVars, commandVars, environment>>
    BY DEF DiscoverFails
  <1>2. attempt' \in 0..MaxAttempt /\ attempt' >= attempt /\ attempt \in Nat
    BY <1>1 DEF NextAttempt, Inv, TypeOK
  <1>3. phase' \in Phases /\ phase' # Done /\ phase'.failures = attempt'
    BY <1>1, <1>2, DiscoveringIsPhase
  <1>4. phase # Done
    BY <1>1 DEF Inv, PhaseInv
  <1>5. TypeOK'
    BY <1>1, <1>2, <1>3 DEF heartbeatVars, commandVars, environment, Inv, TypeOK
  <1>6. PhaseInv'
    BY <1>1, <1>3 DEF PhaseInv
  <1>7. HandOver'
    BY <1>1, <1>4 DEF heartbeatVars, Inv, TypeOK, HandOver
  <1>8. CountsInOrder'
    <2>1. health.failures \in Nat /\ held.failures \in Nat
      BY PhaseTyped DEF Inv, TypeOK
    <2> QED
      BY <1>1, <1>2, <2>1 DEF heartbeatVars, Inv, CountsInOrder, Told
  <1>9. Granted'
    BY <1>1 DEF commandVars, Inv, Granted
  <1> QED
    BY <1>5, <1>6, <1>7, <1>8, <1>9 DEF Inv

(* Steps between attempts, and the end of the task: only the counter of    *)
(* the program moves.                                                      *)
LEMMA DiscoveryMovesOn ==
  ASSUME Inv,
         UNCHANGED <<attempt, phase, installed, heartbeatVars, commandVars, environment>>,
         \/ discovery = "sleep" /\ discovery' \in {"discover", "returned"}
         \/ discovery = "discover" /\ discovery' = "discovered"
         \/ discovery = "authenticate" /\ discovery' \in {"polling", "returned"}
         \/ discovery = "polling" /\ discovery' = "returned"
  PROVE  Inv'
  <1>1. TypeOK'
    BY DEF heartbeatVars, commandVars, environment, Inv, TypeOK
  <1> QED
    BY <1>1 DEF heartbeatVars, commandVars, Inv, PhaseInv, HandOver, CountsInOrder, Granted, Told

LEMMA EndPhaseInv == ASSUME Inv, EndPhase PROVE Inv'
  <1>1. /\ discovery' = "install" /\ phase' = Done
        /\ UNCHANGED <<attempt, installed, heartbeatVars, commandVars, environment>>
    BY DEF EndPhase
  <1>2. TypeOK'
    BY <1>1 DEF heartbeatVars, commandVars, environment, Inv, TypeOK, Phases
  <1> QED
    BY <1>1, <1>2 DEF heartbeatVars, commandVars, Inv, PhaseInv, HandOver, CountsInOrder, Granted, Told

LEMMA InstallHandlerInv == ASSUME Inv, InstallHandler PROVE Inv'
  <1>1. /\ discovery = "install" /\ discovery' = "authenticate" /\ installed' = TRUE
        /\ UNCHANGED <<attempt, phase, heartbeatVars, commandVars, environment>>
    BY DEF InstallHandler
  <1>2. TypeOK'
    BY <1>1 DEF heartbeatVars, commandVars, environment, Inv, TypeOK
  <1> QED
    BY <1>1, <1>2 DEF heartbeatVars, commandVars, Inv, PhaseInv, HandOver, CountsInOrder, Granted, Told

LEMMA PollAlarmsInv == ASSUME Inv, PollAlarms PROVE Inv'
  <1>1. PICK up \in BOOLEAN : health' = PollHealth(up)
    BY DEF PollAlarms
  <1>2. UNCHANGED <<discoveryVars, heartbeat, held, late, commandVars, environment>>
    BY DEF PollAlarms
  <1>3. /\ health' \in [from : {"nobody", "discovery", "polling"}, reachable : BOOLEAN,
                        failures : 0..MaxAttempt]
        /\ health'.from = "polling"
    BY <1>1, StartupAssumption DEF PollHealth
  <1>4. TypeOK'
    BY <1>2, <1>3 DEF discoveryVars, commandVars, environment, Inv, TypeOK
  <1> QED
    BY <1>2, <1>3, <1>4
       DEF discoveryVars, commandVars, Inv, PhaseInv, HandOver, CountsInOrder, Granted, Told

-----------------------------------------------------------------------------
(* The heartbeat task.                                                     *)
LEMMA HeartbeatReadInv == ASSUME Inv, HeartbeatRead PROVE Inv'
  <1>1. UNCHANGED <<discoveryVars, health, late, commandVars, environment>>
    BY DEF HeartbeatRead
  <1>2. \/ phase # Done /\ held' = phase /\ heartbeat' = "emit"
        \/ phase = Done /\ held' = Done /\ heartbeat' = "returned"
    BY DEF HeartbeatRead
  <1>3. held' \in Phases /\ heartbeat' \in {"waiting", "emit", "returned"}
    BY <1>2 DEF Inv, TypeOK, Phases
  <1>4. TypeOK'
    BY <1>1, <1>3 DEF discoveryVars, commandVars, environment, Inv, TypeOK
  <1>5. HandOver'
    BY <1>1, <1>2 DEF discoveryVars, Inv, HandOver
  <1>6. CountsInOrder'
    BY <1>1, <1>2 DEF discoveryVars, Inv, TypeOK, PhaseInv, CountsInOrder, Told
  <1> QED
    BY <1>1, <1>4, <1>5, <1>6 DEF discoveryVars, commandVars, Inv, PhaseInv, Granted

LEMMA HeartbeatEmitInv == ASSUME Inv, HeartbeatEmit PROVE Inv'
  <1>1. /\ heartbeat = "emit" /\ heartbeat' = "waiting" /\ held' = Done
        /\ health' = DiscoveryHealth(held)
        /\ late' = IF phase = Done /\ late < 2 THEN late + 1 ELSE late
        /\ UNCHANGED <<discoveryVars, commandVars, environment>>
    BY DEF HeartbeatEmit, NextBeat
  <1>2. late = 0
    BY <1>1 DEF Inv, TypeOK, HandOver
  <1>3. late' \in 0..1 /\ (late' = 1 => phase = Done)
    BY <1>1, <1>2
  <1>4. held.failures \in 0..MaxAttempt
    BY PhaseTyped DEF Inv, TypeOK
  <1>5. /\ health' \in [from : {"nobody", "discovery", "polling"}, reachable : BOOLEAN,
                        failures : 0..MaxAttempt]
        /\ health'.failures = held.failures
    BY <1>1, <1>4 DEF DiscoveryHealth
  <1>6. TypeOK'
    BY <1>1, <1>3, <1>5 DEF discoveryVars, commandVars, environment, Inv, TypeOK, Phases
  <1>7. HandOver'
    BY <1>1, <1>3 DEF discoveryVars, HandOver
  <1>8. CountsInOrder'
    BY <1>1, <1>5 DEF discoveryVars, Inv, CountsInOrder
  <1> QED
    BY <1>1, <1>6, <1>7, <1>8 DEF discoveryVars, commandVars, Inv, PhaseInv, Granted

LEMMA HeartbeatStopInv == ASSUME Inv, HeartbeatStop PROVE Inv'
  <1>1. heartbeat' = "returned" /\ UNCHANGED <<discoveryVars, held, health, late, commandVars, environment>>
    BY DEF HeartbeatStop
  <1>2. TypeOK'
    BY <1>1 DEF discoveryVars, commandVars, environment, Inv, TypeOK
  <1> QED
    BY <1>1, <1>2
       DEF discoveryVars, commandVars, Inv, PhaseInv, HandOver, CountsInOrder, Granted, Told

-----------------------------------------------------------------------------
(* The command worker: what it has seen of the slot stays true.            *)
LEMMA CommandInv ==
  ASSUME Inv, ReceiveCommand \/ LookUpHandler \/ AnswerCommand
  PROVE  Inv'
  <1>1. UNCHANGED <<discoveryVars, heartbeatVars, environment>>
    BY DEF ReceiveCommand, LookUpHandler, AnswerCommand, CloneHandler, discoveryVars
  <1>2. /\ command' \in {"none", "vendor", "forwarded", "refused", "upgrade_binary"}
        /\ answer' \in {"none", "handler", "discovery_in_progress"}
    BY DEF ReceiveCommand, LookUpHandler, AnswerCommand, Inv, TypeOK
  <1>3. TypeOK'
    BY <1>1, <1>2 DEF discoveryVars, heartbeatVars, environment, Inv, TypeOK
  <1>4. Granted'
    <2>1. CASE ReceiveCommand
      BY <1>1, <2>1 DEF ReceiveCommand, discoveryVars, Inv, Granted
    <2>2. CASE LookUpHandler
      BY <1>1, <2>2 DEF LookUpHandler, discoveryVars, Inv, Granted
    <2>3. CASE AnswerCommand
      BY <1>1, <2>3 DEF AnswerCommand, discoveryVars, Inv, Granted
    <2> QED
      BY <2>1, <2>2, <2>3
  <1> QED
    BY <1>1, <1>3, <1>4
       DEF discoveryVars, heartbeatVars, Inv, PhaseInv, HandOver, CountsInOrder, Told

(* Steps that touch no task, and stuttering.                               *)
LEMMA OutsideInv ==
  ASSUME Inv, chassisUp' \in BOOLEAN, shutdown' \in BOOLEAN,
         UNCHANGED <<discoveryVars, heartbeatVars, commandVars>>
  PROVE  Inv'
  <1>1. TypeOK'
    BY DEF discoveryVars, heartbeatVars, commandVars, Inv, TypeOK
  <1> QED
    BY <1>1 DEF discoveryVars, heartbeatVars, commandVars, Inv, PhaseInv, HandOver,
                CountsInOrder, Granted, Told

LEMMA StepInv == Inv /\ [Next]_vars => Inv'
  <1> SUFFICES ASSUME Inv, [Next]_vars PROVE Inv'
    OBVIOUS
  <1>1. ASSUME NEW code \in ErrorCodes, DiscoverFails(code) PROVE Inv'
    BY <1>1, DiscoverFailsInv
  <1>2. CASE RetryAfterDelay \/ AbandonDiscovery \/ DiscoverSucceeds \/ StartPolling \/ StopPolling
    <2>1. UNCHANGED <<attempt, phase, installed, heartbeatVars, commandVars, environment>>
      BY <1>2 DEF RetryAfterDelay, AbandonDiscovery, DiscoverSucceeds, StartPolling, StopPolling
    <2> QED
      BY <1>2, <2>1, DiscoveryMovesOn
         DEF RetryAfterDelay, AbandonDiscovery, DiscoverSucceeds, StartPolling, StopPolling
  <1>3. CASE EndPhase
    BY <1>3, EndPhaseInv
  <1>4. CASE InstallHandler
    BY <1>4, InstallHandlerInv
  <1>5. CASE PollAlarms
    BY <1>5, PollAlarmsInv
  <1>6. CASE HeartbeatRead
    BY <1>6, HeartbeatReadInv
  <1>7. CASE HeartbeatEmit
    BY <1>7, HeartbeatEmitInv
  <1>8. CASE HeartbeatStop
    BY <1>8, HeartbeatStopInv
  <1>9. CASE ReceiveCommand \/ LookUpHandler \/ AnswerCommand
    BY <1>9, CommandInv
  <1>10. CASE ChassisChanges
    <2>1. chassisUp' \in BOOLEAN
      BY <1>10, Zenon DEF ChassisChanges
    <2> QED
      BY <1>10, <2>1, OutsideInv DEF ChassisChanges, Inv, TypeOK
  <1>11. CASE Shutdown
    BY <1>11, OutsideInv DEF Shutdown, Inv, TypeOK
  <1>12. CASE UNCHANGED vars
    BY <1>12, OutsideInv DEF vars, environment, Inv, TypeOK
  <1> QED
    BY <1>1, <1>2, <1>3, <1>4, <1>5, <1>6, <1>7, <1>8, <1>9, <1>10, <1>11, <1>12
       DEF Next, DiscoveryStep, HeartbeatStep

LEMMA AlwaysInv == Spec => []Inv
  BY InitInv, StepInv, PTL DEF Spec

-----------------------------------------------------------------------------
(* Tasks, cells and messages keep their types; the attempt counter and all *)
(* copies of it stay within their width.                                   *)
THEOREM TypeCorrect == Spec => []TypeOK
  BY AlwaysInv, PTL DEF Inv

(* However the hand-over of the heartbeat is interleaved with the end of   *)
(* discovery, one discovery heartbeat at most follows it.                  *)
THEOREM LateHeartbeatsBounded == Spec => []OneLateHeartbeat
  <1>1. Inv => OneLateHeartbeat
    BY DEF Inv, HandOver, OneLateHeartbeat
  <1> QED
    BY <1>1, AlwaysInv, PTL

(* The failure count in the heartbeats of discovery never goes back,       *)
(* although each heartbeat shows a copy that may be overtaken.             *)
FailuresNeverGoBack ==
  [][Told /\ health'.from = "discovery" => health'.failures >= health.failures]_vars

THEOREM HeartbeatsInOrder == Spec => FailuresNeverGoBack
  <1> DEFINE Order == Told /\ health'.from = "discovery" => health'.failures >= health.failures
  <1>1. ASSUME Inv, [Next]_vars PROVE [Order]_vars
    <2> SUFFICES ASSUME Next, Told, health'.from = "discovery"
                 PROVE  health'.failures >= health.failures
      BY <1>1
    <2>1. health.failures \in Nat
      BY <1>1 DEF Inv, TypeOK
    <2>2. CASE HeartbeatEmit
      <3>1. heartbeat = "emit" /\ health' = DiscoveryHealth(held)
        BY <2>2 DEF HeartbeatEmit
      <3> QED
        BY <1>1, <3>1 DEF Inv, CountsInOrder, DiscoveryHealth
    <2>3. CASE PollAlarms
      <3>1. PICK up \in BOOLEAN : health' = PollHealth(up)
        BY <2>3 DEF PollAlarms
      <3> QED
        BY <3>1 DEF PollHealth
    <2>4. CASE ~HeartbeatEmit /\ ~PollAlarms
      <3>1. health' = health
        BY <2>4 DEF Next, DiscoveryStep, HeartbeatStep, heartbeatVars, DiscoverFails,
               RetryAfterDelay, AbandonDiscovery, DiscoverSucceeds, EndPhase, InstallHandler,
               StartPolling, StopPolling, HeartbeatRead, HeartbeatStop, ReceiveCommand,
               LookUpHandler, AnswerCommand, ChassisChanges, Shutdown
      <3> QED
        BY <2>1, <3>1
    <2> QED
      BY <2>2, <2>3, <2>4
  <1> QED
    BY <1>1, AlwaysInv, PTL DEF Spec, FailuresNeverGoBack

(* Once a command reached the handler, no later one is told that discovery *)
(* is in progress, though each looks the slot up and acts on it later.     *)
NoFallBack == [][answer = "handler" => answer' = "handler"]_vars

THEOREM HandlerIsKept == Spec => NoFallBack
  <1>1. ASSUME Inv, [Next]_vars PROVE [answer = "handler" => answer' = "handler"]_vars
    <2> SUFFICES ASSUME Next, answer = "handler" PROVE answer' = "handler"
      BY <1>1
    <2>1. CASE AnswerCommand
      BY <1>1, <2>1 DEF AnswerCommand, Inv, Granted
    <2>2. CASE ~AnswerCommand
      BY <2>2 DEF Next, DiscoveryStep, HeartbeatStep, commandVars, DiscoverFails,
             RetryAfterDelay, AbandonDiscovery, DiscoverSucceeds, EndPhase, InstallHandler,
             StartPolling, StopPolling, PollAlarms, HeartbeatRead, HeartbeatEmit, HeartbeatStop,
             ReceiveCommand, LookUpHandler, ChassisChanges, Shutdown
    <2> QED
      BY <2>1, <2>2
  <1> QED
    BY <1>1, AlwaysInv, PTL DEF Spec, NoFallBack
=============================================================================
