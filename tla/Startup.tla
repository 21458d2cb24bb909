-------------------------------- MODULE Startup --------------------------------
(***************************************************************************)
(* The startup window of the gateway (src/src/main.rs:258-415): the        *)
(* discovery task retries until the chassis answers, the heartbeat task    *)
(* tells the manager meanwhile that the target is down, commands go        *)
(* through the deferred handler (src/src/appear_x/commands.rs:84-154), and *)
(* run_polling (src/src/appear_x/polling.rs:72-98) takes over.             *)
(*                                                                         *)
(* The tasks share two locked cells: discovery_phase and the handler slot. *)
(* Each read or write of a cell, each await and each emitted heartbeat is  *)
(* an atomic step.                                                         *)
(***************************************************************************)
EXTENDS Naturals

CONSTANTS
  ErrorCodes,   (* the fixed enum of classify_jsonrpc_error                *)
  InitialCode,  (* "tcp_refused", published before the first attempt ends  *)
  MaxAttempt    (* bound: where the attempt counter saturates (u32::MAX)   *)

ASSUME StartupAssumption ==
  /\ InitialCode \in ErrorCodes
  /\ "none" \notin ErrorCodes    (* the code of Done, which is no error    *)
  /\ MaxAttempt \in Nat \ {0}

VARIABLES
  chassisUp,   (* environment: the chassis answers every call              *)
  shutdown,    (* the SDK's shutdown token is cancelled                    *)
  discovery,   (* program counter of the discovery task                    *)
  attempt,     (* its local failure counter                                *)
  phase,       (* discovery_phase                                          *)
  heartbeat,   (* program counter of the heartbeat task                    *)
  held,        (* its clone of discovery_phase, while it emits             *)
  installed,   (* DeferredAppearXHandler.inner is Some                     *)
  command,     (* the command the SDK worker is handling                   *)
  answer,      (* history: how the last vendor command was answered        *)
  health,      (* history: the last health message on the wire             *)
  late         (* history: discovery heartbeats sent after discovery ended *)

discoveryVars == <<discovery, attempt, phase, installed>>
heartbeatVars == <<heartbeat, held, health, late>>
commandVars   == <<command, answer>>
environment   == <<chassisUp, shutdown>>
vars == <<discoveryVars, heartbeatVars, commandVars, environment>>

Discovering(failures, code) == [failures |-> failures, code |-> code]
Done == [failures |-> 0, code |-> "none"]    (* discovery_phase = None      *)
Phases == [failures : 0..MaxAttempt, code : ErrorCodes] \cup {Done}

DiscoveryHealth(p) == [from |-> "discovery", reachable |-> FALSE, failures |-> p.failures]
PollHealth(up)     == [from |-> "polling",   reachable |-> up,    failures |-> 0]
NoHealth           == [from |-> "nobody",    reachable |-> FALSE, failures |-> 0]

Init ==
  /\ chassisUp \in BOOLEAN
  /\ shutdown = FALSE
  /\ discovery = "discover"
  /\ attempt = 0
  /\ phase = Discovering(0, InitialCode)
  /\ heartbeat = "waiting"
  /\ held = Done
  /\ installed = FALSE
  /\ command = "none"
  /\ answer = "none"
  /\ health = NoHealth
  /\ late = 0

-----------------------------------------------------------------------------
(* The discovery task.                                                     *)

UncappedAttempt == attempt + 1
NextAttempt == IF attempt < MaxAttempt THEN attempt + 1 ELSE attempt

DiscoverFails(code) ==
  /\ discovery = "discover"
  /\ ~chassisUp
  /\ attempt' = NextAttempt
  /\ phase' = Discovering(attempt', code)
  /\ discovery' = "sleep"
  /\ UNCHANGED <<installed, heartbeatVars, commandVars, environment>>

RetryAfterDelay ==
  /\ discovery = "sleep"
  /\ discovery' = "discover"
  /\ UNCHANGED <<attempt, phase, installed, heartbeatVars, commandVars, environment>>

(* discover() itself does not look at the token: only the sleep does.      *)
DeafSleep == FALSE
AbandonDiscovery ==
  /\ discovery = "sleep"
  /\ shutdown
  /\ discovery' = "returned"
  /\ UNCHANGED <<attempt, phase, installed, heartbeatVars, commandVars, environment>>

DiscoverSucceeds ==
  /\ discovery = "discover"
  /\ chassisUp
  /\ discovery' = "discovered"
  /\ UNCHANGED <<attempt, phase, installed, heartbeatVars, commandVars, environment>>

EndPhase ==
  /\ discovery = "discovered"
  /\ phase' = Done
  /\ discovery' = "install"
  /\ UNCHANGED <<attempt, installed, heartbeatVars, commandVars, environment>>

InstallHandler ==
  /\ discovery = "install"
  /\ installed' = TRUE
  /\ discovery' = "authenticate"
  /\ UNCHANGED <<attempt, phase, heartbeatVars, commandVars, environment>>

(* run_polling logs in once more before it spawns the pollers; an error    *)
(* returns from it, and the task ends after logging it.                    *)
StartPolling ==
  /\ discovery = "authenticate"
  /\ discovery' = IF chassisUp THEN "polling" ELSE "returned"
  /\ UNCHANGED <<attempt, phase, installed, heartbeatVars, commandVars, environment>>

(* A poll of the alarms poller, abstracted to the health message it sends. *)
(* A failed poll may still report reachable, below the failure threshold.  *)
PollAlarms ==
  /\ discovery = "polling"
  /\ \E up \in BOOLEAN : (chassisUp => up) /\ health' = PollHealth(up)
  /\ UNCHANGED <<discoveryVars, heartbeat, held, late, commandVars, environment>>

StopPolling ==
  /\ discovery = "polling"
  /\ shutdown
  /\ discovery' = "returned"
  /\ UNCHANGED <<attempt, phase, installed, heartbeatVars, commandVars, environment>>

-----------------------------------------------------------------------------
(* The heartbeat task: clone the phase, then emit the clone.               *)

HeartbeatRead ==
  /\ heartbeat = "waiting"
  /\ \/ /\ phase # Done
        /\ held' = phase
        /\ heartbeat' = "emit"
     \/ /\ phase = Done
        /\ held' = Done
        /\ heartbeat' = "returned"
  /\ UNCHANGED <<discoveryVars, health, late, commandVars, environment>>

EmitOnce == heartbeat' = "returned" /\ held' = Done
EmitAgain == UNCHANGED <<heartbeat, held>>
NextBeat == heartbeat' = "waiting" /\ held' = Done

HeartbeatEmit ==
  /\ heartbeat = "emit"
  /\ health' = DiscoveryHealth(held)
  /\ late' = IF phase = Done /\ late < 2 THEN late + 1 ELSE late
  /\ NextBeat
  /\ UNCHANGED <<discoveryVars, commandVars, environment>>

HeartbeatStop ==
  /\ heartbeat = "waiting"
  /\ shutdown
  /\ heartbeat' = "returned"
  /\ UNCHANGED <<discoveryVars, held, health, late, commandVars, environment>>

-----------------------------------------------------------------------------
(* The SDK worker hands over one command at a time.  The handler looks the *)
(* slot up, releases it and only then acts; upgrade_binary never looks.    *)

ReceiveCommand ==
  /\ command = "none"
  /\ command' \in {"vendor", "upgrade_binary"}
  /\ UNCHANGED <<answer, discoveryVars, heartbeatVars, environment>>

TakeHandler == installed' = FALSE
CloneHandler == UNCHANGED installed

LookUpHandler ==
  /\ command = "vendor"
  /\ \/ /\ installed
        /\ command' = "forwarded"
        /\ CloneHandler
     \/ /\ ~installed
        /\ command' = "refused"
        /\ UNCHANGED installed
  /\ UNCHANGED <<answer, discovery, attempt, phase, heartbeatVars, environment>>

AnswerCommand ==
  /\ \/ command = "forwarded" /\ answer' = "handler"
     \/ command = "refused" /\ answer' = "discovery_in_progress"
     \/ command = "upgrade_binary" /\ UNCHANGED answer
  /\ command' = "none"
  /\ UNCHANGED <<discoveryVars, heartbeatVars, environment>>

-----------------------------------------------------------------------------
ChassisChanges ==
  /\ chassisUp' = ~chassisUp
  /\ UNCHANGED <<shutdown, discoveryVars, heartbeatVars, commandVars>>

Shutdown ==
  /\ shutdown' = TRUE
  /\ UNCHANGED <<chassisUp, discoveryVars, heartbeatVars, commandVars>>

DiscoveryStep ==
  \/ \E code \in ErrorCodes : DiscoverFails(code)
  \/ RetryAfterDelay
  \/ DiscoverSucceeds
  \/ EndPhase
  \/ InstallHandler
  \/ StartPolling
  \/ PollAlarms

HeartbeatStep == HeartbeatRead \/ HeartbeatEmit

Next ==
  \/ DiscoveryStep \/ AbandonDiscovery \/ StopPolling
  \/ HeartbeatStep \/ HeartbeatStop
  \/ ReceiveCommand \/ LookUpHandler \/ AnswerCommand
  \/ ChassisChanges \/ Shutdown

Spec == Init /\ [][Next]_vars

(* tokio keeps running a task that is ready, and its select! picks at      *)
(* random among the branches that are, so a cancelled token that is polled *)
(* again and again is seen (strong fairness).  Nothing is assumed of the   *)
(* chassis, of the operator or of the commands that arrive.                *)
Fairness ==
  /\ WF_vars(DiscoveryStep)
  /\ WF_vars(HeartbeatStep)
  /\ WF_vars(LookUpHandler \/ AnswerCommand)
  /\ SF_vars(AbandonDiscovery)
  /\ SF_vars(StopPolling)
  /\ SF_vars(HeartbeatStop)

FairSpec == Spec /\ Fairness

-----------------------------------------------------------------------------
TypeOK ==
  /\ chassisUp \in BOOLEAN
  /\ shutdown \in BOOLEAN
  /\ discovery \in {"discover", "sleep", "discovered", "install", "authenticate",
                    "polling", "returned"}
  /\ attempt \in 0..MaxAttempt
  /\ phase \in Phases
  /\ heartbeat \in {"waiting", "emit", "returned"}
  /\ held \in Phases
  /\ installed \in BOOLEAN
  /\ command \in {"none", "vendor", "forwarded", "refused", "upgrade_binary"}
  /\ answer \in {"none", "handler", "discovery_in_progress"}
  /\ health \in [from : {"nobody", "discovery", "polling"}, reachable : BOOLEAN,
                 failures : 0..MaxAttempt]
  /\ late \in 0..2

(* The hand-over of the heartbeat is not atomic, but it is bounded: at     *)
(* most one discovery heartbeat, the one whose phase was cloned before     *)
(* discovery ended, is sent afterwards.                                    *)
OneLateHeartbeat == late <= 1

(* Liveness: a chassis that comes up for good gets its commands through... *)
CommandsEventuallyAccepted ==
  <>[](chassisUp /\ ~shutdown) => <>[]installed

(* ...and until then the manager keeps hearing that the target is down.    *)
DiscoveryNeverSilent ==
  [](~shutdown) => []<>(phase = Done) \/ []<><<HeartbeatEmit>>_<<heartbeat>>

(* A shutdown ends both tasks, whatever the chassis does meanwhile: no     *)
(* retry, hand-over or heartbeat in progress makes a task miss the token.  *)
ShutdownEndsTasks ==
  shutdown ~> (heartbeat = "returned" /\ discovery = "returned")

(* What main.rs:264-266 says: once discovery succeeds, the polling engine  *)
(* takes over and owns reachability.  So a chassis that was discovered and *)
(* stays up is eventually polled.                                          *)
DiscoveredIsPolled ==
  <>[](chassisUp /\ ~shutdown) => <>(discovery = "polling")
=============================================================================
