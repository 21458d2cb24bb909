------------------------------- MODULE Lifecycle -------------------------------
(***************************************************************************)
(* One gateway over many lives of its process: the steps of main           *)
(* (src/src/main.rs:62-419), the restarts of systemd, the self-upgrade     *)
(* with its trial of the new version, registration, and the commands of    *)
(* Commands, any of which a life may end in the middle of.                 *)
(*                                                                         *)
(* The upgrade state on disk and its rules are the SDK's and modelled from *)
(* how main.rs and commands.rs use them; the restart rules are those of    *)
(* the unit in packaging/.  Discovery within a life is in Startup.         *)
(***************************************************************************)
EXTENDS Commands

CONSTANTS
  Good,              (* the version installed by hand                      *)
  Candidates,        (* versions the manager may upgrade to                *)
  Flaws,             (* how a candidate may be broken                      *)
  MaxBootAttempts,   (* of a version on trial                              *)
  StartLimit,        (* StartLimitBurst of the unit                        *)
  MaxStops           (* bound: how often the process is stopped            *)

(* "config", "credentials", "connect": fails in that step of main;         *)
(* "crash": dies before its trial is over; "mute": runs, but reaches       *)
(* neither manager nor chassis.                                            *)
KnownFlaws == {"none", "config", "credentials", "connect", "crash", "mute"}

ASSUME LifecycleAssumption ==
  /\ Good \notin Candidates
  /\ Flaws \subseteq KnownFlaws
  /\ MaxBootAttempts \in Nat /\ StartLimit \in Nat /\ MaxStops \in Nat

Versions == Candidates \cup {Good}

VARIABLES
  flaw,        (* environment: what is wrong with each version             *)
  installed,   (* where the current symlink points                         *)
  previous,    (* the version a rollback returns to                        *)
  trial,       (* "stable", "staged", or "pending" health                  *)
  attempts,    (* boots of the version on trial                            *)
  exitDue,     (* the 5 s drain of a staged upgrade is running             *)
  phase,       (* step of main, "run", "down", or "failed" for systemd     *)
  running,     (* the version of this life                                 *)
  starts,      (* starts in the current StartLimitInterval                 *)
  stops,       (* bound: stops so far                                      *)
  saved,       (* the credentials file holds a node's credentials          *)
  token,       (* environment: the one-time registration token             *)
  online,      (* this life has authenticated with the manager             *)
  owed,        (* it has registered, on_register has not run yet           *)
  orphaned     (* history: why credentials were not saved, or "no"         *)

upgrade == <<flaw, installed, previous, trial, attempts>>
process == <<exitDue, phase, running, starts, stops>>
identity == <<saved, token, online, owed, orphaned>>
vars == <<commandVars, upgrade, process, identity>>

Init ==
  /\ card = {} /\ worker = "idle" /\ NoCommand
  /\ flaw \in {f \in [Versions -> Flaws \cup {"none"}] : f[Good] = "none"}
  /\ installed = Good
  /\ previous = Good
  /\ trial = "stable"
  /\ attempts = 0
  /\ exitDue = FALSE
  /\ phase = "down"
  /\ running = Good
  /\ starts = 0
  /\ stops = 0
  /\ saved = FALSE
  /\ token = "fresh"
  /\ online = FALSE
  /\ owed = FALSE
  /\ orphaned = "no"

-----------------------------------------------------------------------------
(* The end of a life.  Whatever it had in hand is cut off: a command in    *)
(* flight may or may not have been carried out, its answer is never sent.  *)
CutCommand ==
  \/ /\ worker = "idle"
     /\ ForgetCommand
     /\ worker' = "idle"
  \/ /\ worker # "idle"
     /\ worker' = "cut"
     /\ ack' = "none"
     /\ excuse' = "process ended"
     /\ effect' \in IF worker = "calling" THEN {effect, Written} ELSE {effect}
     /\ UNCHANGED <<request, sent>>

(* systemd starts the process again, unless it has done so too often.      *)
EndLife ==
  /\ phase' = IF starts < StartLimit THEN "down" ELSE "failed"
  /\ exitDue' = FALSE
  /\ online' = FALSE
  /\ owed' = FALSE
  /\ orphaned' = IF owed THEN "died" ELSE orphaned
  /\ card' = {}
  /\ CutCommand
  /\ UNCHANGED <<running, starts, saved, token>>

Boot ==
  /\ phase = "down"
  /\ phase' = "config"
  /\ running' = installed
  /\ starts' = starts + 1
  /\ worker' = "idle"
  /\ ForgetCommand
  /\ UNCHANGED <<card, upgrade, exitDue, stops, identity>>

(* The fallible steps of main, in order.                                   *)
WatchdogLast ==
  [config |-> "credentials", credentials |-> "connect", connect |-> "watchdog", watchdog |-> "run"]
StepAfter ==
  [config |-> "credentials", credentials |-> "watchdog", watchdog |-> "connect", connect |-> "run"]

(* On the way into client.run(): authenticate with what was loaded.        *)
Enter(step) ==
  /\ phase' = step
  /\ online' = (step = "run" /\ saved /\ flaw[running] # "mute")
  /\ card' \in IF step = "run" THEN Cards ELSE {{}}
  /\ UNCHANGED <<exitDue, running, starts, stops, saved, token, owed, orphaned>>
  /\ UNCHANGED <<worker, request, outcome>>

StepPasses ==
  /\ phase \in {"config", "credentials", "connect"}
  /\ flaw[running] # phase
  /\ Enter(StepAfter[phase])
  /\ UNCHANGED upgrade

StepFails ==
  /\ phase \in {"config", "credentials", "connect"}
  /\ flaw[running] = phase
  /\ EndLife
  /\ UNCHANGED <<upgrade, stops>>

(* run_boot_watchdog: count a boot on trial; one too many reverts the      *)
(* symlink and exits.                                                      *)
NeverExhausted(boots) == FALSE
HastyExhausted(boots) == boots >= MaxBootAttempts
Exhausted(boots) == boots > MaxBootAttempts

WatchdogContinues ==
  /\ phase = "watchdog"
  /\ \/ trial = "stable" /\ UNCHANGED <<trial, attempts>>
     \/ /\ trial # "stable"
        /\ ~Exhausted(attempts + 1)
        /\ trial' = "pending"
        /\ attempts' = attempts + 1
  /\ Enter(StepAfter[phase])
  /\ UNCHANGED <<flaw, installed, previous>>

WatchdogReverts ==
  /\ phase = "watchdog"
  /\ trial # "stable"
  /\ Exhausted(attempts + 1)
  /\ installed' = previous
  /\ trial' = "stable"
  /\ attempts' = 0
  /\ EndLife
  /\ UNCHANGED <<flaw, previous, stops>>

Crash ==
  /\ phase = "run"
  /\ flaw[running] = "crash"
  /\ EndLife
  /\ UNCHANGED <<upgrade, stops>>

(* SIGTERM, SIGKILL or power, or ctrl-c once the SDK is through with it.   *)
Stopped ==
  /\ phase \notin {"down", "failed"}
  /\ stops < MaxStops
  /\ stops' = stops + 1
  /\ EndLife
  /\ UNCHANGED upgrade

(* The beats are recorded by a task that looks at nothing else, so every   *)
(* version that stays up is promoted.                                      *)
Promote ==
  /\ phase = "run"
  /\ trial = "pending"
  /\ flaw[running] # "crash"
  /\ trial' = "stable"
  /\ attempts' = 0
  /\ UNCHANGED <<commandVars, flaw, installed, previous, process, identity>>

-----------------------------------------------------------------------------
(* Registration: the token is presented by a life that loaded nothing.     *)
PresentToken ==
  /\ phase = "run"
  /\ flaw[running] # "mute"
  /\ ~saved /\ ~online
  /\ token = "fresh"
  /\ token' = "spent"

Register ==
  /\ PresentToken
  /\ online' = TRUE
  /\ owed' = TRUE
  /\ UNCHANGED <<commandVars, upgrade, process, saved, orphaned>>

(* The manager takes the token, but the credentials do not arrive.         *)
RegistrationLost ==
  /\ PresentToken
  /\ orphaned' = "unanswered"
  /\ UNCHANGED <<commandVars, upgrade, process, saved, online, owed>>

(* on_register: a failed save is only logged.                              *)
NotSaved == UNCHANGED saved
StoreSaves == saved' = TRUE

SaveCredentials ==
  /\ owed
  /\ owed' = FALSE
  /\ \/ StoreSaves /\ UNCHANGED orphaned
     \/ orphaned' = "save failed" /\ UNCHANGED saved
  /\ UNCHANGED <<commandVars, upgrade, process, token, online>>

-----------------------------------------------------------------------------
(* dispatch_upgrade_binary.  The worker stages the version itself, so no   *)
(* other command is handled meanwhile; during the drain others may be.     *)
Online == phase = "run" /\ online

UpgradeRefused(v) ==
  /\ Online
  /\ worker = "idle"
  /\ worker' = "answered"
  /\ type' = "upgrade_binary"
  /\ payload' = v
  /\ ack' = "upgrade_refused"
  /\ UNCHANGED <<card, sent, effect, excuse, upgrade, process, identity>>

StageUpgrade(v) ==
  /\ Online
  /\ worker = "idle"
  /\ trial = "stable"
  /\ v # installed
  /\ worker' = "answered"
  /\ type' = "upgrade_binary"
  /\ payload' = v
  /\ ack' = "ok"
  /\ previous' = installed
  /\ installed' = v
  /\ trial' = "staged"
  /\ attempts' = 0
  /\ exitDue' = TRUE
  /\ UNCHANGED <<card, sent, effect, excuse, flaw, phase, running, starts, stops, identity>>

DrainEnds ==
  /\ exitDue
  /\ EndLife
  /\ UNCHANGED <<upgrade, stops>>

Command ==
  /\ Online
  /\ CommandsNext
  /\ UNCHANGED <<upgrade, process, identity>>

IntervalEnds ==
  /\ phase # "failed"
  /\ starts > 0
  /\ starts' = 0
  /\ UNCHANGED <<commandVars, upgrade, exitDue, phase, running, stops, identity>>

(* A unit that failed stays so until an operator resets it.                *)
OperatorResets ==
  /\ phase = "failed"
  /\ phase' = "down"
  /\ starts' = 0
  /\ UNCHANGED <<commandVars, upgrade, exitDue, running, stops, identity>>

Main == StepPasses \/ StepFails \/ WatchdogContinues \/ WatchdogReverts

Next ==
  \/ Boot \/ Main \/ Crash \/ Stopped \/ Promote
  \/ Register \/ RegistrationLost \/ SaveCredentials
  \/ \E v \in Versions : UpgradeRefused(v) \/ StageUpgrade(v)
  \/ DrainEnds
  \/ Command
  \/ IntervalEnds \/ OperatorResets

Spec == Init /\ [][Next]_vars

(* systemd restarts, main goes on, timers fire; a version that crashes     *)
(* does so.  Nothing is assumed of manager, operator or commands.          *)
FairSpec ==
  /\ Spec
  /\ WF_vars(Boot) /\ WF_vars(Main) /\ WF_vars(Crash) /\ WF_vars(Promote) /\ WF_vars(DrainEnds)

-----------------------------------------------------------------------------
(* A command is in hand only while the process runs, or was cut by its end,*)
(* and no life ends up owing what it has not been given.                   *)
FlagsOK ==
  /\ exitDue \in BOOLEAN /\ saved \in BOOLEAN /\ online \in BOOLEAN /\ owed \in BOOLEAN
  /\ exitDue \/ online => phase = "run"
  /\ owed => online
  /\ worker \in {"calling", "answered"} => phase = "run" /\ online
  /\ worker = "cut" => phase \in {"down", "failed"}

Answers == Refusals \cup {"none", "ok", "upgrade_refused", VendorError}

LifecycleTypeOK ==
  /\ worker \in {"idle", "calling", "answered", "cut"}
  /\ ack \in Answers
  /\ excuse \in {"none", "taken as done", "answer lost", "process ended"}
  /\ flaw \in [Versions -> KnownFlaws]
  /\ installed \in Versions /\ previous \in Versions /\ running \in Versions
  /\ trial \in {"stable", "staged", "pending"}
  /\ attempts \in 0..MaxBootAttempts
  /\ phase \in {"config", "credentials", "watchdog", "connect", "run", "down", "failed"}
  /\ starts \in Nat /\ stops \in Nat
  /\ token \in {"fresh", "spent"}
  /\ orphaned \in {"no", "unanswered", "died", "save failed"}
  /\ FlagsOK

(* A refusal never follows a call, and the chassis has written nothing     *)
(* that is not acknowledged unless the answer was lost or the process      *)
(* ended.  (An acknowledgement may still be wrong: see WritesAsAsked.)     *)
FateKnown ==
  /\ ack \in Refusals \cup {"upgrade_refused"} => sent = <<>> /\ effect = Nothing
  /\ effect # Nothing => ack = "ok" \/ excuse # "none"
  /\ excuse = "process ended" <=> worker = "cut"

(* A node the manager has registered is the same node after every restart, *)
(* upgrade and rollback, unless its credentials never arrived, saving them *)
(* failed or the process ended before: the token does not work twice.      *)
IdentityKept ==
  /\ token = "spent" => saved \/ owed \/ orphaned # "no"
  /\ saved => orphaned = "no"
  /\ online => token = "spent"

(* The symlink is only reverted from a version that fails by itself, or    *)
(* whose trial boots were stopped from outside as often as is allowed; and *)
(* only to one without a flaw, since no other can be told to upgrade.      *)
RevertsAreEarned ==
  [][trial # "stable" /\ installed' # installed
       => /\ flaw[installed] \notin {"none", "mute"} \/ stops >= MaxBootAttempts
          /\ flaw[installed'] = "none"]_vars

(* Every trial ends with a version that stays up, promoted or reverted to, *)
(* if the new one gets as far as the watchdog, unless systemd gave up.  It *)
(* may be a mute one: health beats do not look at manager or chassis.      *)
BreaksEarly(v) == flaw[v] \in {"config", "credentials"}

UpgradeSettles ==
  trial # "stable" /\ ~BreaksEarly(installed) ~>
    \/ trial = "stable" /\ phase = "run" /\ flaw[running] \in {"none", "mute"}
    \/ phase = "failed"

(* What main.rs:119-121 says: a crash loop of a freshly staged binary ends *)
(* with the revert of the symlink.                                         *)
CrashLoopRollsBack == trial # "stable" ~> trial = "stable"
=============================================================================
