----------------------------- MODULE Reachability -----------------------------
(***************************************************************************)
(* The reachability tracker of one polled target                           *)
(* (src/src/appear_x/reachability.rs).  It is owned by the alarms poller,   *)
(* which keeps one poll in flight, so its atomics are never written        *)
(* concurrently and each record_* call is one action.                      *)
(*                                                                         *)
(* Time is the wall clock in seconds and starts at 1: the code uses 0 for  *)
(* "never".                                                                *)
(***************************************************************************)
EXTENDS Integers

CONSTANTS
  FailureThreshold,  (* [appear_x] reachability_failure_threshold          *)
  EventDwell,        (* [appear_x] reachability_event_dwell_secs           *)
  ErrorCodes,        (* the fixed enum of classify_jsonrpc_error           *)
  NoError,           (* last_error_code = None                             *)
  MaxClock,          (* bound: how long the model runs                     *)
  MaxFailures        (* bound: how long a failure streak gets              *)

ASSUME ReachabilityAssumption ==
  /\ FailureThreshold \in Nat
  /\ EventDwell \in Nat
  /\ NoError \notin ErrorCodes
  /\ MaxClock \in Nat
  /\ MaxFailures \in Nat

VARIABLES
  clock,                (* Utc::now().timestamp()                          *)
  consecutiveFailures,
  lastSuccess,
  lastReachable,
  unreachableSince,
  lastStateFlip,
  firedForState,        (* fired_event_for_current_state                   *)
  lastErrorCode,
  outcome,              (* TransitionOutcome returned by the last record_* *)
  announced             (* history: the last target_* outcome, or "none"   *)

tracker == <<consecutiveFailures, lastSuccess, lastReachable, unreachableSince,
             lastStateFlip, firedForState, lastErrorCode, outcome, announced>>
trackerVars == <<clock, tracker>>

NoChange == [type |-> "NoChange"]
BecameUnreachable(failures, code) ==
  [type |-> "BecameUnreachable", failures |-> failures, code |-> code]
Recovered(secs) == [type |-> "Recovered", downtime |-> secs]

Outcomes ==
  [type : {"NoChange"}]
    \cup [type : {"BecameUnreachable"}, failures : Nat, code : ErrorCodes]
    \cup [type : {"Recovered"}, downtime : Nat]

(* A threshold of 0 in the configuration behaves as 1.                     *)
Threshold == IF FailureThreshold > 1 THEN FailureThreshold ELSE 1

TrackerInit ==
  /\ clock = 1
  /\ consecutiveFailures = 0
  /\ lastSuccess = 0
  /\ lastReachable = TRUE
  /\ unreachableSince = 0
  /\ lastStateFlip = 0
  /\ firedForState = TRUE
  /\ lastErrorCode = NoError
  /\ outcome = NoChange
  /\ announced = "none"

-----------------------------------------------------------------------------
(* The dwell gate of target_unreachable; target_recovered has none.        *)
UngatedDwellOver(flip, now) == flip # 0
LateDwellOver(flip, now) == flip # 0 /\ now - flip > EventDwell
DwellOver(flip, now) == flip # 0 /\ now - flip >= EventDwell

(* Remember in history which target_* event was handed to the caller.      *)
Announce ==
  announced' = IF outcome'.type = "NoChange" THEN announced ELSE outcome'.type

(* fired is the single-fire latch as the caller left it: it comes back     *)
(* TRUE, and only a call that finds it FALSE reports the recovery.          *)
StickyMaybeFireRecovered(fired, downtime) ==
  /\ firedForState' = TRUE
  /\ outcome' = IF firedForState THEN NoChange ELSE Recovered(downtime)
MaybeFireRecovered(fired, downtime) ==
  /\ firedForState' = TRUE
  /\ outcome' = IF fired THEN NoChange ELSE Recovered(downtime)

UnlatchedMaybeFireUnreachable(fired, flip, now, failures, code) ==
  LET fires == DwellOver(flip, now)
  IN  /\ firedForState' = (fired \/ fires)
      /\ outcome' = IF fires THEN BecameUnreachable(failures, code) ELSE NoChange
MaybeFireUnreachable(fired, flip, now, failures, code) ==
  LET fires == DwellOver(flip, now) /\ ~fired
  IN  /\ firedForState' = (fired \/ fires)
      /\ outcome' = IF fires THEN BecameUnreachable(failures, code) ELSE NoChange

SwappedDowntime(since) == IF since > 0 THEN since - clock ELSE 0
Downtime(since) == IF since > 0 THEN clock - since ELSE 0

RecordSuccess ==
  /\ consecutiveFailures' = 0
  /\ lastSuccess' = clock
  /\ lastErrorCode' = NoError
  /\ lastReachable' = TRUE
  /\ \/ /\ lastReachable
        /\ outcome' = NoChange
        /\ UNCHANGED <<unreachableSince, lastStateFlip, firedForState>>
     \/ /\ ~lastReachable
        /\ unreachableSince' = 0
        /\ lastStateFlip' = clock
        /\ MaybeFireRecovered(FALSE, Downtime(unreachableSince))
  /\ Announce
  /\ UNCHANGED clock

LaxBelowThreshold(count) == count <= Threshold
BelowThreshold(count) == count < Threshold

(* The clock is read twice, once on entry and once for the dwell gate: a   *)
(* second may pass in between, and later is the second reading.            *)
RecordFailure(code, later) ==
  LET count == consecutiveFailures + 1
  IN  /\ count <= MaxFailures
      /\ consecutiveFailures' = count
      /\ lastErrorCode' = code
      /\ \/ /\ BelowThreshold(count)
            /\ outcome' = NoChange
            /\ UNCHANGED <<lastReachable, unreachableSince, lastStateFlip, firedForState>>
         \/ /\ ~BelowThreshold(count)
            /\ lastReachable
            /\ lastReachable' = FALSE
            /\ unreachableSince' = clock
            /\ lastStateFlip' = clock
            /\ MaybeFireUnreachable(FALSE, clock, later, count, code)
         \/ /\ ~BelowThreshold(count)
            /\ ~lastReachable
            /\ MaybeFireUnreachable(firedForState, lastStateFlip, later, count, code)
            /\ UNCHANGED <<lastReachable, unreachableSince, lastStateFlip>>
      /\ Announce
      /\ clock' = later
      /\ UNCHANGED lastSuccess

ClockTicks == clock < MaxClock /\ clock' = clock + 1 /\ UNCHANGED tracker

TrackerNext ==
  \/ RecordSuccess
  \/ \E code \in ErrorCodes, later \in {clock, clock + 1} :
        later <= MaxClock /\ RecordFailure(code, later)
  \/ ClockTicks

TrackerSpec == TrackerInit /\ [][TrackerNext]_trackerVars

-----------------------------------------------------------------------------
TrackerTypeOK ==
  /\ clock \in Nat \ {0}
  /\ consecutiveFailures \in Nat
  /\ lastSuccess \in Nat
  /\ lastReachable \in BOOLEAN
  /\ unreachableSince \in Nat
  /\ lastStateFlip \in Nat
  /\ firedForState \in BOOLEAN
  /\ lastErrorCode \in ErrorCodes \cup {NoError}
  /\ outcome \in Outcomes
  /\ announced \in {"none", "BecameUnreachable", "Recovered"}

(* The fields a heartbeat copies one by one always tell one story: the     *)
(* target is reported reachable exactly below the failure threshold, an    *)
(* error code is shown exactly during a failure streak, and an outage has  *)
(* a start that no success has overtaken.                                  *)
HeartbeatConsistent ==
  /\ lastReachable <=> consecutiveFailures < Threshold
  /\ lastErrorCode = NoError <=> consecutiveFailures = 0
  /\ lastReachable <=> unreachableSince = 0
  /\ ~lastReachable => lastSuccess <= unreachableSince /\ unreachableSince <= clock

(* A record_* call that hands a target_* event to the caller.              *)
Fires(type) == outcome' # outcome /\ outcome'.type = type

(* target_unreachable is fired once per outage, never twice without a      *)
(* recovery in between, and only for an outage at least the dwell time     *)
(* old, during which no poll has succeeded: a short flap stays silent.     *)
UnreachableFiredRight ==
  [][Fires("BecameUnreachable")
       => /\ announced # "BecameUnreachable"
          /\ clock' - unreachableSince' >= EventDwell
          /\ lastSuccess' <= unreachableSince']_trackerVars

(* The dwell gate does not swallow an outage either: every failed poll     *)
(* that ends past the dwell time leaves the outage announced.              *)
OutageAnnounced ==
  [][consecutiveFailures' > consecutiveFailures /\ ~lastReachable'
       /\ clock' - unreachableSince' >= EventDwell
       => announced' = "BecameUnreachable"]_trackerVars
=============================================================================
