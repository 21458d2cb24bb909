------------------------------ MODULE AlarmsTick ------------------------------
(***************************************************************************)
(* One tick of the alarms poller (src/src/appear_x/polling.rs:945-1118):   *)
(* the GetActiveAlarms call, the alarm events of its answer, the record in *)
(* the reachability tracker, the target event this may produce and the     *)
(* heartbeat, in this order.  All events pass the same gate, the heartbeat *)
(* does not.  The manager so has two views of alarms and of the target,    *)
(* from events and from heartbeats, and this module is about their         *)
(* agreement.                                                              *)
(*                                                                         *)
(* The tracker is Reachability, the alarm events are AlarmFeed; the age of *)
(* the last refresh and the clock advance separately, which only adds      *)
(* behaviours.                                                             *)
(***************************************************************************)
EXTENDS Reachability, AlarmFeed

CONSTANT NoHealth   (* no heartbeat yet                                          *)

VARIABLES
  up,      (* environment: does the chassis answer GetActiveAlarms?        *)
  step,    (* where the poller is in its tick                              *)
  answer,  (* call_outcome: NoError, or the classified error               *)
  heard,   (* history: the last target_* event the manager received        *)
  muted,   (* history: was the last target_* event dropped by the gate?    *)
  health   (* the last heartbeat the manager received                      *)

tick == <<step, answer, heard, muted, health>>
tickVars == <<trackerVars, feed, up, tick>>

TickInit ==
  /\ TrackerInit
  /\ FeedInit
  /\ up \in BOOLEAN
  /\ step = "poll"
  /\ answer = NoError
  /\ heard = "none"
  /\ muted = FALSE
  /\ health = NoHealth

-----------------------------------------------------------------------------
(* The call of this tick: an answer goes through set_alarms at once.       *)
PollAnswered ==
  /\ step = "poll"
  /\ up
  /\ SetAlarms
  /\ answer' = NoError
  /\ step' = "events"
  /\ UNCHANGED <<trackerVars, up, heard, muted, health>>

(* A failed call touches neither the stored alarms nor what they are       *)
(* compared with next time.                                                *)
ForgetAlarms == prevIds' = {} /\ UNCHANGED <<active, sinceRefresh, raised, cleared, told, unsent, wiped>>
KeepAlarms == UNCHANGED feed

PollFailed(code) ==
  /\ step = "poll"
  /\ ~up
  /\ consecutiveFailures < MaxFailures
  /\ KeepAlarms
  /\ answer' = code
  /\ step' = "events"
  /\ UNCHANGED <<trackerVars, up, heard, muted, health>>

EmitAlarmEvent ==
  /\ step = "events"
  /\ \E a \in AlarmIds : EmitRaised(a) \/ EmitCleared(a)
  /\ UNCHANGED <<trackerVars, up, tick>>

(* record_success or record_failure, and whether it wants an event.        *)
Record ==
  /\ step = "events"
  /\ Idle
  /\ \/ answer = NoError /\ RecordSuccess
     \/ answer # NoError /\ \E later \in {clock, clock + 1} :
          later <= MaxClock /\ RecordFailure(answer, later)
  /\ step' = IF outcome'.type = "NoChange" THEN "beat" ELSE "announce"
  /\ UNCHANGED <<feed, up, answer, heard, muted, health>>

(* emit_gated_event for target_unreachable or target_recovered.  The       *)
(* tracker has set its latch already and does not learn of a drop.         *)
Announced ==
  /\ step = "announce"
  /\ \/ heard' = outcome.type /\ muted' = FALSE
     \/ GateSuppresses /\ muted' = TRUE /\ UNCHANGED heard
  /\ step' = "beat"
  /\ UNCHANGED <<trackerVars, feed, up, answer, health>>

(* The heartbeat: the tracker's fields, and the alarms of this answer, or  *)
(* none if there was no answer.                                            *)
AlarmsShown == IF answer = NoError THEN prevIds ELSE {}
Report == [reachable |-> lastReachable, failures |-> consecutiveFailures,
           error |-> lastErrorCode, alarms |-> AlarmsShown]

SilentOnFailure == health' = IF answer = NoError THEN Report ELSE health
SendHealth == health' = Report

Beat ==
  /\ step = "beat"
  /\ SendHealth
  /\ step' = "poll"
  /\ UNCHANGED <<trackerVars, feed, up, answer, heard, muted>>

ChassisOrTime ==
  /\ \/ up' = ~up /\ UNCHANGED <<trackerVars, feed>>
     \/ (\E a \in AlarmIds : ChassisRaisesOrClears(a)) /\ UNCHANGED <<trackerVars, up>>
     \/ RefreshAges /\ UNCHANGED <<trackerVars, up>>
     \/ ClockTicks /\ UNCHANGED <<feed, up>>
  /\ UNCHANGED tick

Poller ==
  \/ PollAnswered
  \/ \E code \in ErrorCodes : PollFailed(code)
  \/ EmitAlarmEvent
  \/ Record
  \/ Announced
  \/ Beat

TickNext == Poller \/ ChassisOrTime

(* The interval keeps firing and every await of the tick ends.             *)
TickSpec == TickInit /\ [][TickNext]_tickVars /\ WF_tickVars(Poller)

-----------------------------------------------------------------------------
Healths ==
  [reachable : BOOLEAN, failures : Nat, error : ErrorCodes \cup {NoError},
   alarms : SUBSET AlarmIds]

TickTypeOK ==
  /\ TrackerTypeOK
  /\ FeedTypeOK
  /\ up \in BOOLEAN
  /\ step \in {"poll", "events", "announce", "beat"}
  /\ answer \in ErrorCodes \cup {NoError}
  /\ heard \in {"none", "BecameUnreachable", "Recovered"}
  /\ muted \in BOOLEAN
  /\ health \in Healths \cup {NoHealth}

(* Inside the tick the tracker and the alarm feed take only the steps of   *)
(* their own modules, so all that is shown of them holds here.             *)
ComponentsImplemented == TrackerSpec /\ FeedSpec

(* Unless the gate dropped the last target event, "unreachable" is the     *)
(* last the manager heard exactly while the heartbeats show an outage that *)
(* was announced: no unreachable target is left standing by the events     *)
(* once a heartbeat says reachable, nor taken back while one says not.     *)
TargetViewsAgree ==
  step = "poll" /\ health # NoHealth /\ ~muted =>
    (heard = "BecameUnreachable"
       <=> ~health.reachable /\ announced = "BecameUnreachable")

(* Between ticks the alarms of the heartbeat and the alarms known from the *)
(* events differ by suppressed events and swallowed clears only; during a  *)
(* failure streak the heartbeat shows no alarms but an error, whatever is  *)
(* stored, so the blank list never looks like the all-clear.               *)
AlarmViewsAgree ==
  step = "poll" /\ health # NoHealth =>
    /\ health.failures = 0 => /\ health.error = NoError
                              /\ health.alarms \ told \subseteq unsent
                              /\ told \ health.alarms \subseteq unsent \cup wiped
    /\ health.failures > 0 => health.alarms = {} /\ health.error \in ErrorCodes

(* At the end of a tick what the events said and what the heartbeat says   *)
(* of target and alarms differ only in what the gate dropped or a refresh  *)
(* swallowed, and such a gap, which may last, is known for what it is.     *)
ViewsAgree == TargetViewsAgree /\ AlarmViewsAgree

(* Even if the gate drops every event, heartbeats tell the truth in the    *)
(* end: of a chassis that stays away, and of each alarm on one that stays. *)
Shown(a) == health # NoHealth /\ health.reachable /\ a \in health.alarms
NotShown(a) == health # NoHealth /\ health.reachable /\ a \notin health.alarms

HeartbeatTellsTruth ==
  /\ <>[]~up => <>[](health # NoHealth /\ ~health.reachable)
  /\ \A a \in AlarmIds : /\ <>[](up /\ a \in active) => <>[]Shown(a)
                         /\ <>[](up /\ a \notin active) => <>[]NotShown(a)
=============================================================================
