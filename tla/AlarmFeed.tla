------------------------------- MODULE AlarmFeed -------------------------------
(***************************************************************************)
(* Alarm events: set_alarms diffs each GetActiveAlarms answer against the  *)
(* one before (src/src/appear_x/state.rs:258-333), and the alarms poller   *)
(* emits one event per difference through the event gate                   *)
(* (src/src/appear_x/polling.rs:957-1037).  The next poll starts after the *)
(* last event was handed over.  A failed poll changes none of this.        *)
(*                                                                         *)
(* An alarm is its alarmId; the alarms without one never make an event.    *)
(* The refresh timer is an age in seconds, capped where it is compared.    *)
(***************************************************************************)
EXTENDS Integers

CONSTANTS
  AlarmIds,
  RefreshSecs,     (* alarms_refresh_interval_secs; 0 disables             *)
  GateSuppresses   (* may the event gate drop an event?                    *)

ASSUME AlarmFeedAssumption ==
  /\ RefreshSecs \in Nat
  /\ GateSuppresses \in BOOLEAN

VARIABLES
  active,        (* environment: the alarms active on the chassis          *)
  prevIds,       (* prev_alarm_ids                                         *)
  sinceRefresh,  (* now - last_alarm_refresh, or NeverRefreshed            *)
  raised,        (* new_alarms not yet emitted by the poll under way       *)
  cleared,       (* cleared_ids not yet emitted                            *)
  told,          (* history: what the manager believes from the events     *)
  unsent,        (* history: alarms whose last event the gate dropped      *)
  wiped          (* history: alarms cleared across a refresh               *)

feed == <<active, prevIds, sinceRefresh, raised, cleared, told, unsent, wiped>>

NeverRefreshed == -1

FeedInit ==
  /\ active \in SUBSET AlarmIds
  /\ prevIds = {}
  /\ sinceRefresh = NeverRefreshed
  /\ raised = {}
  /\ cleared = {}
  /\ told = {}
  /\ unsent = {}
  /\ wiped = {}

Idle == raised = {} /\ cleared = {}

-----------------------------------------------------------------------------
NeverDue == FALSE
RefreshDue == RefreshSecs > 0 /\ sinceRefresh = RefreshSecs

StampRefresh ==
  sinceRefresh' = IF RefreshDue \/ (RefreshSecs > 0 /\ sinceRefresh = NeverRefreshed)
                  THEN 0 ELSE sinceRefresh

(* new_alarms and cleared_ids of the answer ids against the set seen.       *)
SwappedDiff(ids, seen) == raised' = ids \ seen /\ cleared' = ids \cap seen
RaiseOnlyDiff(ids, seen) == raised' = ids \ seen /\ cleared' = {}
Diff(ids, seen) == raised' = ids \ seen /\ cleared' = seen \ ids

(* A successful poll: one critical section, which wipes the previous set   *)
(* before it diffs when a refresh is due.                                  *)
SetAlarms ==
  /\ Idle
  /\ StampRefresh
  /\ Diff(active, IF RefreshDue THEN {} ELSE prevIds)
  /\ prevIds' = active
  /\ wiped' = IF RefreshDue THEN (wiped \cup prevIds) \ active ELSE wiped \ active
  /\ UNCHANGED <<active, told, unsent>>

(* emit_gated_event for one event: raises first, then clears.              *)
EmitRaised(a) ==
  /\ a \in raised
  /\ raised' = raised \ {a}
  /\ \/ told' = told \cup {a} /\ unsent' = unsent \ {a}
     \/ GateSuppresses /\ unsent' = unsent \cup {a} /\ UNCHANGED told
  /\ UNCHANGED <<active, prevIds, sinceRefresh, cleared, wiped>>

EmitCleared(a) ==
  /\ raised = {}
  /\ a \in cleared
  /\ cleared' = cleared \ {a}
  /\ \/ told' = told \ {a} /\ unsent' = unsent \ {a}
     \/ GateSuppresses /\ unsent' = unsent \cup {a} /\ UNCHANGED told
  /\ UNCHANGED <<active, prevIds, sinceRefresh, raised, wiped>>

ChassisRaisesOrClears(a) ==
  /\ active' \in {active \cup {a}, active \ {a}}
  /\ UNCHANGED <<prevIds, sinceRefresh, raised, cleared, told, unsent, wiped>>

RefreshAges ==
  /\ sinceRefresh \in 0..(RefreshSecs - 1)
  /\ sinceRefresh' = sinceRefresh + 1
  /\ UNCHANGED <<active, prevIds, raised, cleared, told, unsent, wiped>>

FeedNext ==
  \/ SetAlarms
  \/ \E a \in AlarmIds : EmitRaised(a) \/ EmitCleared(a) \/ ChassisRaisesOrClears(a)
  \/ RefreshAges

FeedSpec == FeedInit /\ [][FeedNext]_feed

(* The poll interval keeps firing and time passes.  The gate reopens when  *)
(* its window ends, so an event proposed again and again is sent at last.  *)
SendRaised(a) == EmitRaised(a) /\ told' = told \cup {a} /\ unsent' = unsent \ {a}

FeedFairness ==
  /\ WF_feed(SetAlarms)
  /\ WF_feed(\E a \in AlarmIds : EmitRaised(a) \/ EmitCleared(a))
  /\ WF_feed(RefreshAges)
  /\ \A a \in AlarmIds : SF_feed(SendRaised(a))

FairFeedSpec == FeedSpec /\ FeedFairness

-----------------------------------------------------------------------------
(* The pending events of a poll are about that poll's answer.              *)
FeedTypeOK ==
  /\ active \subseteq AlarmIds
  /\ prevIds \subseteq AlarmIds
  /\ sinceRefresh \in 0..RefreshSecs \cup {NeverRefreshed}
  /\ raised \subseteq prevIds
  /\ cleared \subseteq AlarmIds \ prevIds
  /\ told \subseteq AlarmIds
  /\ unsent \subseteq AlarmIds
  /\ wiped \subseteq AlarmIds

(* The events implement the mirror: even with refreshes and suppressed     *)
(* events the manager is never told anything the last poll contradicts.    *)
Mirror == INSTANCE AlarmMirror WITH polled <- prevIds

NeverToldWrong == Mirror!Spec

(* Between polls every difference between what the manager believes and    *)
(* what was polled has one of two causes: an event the gate dropped, or a  *)
(* clear that fell together with a refresh.  Nothing else is ever lost.    *)
GapsExplained ==
  Idle => /\ prevIds \ told \subseteq unsent
          /\ told \ prevIds \subseteq unsent \cup wiped

(* With the refresh and the gate out of the way the mirror is exact.       *)
ExactMirror == Idle => told = prevIds

(* What the refresh is for: an alarm that stays active is known to the     *)
(* manager sooner or later, whatever events the gate dropped before.       *)
ChronicAlarmTold ==
  \A a \in AlarmIds : <>[](a \in active) => <>[](a \in told)

(* What state.rs:259-263 and config.rs:105 say: an alarm that is gone from *)
(* the answer is cleared, one event per transition.  So, with no event     *)
(* suppressed, no alarm stays raised for the manager between polls.        *)
NoStaleAlarm == Idle => told \subseteq prevIds
=============================================================================
