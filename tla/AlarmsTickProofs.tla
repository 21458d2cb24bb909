--------------------------- MODULE AlarmsTickProofs ---------------------------
(***************************************************************************)
(* Proofs about the alarms poller, for every threshold, dwell time, set of *)
(* error codes, set of alarms and refresh interval.                        *)
(*                                                                         *)
(* First the tracker by itself.  HeartbeatConsistent is not inductive:     *)
(* whether a record_* call may fire depends on the latch and on the flip   *)
(* time, so TrackerInv ties both to the outage and to what has been        *)
(* announced.                                                              *)
(*                                                                         *)
(* Then the feed by itself: its events implement AlarmMirror, with or      *)
(* without a gate that suppresses.  FeedTypeOK is what the refinement      *)
(* needs: the pending events of a poll agree with the answer they were     *)
(* computed from, because no other poll starts before they are handed      *)
(* over.                                                                   *)
(*                                                                         *)
(* Last the tick.  It implements tracker and feed, so their invariants     *)
(* hold in it; TickInv adds how the heartbeat and the events heard follow  *)
(* from them at each point of the tick.                                    *)
(***************************************************************************)
EXTENDS AlarmsTick, TLAPS

(* Whoever was told "unreachable" is told "recovered" before a heartbeat   *)
(* says reachable again: the last announcement is never a stale alarm.     *)
NoStaleUnreachable == announced = "BecameUnreachable" => ~lastReachable

(* The flip time of an outage is its start, the latch of an outage is set  *)
(* exactly when it has been announced, and it is always set while up.      *)
LatchInv ==
  /\ lastSuccess <= clock
  /\ lastReachable => firedForState
  /\ ~lastReachable => lastStateFlip = unreachableSince
  /\ ~lastReachable => (firedForState <=> announced = "BecameUnreachable")

TrackerInv ==
  /\ TrackerTypeOK
  /\ HeartbeatConsistent
  /\ NoStaleUnreachable
  /\ LatchInv

LEMMA ThresholdPositive == Threshold \in Nat /\ Threshold >= 1
  BY ReachabilityAssumption DEF Threshold

LEMMA InitTrackerInv == TrackerInit => TrackerInv
  BY ThresholdPositive, ReachabilityAssumption
     DEF TrackerInit, TrackerInv, TrackerTypeOK, HeartbeatConsistent, NoStaleUnreachable, LatchInv, Outcomes, NoChange

(* What each branch of a failed poll writes.                               *)
LEMMA FailureInv ==
  ASSUME TrackerInv, NEW code \in ErrorCodes, NEW later \in {clock, clock + 1},
         RecordFailure(code, later)
  PROVE  TrackerInv'
  <1> DEFINE count == consecutiveFailures + 1
  <1> USE ThresholdPositive, ReachabilityAssumption
  <1>1. clock' \in Nat \ {0} /\ clock' >= clock /\ count \in Nat /\ count >= 1
    BY DEF RecordFailure, TrackerInv, TrackerTypeOK
  <1>2. /\ consecutiveFailures' = count /\ lastErrorCode' = code
        /\ lastSuccess' = lastSuccess /\ code # NoError
    BY DEF RecordFailure
  <1>3. CASE BelowThreshold(count)
    <2>1. /\ UNCHANGED <<lastReachable, unreachableSince, lastStateFlip, firedForState>>
          /\ outcome' = NoChange /\ announced' = announced
      BY <1>3 DEF RecordFailure, MaybeFireUnreachable, Announce, NoChange
    <2>2. lastReachable /\ count < Threshold
      BY <1>3, <1>1 DEF TrackerInv, TrackerTypeOK, HeartbeatConsistent, BelowThreshold
    <2> QED
      BY <1>1, <1>2, <2>1, <2>2
         DEF TrackerInv, TrackerTypeOK, HeartbeatConsistent, NoStaleUnreachable, LatchInv, Outcomes, NoChange
  <1>4. CASE ~BelowThreshold(count)
    <2> DEFINE flip  == IF lastReachable THEN clock ELSE lastStateFlip
               fired == IF lastReachable THEN FALSE ELSE firedForState
               fires == DwellOver(flip, later) /\ ~fired
    <2>1. /\ lastReachable' = FALSE /\ lastStateFlip' = flip
          /\ unreachableSince' = (IF lastReachable THEN clock ELSE unreachableSince)
          /\ firedForState' = (fired \/ fires)
          /\ outcome' = (IF fires THEN BecameUnreachable(count, code) ELSE NoChange)
          /\ announced' = (IF fires THEN "BecameUnreachable" ELSE announced)
      BY <1>4 DEF RecordFailure, MaybeFireUnreachable, Announce, BecameUnreachable, NoChange,
                  TrackerInv, TrackerTypeOK
    <2>2. ~(count < Threshold)
      BY <1>4 DEF BelowThreshold
    <2>3. outcome' \in Outcomes
      BY <1>1, <2>1 DEF Outcomes, BecameUnreachable, NoChange
    <2>4. firedForState' \in BOOLEAN /\ (fired => firedForState')
      BY <2>1 DEF TrackerInv, TrackerTypeOK
    <2>5. firedForState' <=> announced' = "BecameUnreachable"
      BY <2>1 DEF TrackerInv, NoStaleUnreachable, LatchInv
    <2>6. announced' \in {"none", "BecameUnreachable", "Recovered"}
      BY <2>1 DEF TrackerInv, TrackerTypeOK
    <2> HIDE DEF count, flip, fired, fires
    <2>7. unreachableSince' \in Nat \ {0} /\ lastSuccess' <= unreachableSince' /\ unreachableSince' <= clock'
      BY <1>1, <1>2, <2>1 DEF TrackerInv, TrackerTypeOK, HeartbeatConsistent, LatchInv
    <2>8. lastStateFlip' = unreachableSince'
      BY <2>1 DEF flip, TrackerInv, LatchInv
    <2>9. TrackerTypeOK'
      BY <1>1, <1>2, <2>1, <2>3, <2>4, <2>6, <2>7, <2>8 DEF TrackerInv, TrackerTypeOK
    <2>10. HeartbeatConsistent'
      BY <1>1, <1>2, <2>1, <2>2, <2>7 DEF HeartbeatConsistent
    <2> QED
      BY <1>1, <1>2, <2>1, <2>5, <2>7, <2>8, <2>9, <2>10 DEF TrackerInv, NoStaleUnreachable, LatchInv, TrackerTypeOK
  <1> QED
    BY <1>3, <1>4

LEMMA SuccessInv == ASSUME TrackerInv, RecordSuccess PROVE TrackerInv'
  <1> USE ThresholdPositive, ReachabilityAssumption
  <1>1. CASE lastReachable
    BY <1>1 DEF RecordSuccess, Announce, NoChange, TrackerInv, TrackerTypeOK, HeartbeatConsistent,
                NoStaleUnreachable, LatchInv, Outcomes
  <1>2. CASE ~lastReachable
    <2>1. /\ consecutiveFailures' = 0 /\ lastSuccess' = clock /\ lastErrorCode' = NoError
          /\ lastReachable' = TRUE /\ unreachableSince' = 0 /\ lastStateFlip' = clock
          /\ clock' = clock
          /\ outcome' = Recovered(clock - unreachableSince)
          /\ firedForState' = TRUE
          /\ announced' = "Recovered"
      BY <1>2 DEF RecordSuccess, MaybeFireRecovered, Downtime, Announce, Recovered, NoChange,
                  TrackerInv, TrackerTypeOK, HeartbeatConsistent
    <2>2. outcome' \in Outcomes
      BY <1>2, <2>1 DEF Outcomes, Recovered, TrackerInv, TrackerTypeOK, HeartbeatConsistent
    <2> QED
      BY <1>2, <2>1, <2>2
         DEF TrackerInv, TrackerTypeOK, HeartbeatConsistent, NoStaleUnreachable, LatchInv
  <1> QED
    BY <1>1, <1>2

LEMMA StepTrackerInv == TrackerInv /\ [TrackerNext]_trackerVars => TrackerInv'
  <1> SUFFICES ASSUME TrackerInv, [TrackerNext]_trackerVars PROVE TrackerInv'
    OBVIOUS
  <1>1. CASE RecordSuccess
    BY <1>1, SuccessInv
  <1>2. ASSUME NEW code \in ErrorCodes, NEW later \in {clock, clock + 1},
               RecordFailure(code, later)
        PROVE  TrackerInv'
    BY <1>2, FailureInv
  <1>3. CASE ClockTicks
    BY <1>3, ThresholdPositive
       DEF ClockTicks, tracker, TrackerInv, TrackerTypeOK, HeartbeatConsistent, NoStaleUnreachable, LatchInv
  <1>4. CASE UNCHANGED trackerVars
    BY <1>4, ThresholdPositive
       DEF trackerVars, tracker, TrackerInv, TrackerTypeOK, HeartbeatConsistent, NoStaleUnreachable, LatchInv
  <1> QED
    BY <1>1, <1>2, <1>3, <1>4 DEF TrackerNext

LEMMA AlwaysTrackerInv == TrackerSpec => []TrackerInv
  BY InitTrackerInv, StepTrackerInv, PTL DEF TrackerSpec

-----------------------------------------------------------------------------
(* Every variable of the tracker keeps its type; in particular a reported  *)
(* downtime is never negative while the clock does not step back.          *)
THEOREM TrackerTypeCorrect == TrackerSpec => []TrackerTypeOK
  BY AlwaysTrackerInv, PTL DEF TrackerInv

(* The fields of a heartbeat tell one story, whatever threshold, dwell     *)
(* time and polling rhythm are configured.                                 *)
THEOREM HeartbeatsConsistent == TrackerSpec => []HeartbeatConsistent
  BY AlwaysTrackerInv, PTL DEF TrackerInv

(* A target that was announced unreachable is never reported reachable     *)
(* without having been announced recovered.                                *)
THEOREM UnreachableIsRetracted == TrackerSpec => []NoStaleUnreachable
  BY AlwaysTrackerInv, PTL DEF TrackerInv

(* The latch fires target_unreachable at most once per outage, and after   *)
(* the dwell time, counted from the flip; any success since the flip would *)
(* have ended the outage.                                                  *)
THEOREM FiredOnceAndDwelled == TrackerSpec => UnreachableFiredRight
  <1> DEFINE Right == /\ announced # "BecameUnreachable"
                      /\ clock' - unreachableSince' >= EventDwell
                      /\ lastSuccess' <= unreachableSince'
  <1>1. ASSUME TrackerInv, TrackerInv', [TrackerNext]_trackerVars
        PROVE  [Fires("BecameUnreachable") => Right]_trackerVars
    <2> SUFFICES ASSUME TrackerNext, Fires("BecameUnreachable") PROVE Right
      BY <1>1
    <2>1. CASE RecordSuccess
      BY <2>1 DEF RecordSuccess, MaybeFireRecovered, Fires, NoChange, Recovered
    <2>2. ASSUME NEW code \in ErrorCodes, NEW later \in {clock, clock + 1},
                 RecordFailure(code, later)
          PROVE  Right
      <3>1. lastReachable' = FALSE /\ DwellOver(unreachableSince', later) /\ clock' = later
        BY <1>1, <2>2
           DEF RecordFailure, MaybeFireUnreachable, Fires, NoChange, TrackerInv, LatchInv
      <3>2. announced # "BecameUnreachable"
        BY <1>1, <2>2
           DEF RecordFailure, MaybeFireUnreachable, Fires, NoChange, TrackerInv, NoStaleUnreachable, LatchInv
      <3> QED
        BY <1>1, <3>1, <3>2 DEF DwellOver, TrackerInv, HeartbeatConsistent
    <2>3. CASE ClockTicks
      BY <2>3 DEF ClockTicks, tracker, Fires
    <2> QED
      BY <2>1, <2>2, <2>3 DEF TrackerNext
  <1> QED
    BY <1>1, AlwaysTrackerInv, PTL DEF TrackerSpec, UnreachableFiredRight

(* The first failed poll past the dwell time announces the outage.         *)
THEOREM OutagesAnnounced == TrackerSpec => OutageAnnounced
  <1> DEFINE Due == /\ consecutiveFailures' > consecutiveFailures /\ ~lastReachable'
                    /\ clock' - unreachableSince' >= EventDwell
  <1>1. ASSUME TrackerInv, TrackerInv', [TrackerNext]_trackerVars
        PROVE  [Due => announced' = "BecameUnreachable"]_trackerVars
    <2> SUFFICES ASSUME TrackerNext, Due PROVE announced' = "BecameUnreachable"
      BY <1>1
    <2>1. CASE RecordSuccess
      BY <2>1 DEF RecordSuccess
    <2>2. ASSUME NEW code \in ErrorCodes, NEW later \in {clock, clock + 1},
                 RecordFailure(code, later)
          PROVE  announced' = "BecameUnreachable"
      <3>1. lastStateFlip' = unreachableSince' /\ unreachableSince' # 0 /\ clock' = later
        BY <1>1, <2>2 DEF RecordFailure, TrackerInv, LatchInv, HeartbeatConsistent
      <3>2. DwellOver(lastStateFlip', later)
        BY <3>1 DEF DwellOver
      <3>3. firedForState'
        BY <1>1, <2>2, <3>2
           DEF RecordFailure, MaybeFireUnreachable, TrackerInv, TrackerTypeOK, HeartbeatConsistent, BelowThreshold
      <3> QED
        BY <1>1, <3>3 DEF TrackerInv, LatchInv
    <2>3. CASE ClockTicks
      BY <2>3, <1>1 DEF ClockTicks, tracker, TrackerInv, TrackerTypeOK
    <2> QED
      BY <2>1, <2>2, <2>3 DEF TrackerNext
  <1> QED
    BY <1>1, AlwaysTrackerInv, PTL DEF TrackerSpec, OutageAnnounced

-----------------------------------------------------------------------------
LEMMA InitFeedTypeOK == FeedInit => FeedTypeOK
  BY AlarmFeedAssumption DEF FeedInit, FeedTypeOK, NeverRefreshed

LEMMA SetAlarmsTypeOK == ASSUME FeedTypeOK, SetAlarms PROVE FeedTypeOK'
  <1>1. sinceRefresh' \in 0..RefreshSecs \cup {NeverRefreshed}
    BY AlarmFeedAssumption DEF SetAlarms, StampRefresh, FeedTypeOK
  <1>2. raised' \subseteq prevIds' /\ cleared' \subseteq AlarmIds \ prevIds'
    BY DEF SetAlarms, Diff, FeedTypeOK
  <1>3. wiped' \subseteq AlarmIds
    BY DEF SetAlarms, FeedTypeOK
  <1> QED
    BY <1>1, <1>2, <1>3 DEF SetAlarms, FeedTypeOK

LEMMA StepFeedTypeOK == FeedTypeOK /\ [FeedNext]_feed => FeedTypeOK'
  <1> SUFFICES ASSUME FeedTypeOK, [FeedNext]_feed PROVE FeedTypeOK'
    OBVIOUS
  <1>1. CASE SetAlarms
    BY <1>1, SetAlarmsTypeOK
  <1>2. ASSUME NEW a \in AlarmIds, EmitRaised(a) PROVE FeedTypeOK'
    BY <1>2 DEF EmitRaised, FeedTypeOK
  <1>3. ASSUME NEW a \in AlarmIds, EmitCleared(a) PROVE FeedTypeOK'
    BY <1>3 DEF EmitCleared, FeedTypeOK
  <1>4. ASSUME NEW a \in AlarmIds, ChassisRaisesOrClears(a) PROVE FeedTypeOK'
    BY <1>4 DEF ChassisRaisesOrClears, FeedTypeOK
  <1>5. CASE RefreshAges
    BY <1>5, AlarmFeedAssumption DEF RefreshAges, FeedTypeOK
  <1>6. CASE UNCHANGED feed
    BY <1>6 DEF feed, FeedTypeOK
  <1> QED
    BY <1>1, <1>2, <1>3, <1>4, <1>5, <1>6 DEF FeedNext

(* The sets of the feed keep their types, and pending raises and clears    *)
(* are about the last answer of the chassis.                               *)
THEOREM FeedTypeCorrect == FeedSpec => []FeedTypeOK
  BY InitFeedTypeOK, StepFeedTypeOK, PTL DEF FeedSpec

-----------------------------------------------------------------------------
LEMMA InitMirror == FeedInit => Mirror!Init
  BY DEF FeedInit, Mirror!Init

(* Each step of the feed is a step of the mirror or leaves it alone.       *)
LEMMA StepMirror == FeedTypeOK /\ [FeedNext]_feed => [Mirror!Next]_Mirror!vars
  <1> SUFFICES ASSUME FeedTypeOK, [FeedNext]_feed PROVE [Mirror!Next]_Mirror!vars
    OBVIOUS
  <1>1. CASE SetAlarms
    BY <1>1 DEF SetAlarms, FeedTypeOK, Mirror!Next, Mirror!Observe
  <1>2. ASSUME NEW a \in AlarmIds, EmitRaised(a) PROVE [Mirror!Next]_Mirror!vars
    <2>1. CASE told' = told \cup {a}
      BY <1>2, <2>1 DEF EmitRaised, FeedTypeOK, Mirror!Next, Mirror!TellRaised
    <2>2. CASE UNCHANGED told
      BY <1>2, <2>2 DEF EmitRaised, Mirror!vars
    <2> QED
      BY <1>2, <2>1, <2>2 DEF EmitRaised
  <1>3. ASSUME NEW a \in AlarmIds, EmitCleared(a) PROVE [Mirror!Next]_Mirror!vars
    <2>1. CASE told' = told \ {a}
      BY <1>3, <2>1 DEF EmitCleared, FeedTypeOK, Mirror!Next, Mirror!TellCleared
    <2>2. CASE UNCHANGED told
      BY <1>3, <2>2 DEF EmitCleared, Mirror!vars
    <2> QED
      BY <1>3, <2>1, <2>2 DEF EmitCleared
  <1>4. ASSUME NEW a \in AlarmIds, ChassisRaisesOrClears(a) PROVE [Mirror!Next]_Mirror!vars
    BY <1>4 DEF ChassisRaisesOrClears, Mirror!vars
  <1>5. CASE RefreshAges
    BY <1>5 DEF RefreshAges, Mirror!vars
  <1>6. CASE UNCHANGED feed
    BY <1>6 DEF feed, Mirror!vars
  <1> QED
    BY <1>1, <1>2, <1>3, <1>4, <1>5, <1>6 DEF FeedNext

(* The alarm events implement the mirror: the manager is never told        *)
(* anything the last answer of the chassis contradicts.                    *)
THEOREM FeedImplementsMirror == FeedSpec => NeverToldWrong
  BY InitMirror, StepMirror, FeedTypeCorrect, PTL DEF FeedSpec, NeverToldWrong, Mirror!Spec

-----------------------------------------------------------------------------
(* GapsExplained speaks of the poller between polls; during one, the gaps  *)
(* are also explained by the events still to be emitted.                   *)
GapInv ==
  /\ prevIds \ told \subseteq unsent \cup raised
  /\ told \ prevIds \subseteq unsent \cup wiped \cup cleared

LEMMA StepGapInv == FeedTypeOK /\ GapInv /\ [FeedNext]_feed => GapInv'
  <1> SUFFICES ASSUME FeedTypeOK, GapInv, [FeedNext]_feed PROVE GapInv'
    OBVIOUS
  <1>1. CASE SetAlarms
    <2>1. CASE RefreshDue
      BY <1>1, <2>1 DEF SetAlarms, Diff, Idle, GapInv
    <2>2. CASE ~RefreshDue
      BY <1>1, <2>2 DEF SetAlarms, Diff, Idle, GapInv
    <2> QED
      BY <2>1, <2>2
  <1>2. ASSUME NEW a \in AlarmIds, EmitRaised(a) PROVE GapInv'
    <2>1. a \in prevIds
      BY <1>2 DEF EmitRaised, FeedTypeOK
    <2> QED
      BY <1>2, <2>1 DEF EmitRaised, GapInv
  <1>3. ASSUME NEW a \in AlarmIds, EmitCleared(a) PROVE GapInv'
    <2>1. a \notin prevIds
      BY <1>3 DEF EmitCleared, FeedTypeOK
    <2> QED
      BY <1>3, <2>1 DEF EmitCleared, GapInv
  <1>4. ASSUME NEW a \in AlarmIds, ChassisRaisesOrClears(a) PROVE GapInv'
    BY <1>4 DEF ChassisRaisesOrClears, GapInv
  <1>5. CASE RefreshAges
    BY <1>5 DEF RefreshAges, GapInv
  <1>6. CASE UNCHANGED feed
    BY <1>6 DEF feed, GapInv
  <1> QED
    BY <1>1, <1>2, <1>3, <1>4, <1>5, <1>6 DEF FeedNext

LEMMA AlwaysGapInv == FeedSpec => []GapInv
  <1>1. FeedInit => GapInv
    BY DEF FeedInit, GapInv
  <1> QED
    BY <1>1, StepGapInv, FeedTypeCorrect, PTL DEF FeedSpec

(* Between polls nothing is lost but what the gate dropped and the clears  *)
(* that fell together with a refresh.                                      *)
THEOREM OnlyKnownGaps == FeedSpec => []GapsExplained
  <1>1. GapInv => GapsExplained
    BY DEF GapInv, GapsExplained, Idle
  <1> QED
    BY <1>1, AlwaysGapInv, PTL

(* With the refresh disabled and a gate that never suppresses there are no *)
(* such causes, and the mirror is exact between polls.                     *)
THEOREM ExactWithoutRefresh ==
  ASSUME RefreshSecs = 0, GateSuppresses = FALSE
  PROVE  FeedSpec => []ExactMirror
  <1> DEFINE NoCause == unsent = {} /\ wiped = {}
  <1>1. FeedInit => NoCause
    BY DEF FeedInit
  <1>2. NoCause /\ [FeedNext]_feed => NoCause'
    BY DEF FeedNext, feed, SetAlarms, EmitRaised, EmitCleared, ChassisRaisesOrClears, RefreshAges, RefreshDue
  <1>3. FeedSpec => []NoCause
    <2> HIDE DEF NoCause
    <2> QED
      BY <1>1, <1>2, PTL DEF FeedSpec
  <1>4. GapInv /\ NoCause => ExactMirror
    BY DEF GapInv, ExactMirror, Idle
  <1> QED
    <2> HIDE DEF NoCause
    <2> QED
      BY <1>3, <1>4, AlwaysGapInv, PTL

-----------------------------------------------------------------------------
(* The tick as an implementation of its two parts.                         *)
AnswerOK == answer \in ErrorCodes \cup {NoError}

LEMMA AnswerTyped == TickSpec => []AnswerOK
  <1>1. TickInit => AnswerOK
    BY DEF TickInit, AnswerOK
  <1>2. AnswerOK /\ [TickNext]_tickVars => AnswerOK'
    BY DEF AnswerOK, TickNext, Poller, PollAnswered, PollFailed, EmitAlarmEvent, Record,
           Announced, Beat, ChassisOrTime, tickVars, tick
  <1> QED
    BY <1>1, <1>2, PTL DEF TickSpec

(* Each step of the tick is a step of the tracker or leaves it alone.      *)
LEMMA StepTracker == AnswerOK /\ [TickNext]_tickVars => [TrackerNext]_trackerVars
  <1> SUFFICES ASSUME AnswerOK, [TickNext]_tickVars PROVE [TrackerNext]_trackerVars
    OBVIOUS
  <1>1. CASE Record
    BY <1>1, ReachabilityAssumption DEF Record, TrackerNext, AnswerOK
  <1>2. CASE ChassisOrTime
    BY <1>2 DEF ChassisOrTime, TrackerNext
  <1>3. CASE PollAnswered \/ EmitAlarmEvent \/ Announced \/ Beat
    BY <1>3 DEF PollAnswered, EmitAlarmEvent, Announced, Beat
  <1>4. ASSUME NEW code \in ErrorCodes, PollFailed(code) PROVE [TrackerNext]_trackerVars
    BY <1>4 DEF PollFailed
  <1>5. CASE UNCHANGED tickVars
    BY <1>5 DEF tickVars
  <1> QED
    BY <1>1, <1>2, <1>3, <1>4, <1>5 DEF TickNext, Poller

(* Each step of the tick is a step of the feed or leaves it alone.         *)
LEMMA StepFeed == [TickNext]_tickVars => [FeedNext]_feed
  <1> SUFFICES ASSUME [TickNext]_tickVars PROVE [FeedNext]_feed
    OBVIOUS
  <1>1. CASE PollAnswered
    BY <1>1 DEF PollAnswered, FeedNext
  <1>2. CASE EmitAlarmEvent
    BY <1>2 DEF EmitAlarmEvent, FeedNext
  <1>3. CASE ChassisOrTime
    BY <1>3 DEF ChassisOrTime, FeedNext
  <1>4. CASE Record \/ Announced \/ Beat
    BY <1>4 DEF Record, Announced, Beat
  <1>5. ASSUME NEW code \in ErrorCodes, PollFailed(code) PROVE [FeedNext]_feed
    BY <1>5 DEF PollFailed, KeepAlarms
  <1>6. CASE UNCHANGED tickVars
    BY <1>6 DEF tickVars
  <1> QED
    BY <1>1, <1>2, <1>3, <1>4, <1>5, <1>6 DEF TickNext, Poller

(* The order of the calls in the poller's closure respects both modules:   *)
(* all that is proved of tracker and feed holds of the poller.             *)
THEOREM TickImplementsParts == TickSpec => ComponentsImplemented
  <1>1. TickInit => TrackerInit /\ FeedInit
    BY DEF TickInit
  <1>2. TickSpec => TrackerSpec
    BY <1>1, StepTracker, AnswerTyped, PTL DEF TickSpec, TrackerSpec
  <1>3. TickSpec => FeedSpec
    BY <1>1, StepFeed, PTL DEF TickSpec, FeedSpec
  <1> QED
    BY <1>2, <1>3 DEF ComponentsImplemented

(* So the poller keeps what its parts promise, whatever order polls, gate  *)
(* and clock bring about: outages are announced once, after their dwell    *)
(* and not missed, heartbeats tell one story, and alarm events are never   *)
(* wrong and incomplete only for the known causes.                         *)
THEOREM PollerKeepsPromises ==
  TickSpec => /\ UnreachableFiredRight /\ OutageAnnounced /\ NeverToldWrong
              /\ [](HeartbeatConsistent /\ NoStaleUnreachable /\ GapsExplained)
  BY TickImplementsParts, FiredOnceAndDwelled, OutagesAnnounced, FeedImplementsMirror,
     HeartbeatsConsistent, UnreachableIsRetracted, OnlyKnownGaps, PTL
     DEF ComponentsImplemented

-----------------------------------------------------------------------------
(* Where the tick is, and what that says of the events heard, the answer   *)
(* of the call and the last heartbeat: between ticks the heartbeat is a    *)
(* copy of the tracker, and of the stored alarms unless the call failed.   *)
TickType ==
  /\ up \in BOOLEAN
  /\ step \in {"poll", "events", "announce", "beat"}
  /\ answer \in ErrorCodes \cup {NoError}
  /\ heard \in {"none", "BecameUnreachable", "Recovered"}
  /\ muted \in BOOLEAN

EventsInv ==
  /\ step # "events" => Idle
  /\ step = "announce" => outcome.type = announced /\ announced # "none"
  /\ step # "announce" /\ ~muted => heard = announced

Expected ==
  [reachable |-> lastReachable, failures |-> consecutiveFailures, error |-> lastErrorCode,
   alarms |-> IF consecutiveFailures = 0 THEN prevIds ELSE {}]

HealthInv ==
  /\ step \in {"announce", "beat"} => (answer = NoError <=> consecutiveFailures = 0)
  /\ step = "poll" /\ health # NoHealth => health = Expected
  /\ health \in Healths \cup {NoHealth}

TickInv == TickType /\ EventsInv /\ HealthInv

(* What is known of the parts at either end of a step.                     *)
Parts == TrackerInv /\ FeedTypeOK

LEMMA InitTickInv == TickInit => TickInv
  <1> SUFFICES ASSUME TickInit PROVE TickInv
    OBVIOUS
  <1>1. up \in BOOLEAN /\ muted \in BOOLEAN
    BY Zenon DEF TickInit
  <1> QED
    BY <1>1 DEF TickInit, TickInv, TickType, EventsInv, HealthInv, TrackerInit, FeedInit, Idle

(* The record_* call decides what is left to do in the tick.               *)
LEMMA RecordTickInv == ASSUME Parts, Parts', TickInv, Record PROVE TickInv'
  <1>1. UNCHANGED <<feed, up, answer, heard, muted, health>>
    BY DEF Record
  <1>2. step = "events" /\ Idle /\ Idle'
    BY <1>1 DEF Record, feed, Idle
  <1>3. step' = IF outcome'.type = "NoChange" THEN "beat" ELSE "announce"
    BY DEF Record
  <1>4. announced' = IF outcome'.type = "NoChange" THEN announced ELSE outcome'.type
    BY DEF Record, RecordSuccess, RecordFailure, Announce
  <1>5. outcome'.type \in {"NoChange", "BecameUnreachable", "Recovered"}
    BY DEF Parts, TrackerInv, TrackerTypeOK, Outcomes
  <1>6. answer = NoError <=> consecutiveFailures' = 0
    <2>1. CASE answer = NoError
      BY <2>1 DEF Record, RecordSuccess
    <2>2. CASE answer # NoError
      <3>1. PICK later \in {clock, clock + 1} : RecordFailure(answer, later)
        BY <2>2 DEF Record
      <3>2. consecutiveFailures' = consecutiveFailures + 1 /\ consecutiveFailures \in Nat
        BY <3>1 DEF RecordFailure, Parts, TrackerInv, TrackerTypeOK
      <3> QED
        BY <2>2, <3>2
    <2> QED
      BY <2>1, <2>2
  <1>7. TickType'
    BY <1>1, <1>3 DEF TickInv, TickType
  <1>8. EventsInv'
    BY <1>1, <1>2, <1>3, <1>4, <1>5 DEF TickInv, EventsInv
  <1>9. HealthInv'
    BY <1>1, <1>3, <1>6 DEF TickInv, HealthInv
  <1> QED
    BY <1>7, <1>8, <1>9 DEF TickInv

LEMMA BeatTickInv == ASSUME Parts, TickInv, Beat PROVE TickInv'
  <1>1. step = "beat" /\ step' = "poll" /\ health' = Report
    BY DEF Beat, SendHealth
  <1>2. UNCHANGED <<trackerVars, feed, up, answer, heard, muted>>
    BY DEF Beat
  <1>3. Report = Expected /\ Expected' = Expected
    BY <1>1, <1>2
       DEF Report, Expected, AlarmsShown, TickInv, HealthInv, trackerVars, tracker, feed
  <1>4. Expected \in Healths
    <2>1. lastReachable \in BOOLEAN /\ consecutiveFailures \in Nat
          /\ lastErrorCode \in ErrorCodes \cup {NoError} /\ prevIds \in SUBSET AlarmIds
      BY DEF Parts, TrackerInv, TrackerTypeOK, FeedTypeOK
    <2> QED
      BY <2>1 DEF Expected, Healths
  <1>5. TickType'
    BY <1>1, <1>2 DEF TickInv, TickType
  <1>6. EventsInv'
    BY <1>1, <1>2 DEF TickInv, EventsInv, Idle, trackerVars, tracker, feed
  <1>7. HealthInv'
    BY <1>1, <1>3, <1>4 DEF HealthInv
  <1> QED
    BY <1>5, <1>6, <1>7 DEF TickInv

LEMMA StepTickInv == Parts /\ Parts' /\ TickInv /\ [TickNext]_tickVars => TickInv'
  <1> SUFFICES ASSUME Parts, Parts', TickInv, [TickNext]_tickVars PROVE TickInv'
    OBVIOUS
  <1>1. CASE PollAnswered
    <2>1. step' = "events" /\ answer' = NoError /\ UNCHANGED <<trackerVars, up, heard, muted, health>>
      BY <1>1 DEF PollAnswered
    <2>2. step = "poll"
      BY <1>1 DEF PollAnswered
    <2> QED
      BY <2>1, <2>2 DEF TickInv, TickType, EventsInv, HealthInv, trackerVars, tracker
  <1>2. ASSUME NEW code \in ErrorCodes, PollFailed(code) PROVE TickInv'
    <2>1. step' = "events" /\ answer' = code /\ UNCHANGED <<trackerVars, up, heard, muted, health>>
      BY <1>2 DEF PollFailed
    <2>2. step = "poll"
      BY <1>2 DEF PollFailed
    <2> QED
      BY <2>1, <2>2 DEF TickInv, TickType, EventsInv, HealthInv, trackerVars, tracker
  <1>3. CASE EmitAlarmEvent
    <2>1. step = "events" /\ UNCHANGED <<trackerVars, up, tick>>
      BY <1>3 DEF EmitAlarmEvent
    <2> QED
      BY <2>1 DEF TickInv, TickType, EventsInv, HealthInv, trackerVars, tracker, tick
  <1>4. CASE Record
    BY <1>4, RecordTickInv
  <1>5. CASE Announced
    <2>1. step = "announce" /\ step' = "beat" /\ UNCHANGED <<trackerVars, feed, up, answer, health>>
      BY <1>5 DEF Announced
    <2>2. \/ heard' = outcome.type /\ muted' = FALSE
          \/ muted' = TRUE /\ UNCHANGED heard
      BY <1>5 DEF Announced
    <2>3. outcome.type = announced /\ announced \in {"BecameUnreachable", "Recovered"}
      BY <2>1 DEF TickInv, EventsInv, Parts, TrackerInv, TrackerTypeOK
    <2>4. TickType'
      BY <2>1, <2>2, <2>3 DEF TickInv, TickType
    <2>5. EventsInv'
      BY <2>1, <2>2, <2>3 DEF TickInv, EventsInv, Idle, trackerVars, tracker, feed
    <2>6. HealthInv'
      BY <2>1 DEF TickInv, HealthInv, trackerVars, tracker, feed
    <2> QED
      BY <2>4, <2>5, <2>6 DEF TickInv
  <1>6. CASE Beat
    BY <1>6, BeatTickInv
  <1>7. CASE ChassisOrTime
    <2>1. UNCHANGED tick /\ UNCHANGED tracker /\ up' \in BOOLEAN
      BY <1>7 DEF ChassisOrTime, ClockTicks, trackerVars, TickInv, TickType
    <2>2. UNCHANGED <<prevIds, raised, cleared>>
      BY <1>7 DEF ChassisOrTime, feed, ChassisRaisesOrClears, RefreshAges
    <2>3. Expected' = Expected
      BY <2>1, <2>2 DEF Expected, tracker
    <2> QED
      BY <2>1, <2>2, <2>3 DEF TickInv, TickType, EventsInv, HealthInv, tick, tracker, Idle
  <1>8. CASE UNCHANGED tickVars
    <2>1. UNCHANGED <<tick, tracker, up, feed>>
      BY <1>8 DEF tickVars, trackerVars
    <2>2. Expected' = Expected
      BY <2>1 DEF Expected, tracker, feed
    <2> QED
      BY <2>1, <2>2 DEF TickInv, TickType, EventsInv, HealthInv, tick, tracker, feed, Idle
  <1> QED
    BY <1>1, <1>2, <1>3, <1>4, <1>5, <1>6, <1>7, <1>8 DEF TickNext, Poller

LEMMA AlwaysTickInv == TickSpec => [](Parts /\ TickInv /\ GapsExplained)
  <1>1. TickSpec => [](Parts /\ GapsExplained)
    BY TickImplementsParts, AlwaysTrackerInv, FeedTypeCorrect, OnlyKnownGaps, PTL
       DEF ComponentsImplemented, Parts
  <1> QED
    BY <1>1, InitTickInv, StepTickInv, PTL DEF TickSpec

(* Every variable of the poller keeps its type, those of its parts too.    *)
THEOREM TickTypeCorrect == TickSpec => []TickTypeOK
  <1>1. Parts /\ TickInv => TickTypeOK
    BY DEF Parts, TrackerInv, TickInv, TickType, HealthInv, TickTypeOK
  <1> QED
    BY <1>1, AlwaysTickInv, PTL

(* What the manager makes of the target_* and alarm events and what the    *)
(* heartbeats say agree between ticks, up to events the gate dropped and   *)
(* clears that fell together with a refresh.                               *)
THEOREM ManagerViewsAgree == TickSpec => []ViewsAgree
  <1> SUFFICES ASSUME Parts, TickInv, GapsExplained PROVE ViewsAgree
    BY AlwaysTickInv, PTL
  <1> SUFFICES ASSUME step = "poll", health # NoHealth PROVE ViewsAgree
    BY DEF ViewsAgree, TargetViewsAgree, AlarmViewsAgree
  <1>1. /\ health.reachable = lastReachable /\ health.failures = consecutiveFailures
        /\ health.error = lastErrorCode
        /\ health.alarms = IF consecutiveFailures = 0 THEN prevIds ELSE {}
    BY DEF TickInv, HealthInv, Expected
  <1>2. Idle /\ (~muted => heard = announced)
    BY DEF TickInv, EventsInv
  <1>3. TargetViewsAgree
    BY <1>1, <1>2 DEF TargetViewsAgree, Parts, TrackerInv, NoStaleUnreachable
  <1>4. AlarmViewsAgree
    BY <1>1, <1>2
       DEF AlarmViewsAgree, GapsExplained, Parts, TrackerInv, TrackerTypeOK, HeartbeatConsistent
  <1> QED
    BY <1>3, <1>4 DEF ViewsAgree
=============================================================================
