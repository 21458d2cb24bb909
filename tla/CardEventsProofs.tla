----------------------------- MODULE CardEventsProofs -----------------------------
(***************************************************************************)
(* Proofs about the synthetic events of a card.  The argument is that the  *)
(* history of events mirrors the last answer: what the manager was told is *)
(* bad exactly where the answer is beyond a threshold.  Each of the two    *)
(* directions needs the other at the edges, and both need the link between *)
(* the reading the code compares (Before) and the answer itself (Beyond).  *)
(***************************************************************************)
EXTENDS CardEvents, TLAPS

(* Nothing is told before the first answer, and a lock that was told is    *)
(* still there.                                                            *)
LockIsReal ==
  /\ status = NoStatus => told = [s \in Signals |-> "nothing"] /\ pending = {}
  /\ "ptp" \notin pending \cup unsent /\ told["ptp"] = "good" =>
       status # NoStatus /\ status.ptp = "LOCKED"

(* An event that is to come has a side to tell.                            *)
PendingIsMeasured == \A s \in pending : ReadSignals(status)[s] \in {"bad", "good"}

(* polling.rs:1513-1516: only edges fire.  An event never repeats what the *)
(* last one of that signal said, unless a reading vanished in between or   *)
(* the gate dropped one.                                                   *)
OnlyEdgesFire ==
  \A s \in pending \ (unsent \cup vanished) : told[s] # ReadSignals(status)[s]

IInv ==
  TypeOK /\ LockIsReal /\ PendingIsMeasured /\ BadIsTold /\ RecoveryIsTold /\ OnlyEdgesFire

(* What an answer says of a signal, and the reading the code takes of it.  *)
Over(card, signal) ==
  IF signal = "ptp" THEN card.ptp # "LOCKED" ELSE "bad" \in card[signal]

(* The reading is bad exactly where the answer is beyond the threshold.    *)
LEMMA ReadingIsFaithful ==
  ASSUME NEW card \in Statuses, NEW s \in Signals
  PROVE  /\ ReadSignals(card)[s] \in {"bad", "good", "none"}
         /\ ReadSignals(card)[s] = "bad" <=> Over(card, s)
         /\ s = "ptp" => ReadSignals(card)[s] # "none"
<1>1. CASE s = "ptp"
  BY <1>1 DEF ReadSignals, Locked, Over
<1>2. CASE s = "rx"
  BY <1>2 DEF ReadSignals, Worst, Over, Statuses
<1>3. CASE s = "temp"
  BY <1>3 DEF ReadSignals, Worst, Over, Statuses
<1> QED
  BY <1>1, <1>2, <1>3 DEF Signals

(* The reading the code keeps of the answer before is as faithful.         *)
LEMMA BeforeIsFaithful ==
  ASSUME TypeOK, NEW s \in Signals
  PROVE  /\ Before(s) \in {"bad", "good", "none"}
         /\ Before(s) = "bad" <=> Beyond(s)
         /\ s = "ptp" /\ status # NoStatus => Before(s) # "none"
<1>1. CASE status = NoStatus
  BY <1>1 DEF Before, Beyond
<1>2. CASE status # NoStatus
  <2>1. status \in Statuses
    BY <1>2 DEF TypeOK
  <2>2. Before(s) = ReadSignals(status)[s] /\ (Beyond(s) <=> Over(status, s))
    BY <1>2 DEF Before, Beyond, Over
  <2> QED
    BY <1>2, <2>1, <2>2, ReadingIsFaithful
<1> QED
  BY <1>1, <1>2

LEMMA Initially == Init => IInv
  BY NoStatusAssumption
  DEF Init, IInv, TypeOK, LockIsReal, PendingIsMeasured, BadIsTold, RecoveryIsTold,
      OnlyEdgesFire, Beyond, Signals

(* A poll of the card: the signals without an edge keep their side, those  *)
(* with one change it.                                                     *)
LEMMA PollStep ==
  ASSUME IInv, PollCard
  PROVE  IInv'
<1>1. PICK card \in Statuses :
        /\ status' = card
        /\ pending' = Edges(ReadSignals(card))
        /\ vanished' = vanished
             \cup {s \in Signals : Before(s) = "bad" /\ ReadSignals(card)[s] = "none"}
  BY DEF PollCard
<1>2. pending = {} /\ UNCHANGED <<told, unsent>>
  BY DEF PollCard
<1> DEFINE now == ReadSignals(card)
           edges == Edges(now)
<1>3. /\ status' \in Statuses /\ status' # NoStatus
      /\ \A s \in Signals : Beyond(s)' <=> Over(card, s)
  BY <1>1, NoStatusAssumption DEF Beyond, Over
<1>4. \A s \in Signals : /\ now[s] \in {"bad", "good", "none"}
                         /\ now[s] = "bad" <=> Over(card, s)
                         /\ s = "ptp" => now[s] # "none"
  BY ReadingIsFaithful
<1>5. \A s \in Signals : /\ Before(s) \in {"bad", "good", "none"}
                         /\ Before(s) = "bad" <=> Beyond(s)
                         /\ s = "ptp" /\ status # NoStatus => Before(s) # "none"
  BY BeforeIsFaithful DEF IInv
<1>6. \A s \in Signals : s \in edges <=>
        IF s = "ptp" THEN Before("ptp") \notin {"none", now["ptp"]}
        ELSE \/ now[s] = "bad" /\ Before(s) # "bad"
             \/ now[s] = "good" /\ Before(s) = "bad"
  BY DEF Edges, PtpEdge, LevelEdge, ReadSignals
<1>7. edges \subseteq Signals /\ "ptp" \in Signals
  BY DEF Edges, Signals
<1>8. /\ ReadSignals(status') = now
      /\ vanished' = vanished \cup {s \in Signals : Before(s) = "bad" /\ now[s] = "none"}
      /\ pending' = edges
  BY <1>1
<1> HIDE DEF now, edges
<1>9. TypeOK'
  <2>1. vanished' \subseteq {"rx", "temp"}
    BY <1>4, <1>8 DEF IInv, TypeOK, Signals
  <2> QED
    BY <1>2, <1>3, <1>7, <1>8, <2>1 DEF IInv, TypeOK
<1>10. PendingIsMeasured'
  BY <1>4, <1>6, <1>7, <1>8 DEF PendingIsMeasured
<1>11. BadIsTold'
  <2> SUFFICES ASSUME NEW s \in Signals, s \notin edges, s \notin unsent, Over(card, s)
               PROVE  told[s] = "bad" \/ (s = "ptp" /\ told[s] = "nothing")
    BY <1>2, <1>3, <1>8 DEF BadIsTold
  <2>1. now[s] = "bad"
    BY <1>4
  <2>2. CASE status = NoStatus /\ s = "ptp"
    BY <2>2 DEF IInv, LockIsReal
  <2>3. CASE ~(status = NoStatus /\ s = "ptp")
    <3>1. Before(s) = "bad"
      BY <2>1, <2>3, <1>5, <1>6
    <3> QED
      BY <3>1, <1>2, <1>5 DEF IInv, BadIsTold
  <2> QED
    BY <2>2, <2>3
<1>12. RecoveryIsTold'
  <2> SUFFICES ASSUME NEW s \in Signals, s \notin edges, s \notin unsent, s \notin vanished',
                      ~Over(card, s)
               PROVE  told[s] # "bad"
    BY <1>2, <1>3, <1>8 DEF RecoveryIsTold
  <2>1. now[s] # "bad" /\ s \notin vanished /\ ~(Before(s) = "bad" /\ now[s] = "none")
    BY <1>4, <1>8
  <2>2. Before(s) # "bad"
    BY <2>1, <1>4, <1>6
  <2> QED
    BY <2>1, <2>2, <1>2, <1>5 DEF IInv, RecoveryIsTold
<1>13. LockIsReal'
  <2> SUFFICES ASSUME "ptp" \notin edges, "ptp" \notin unsent, told["ptp"] = "good"
               PROVE  status'.ptp = "LOCKED"
    BY <1>2, <1>3, <1>8 DEF LockIsReal
  <2>1. status # NoStatus /\ ~Beyond("ptp")
    BY <1>2 DEF IInv, LockIsReal, Beyond
  <2>2. now["ptp"] # "bad"
    BY <2>1, <1>5, <1>6, <1>7
  <2> QED
    BY <2>2, <1>1, <1>4, <1>7 DEF Over
<1>14. OnlyEdgesFire'
  <2> SUFFICES ASSUME NEW s \in edges, s \notin unsent, s \notin vanished'
               PROVE  told[s] # now[s]
    BY <1>2, <1>8 DEF OnlyEdgesFire
  <2>1. s \in Signals /\ s \notin vanished
    BY <1>7, <1>8
  <2>2. Beyond(s) => told[s] = "bad" \/ (s = "ptp" /\ told[s] = "nothing")
    BY <2>1, <1>2 DEF IInv, BadIsTold
  <2>3. ~Beyond(s) => told[s] # "bad"
    BY <2>1, <1>2 DEF IInv, RecoveryIsTold
  <2> QED
    BY <2>1, <2>2, <2>3, <1>4, <1>5, <1>6
<1> QED
  BY <1>9, <1>10, <1>11, <1>12, <1>13, <1>14 DEF IInv

(* An event: its signal is told the side of the answer, or is unsent.      *)
LEMMA EmitStep ==
  ASSUME IInv, NEW s \in Signals, EmitEvent(s)
  PROVE  IInv'
<1> DEFINE now == ReadSignals(status)
<1>1. /\ s \in pending /\ UNCHANGED status
      /\ pending' = pending \ {s} /\ vanished' = vanished \ {s}
  BY DEF EmitEvent
<1>2. \/ told' = [told EXCEPT ![s] = now[s]] /\ unsent' = unsent \ {s}
      \/ told' = told /\ unsent' = unsent \cup {s}
  BY DEF EmitEvent
<1>3. status \in Statuses /\ status # NoStatus /\ now[s] \in {"bad", "good"}
  BY <1>1 DEF IInv, LockIsReal, PendingIsMeasured, TypeOK
<1>4. \A u \in Signals : /\ Beyond(u)' <=> Beyond(u)
                         /\ Beyond(u) <=> Over(status, u)
                         /\ now[u] = "bad" <=> Over(status, u)
  BY <1>1, <1>3, ReadingIsFaithful DEF Beyond, Over
<1>5. told \in [Signals -> {"nothing", "bad", "good"}] /\ unsent \subseteq Signals
  BY DEF IInv, TypeOK
<1>6. ReadSignals(status') = now
  BY <1>1
<1> HIDE DEF now
<1>7. TypeOK'
  BY <1>1, <1>2, <1>3, <1>5 DEF IInv, TypeOK
<1>8. \A u \in Signals : /\ u # s => told'[u] = told[u] /\ (u \in unsent' <=> u \in unsent)
                         /\ u = s /\ u \notin unsent' => told'[u] = now[u]
  BY <1>2, <1>5
<1>9. BadIsTold' /\ RecoveryIsTold'
  BY <1>1, <1>3, <1>4, <1>8 DEF IInv, BadIsTold, RecoveryIsTold
<1>10. LockIsReal'
  <2> SUFFICES ASSUME "ptp" \notin pending' \cup unsent', told'["ptp"] = "good"
               PROVE  status.ptp = "LOCKED"
    BY <1>1, <1>3 DEF LockIsReal
  <2>1. "ptp" \in Signals
    BY DEF Signals
  <2>2. CASE s = "ptp"
    BY <2>1, <2>2, <1>3, <1>4, <1>8 DEF Over
  <2>3. CASE s # "ptp"
    BY <2>1, <2>3, <1>1, <1>8 DEF IInv, LockIsReal
  <2> QED
    BY <2>2, <2>3
<1>11. PendingIsMeasured'
  BY <1>1, <1>6 DEF IInv, PendingIsMeasured, now
<1>12. OnlyEdgesFire'
  <2> SUFFICES ASSUME NEW u \in pending', u \notin unsent', u \notin vanished'
               PROVE  told'[u] # now[u]
    BY <1>6 DEF OnlyEdgesFire
  <2>1. u \in pending /\ u # s /\ u \in Signals /\ u \notin vanished
    BY <1>1 DEF IInv, TypeOK
  <2> QED
    BY <2>1, <1>8 DEF IInv, OnlyEdgesFire, now
<1> QED
  BY <1>7, <1>9, <1>10, <1>11, <1>12 DEF IInv

LEMMA Inductive == IInv /\ [Next]_vars => IInv'
<1> SUFFICES ASSUME IInv, [Next]_vars PROVE IInv'
  OBVIOUS
<1>1. CASE PollCard
  BY <1>1, PollStep
<1>2. ASSUME NEW s \in Signals, EmitEvent(s) PROVE IInv'
  BY <1>2, EmitStep
<1>3. CASE UNCHANGED vars
  BY <1>3 DEF vars, IInv, TypeOK, LockIsReal, PendingIsMeasured, BadIsTold, RecoveryIsTold,
              OnlyEdgesFire, Beyond
<1> QED
  BY <1>1, <1>2, <1>3 DEF Next

LEMMA Invariance == Spec => []IInv
  BY Initially, Inductive, PTL DEF Spec

(* The state keeps its shape: only port readings vanish, never the lock.   *)
THEOREM TypeCorrect == Spec => []TypeOK
<1>1. IInv => TypeOK
  BY DEF IInv
<1> QED
  BY <1>1, Invariance, PTL

(* derive_card_status_events misses no crossing to the bad side, and takes *)
(* every alarm back that it can still measure.                             *)
THEOREM NoCrossingMissed == Spec => []CrossingsTold
<1>1. IInv => CrossingsTold
  BY DEF IInv, CrossingsTold
<1> QED
  BY <1>1, Invariance, PTL

(* The events and the stats agree on the PTP lock in both directions, up   *)
(* to the spelling (polling.rs:1621-1630, state.rs:904-921).               *)
THEOREM StatsShowTheLock == Spec => []EventsAgreeWithStats
<1>1. IInv => EventsAgreeWithStats
  <2> SUFFICES ASSUME IInv, "ptp" \notin pending \cup unsent
               PROVE  /\ told["ptp"] = "good" => HealthPtp(status) = "locked"
                      /\ told["ptp"] = "bad" /\ HealthPtp(status) = "locked" =>
                           status.ptp = "Locked"
    BY DEF EventsAgreeWithStats
  <2>1. told["ptp"] = "good" => HealthPtp(status) = "locked"
    BY DEF IInv, LockIsReal, HealthPtp
  <2>2. ASSUME told["ptp"] = "bad", HealthPtp(status) = "locked"
        PROVE  status.ptp = "Locked"
    <3>1. "ptp" \in Signals /\ "ptp" \notin vanished
      BY DEF IInv, TypeOK, Signals
    <3>2. Beyond("ptp")
      BY <2>2, <3>1 DEF IInv, RecoveryIsTold
    <3>3. status \in Statuses /\ status.ptp # "LOCKED"
      BY <3>2 DEF Beyond, IInv, TypeOK
    <3> QED
      BY <2>2, <3>3 DEF HealthPtp, Statuses
  <2> QED
    BY <2>1, <2>2
<1> QED
  BY <1>1, Invariance, PTL

(* No event repeats the one before it of the same signal.                  *)
THEOREM EdgesOnly == Spec => []OnlyEdgesFire
<1>1. IInv => OnlyEdgesFire
  BY DEF IInv
<1> QED
  BY <1>1, Invariance, PTL

(* A poll makes events for changed signals only.                           *)
LEMMA AnswerStep ==
  ASSUME IInv, PollCard
  PROVE  Mirror!Answer
<1>1. PICK card \in Statuses : status' = card /\ pending' = Edges(ReadSignals(card))
  BY DEF PollCard
<1> DEFINE now == ReadSignals(card)
           over == {s \in Signals : Beyond(s)}
<1>2. \A s \in Signals : /\ now[s] \in {"bad", "good", "none"}
                         /\ now[s] = "bad" <=> s \in over'
                         /\ s = "ptp" => now[s] # "none"
  <2>1. \A s \in Signals : Beyond(s)' <=> Over(card, s)
    BY <1>1, NoStatusAssumption DEF Beyond, Over
  <2> QED
    BY <2>1, ReadingIsFaithful
<1>3. \A s \in Signals : /\ Before(s) \in {"bad", "good", "none"}
                         /\ Before(s) = "bad" <=> s \in over
  BY BeforeIsFaithful DEF IInv
<1>4. /\ pending' \subseteq Signals
      /\ \A s \in pending' : IF s = "ptp" THEN Before("ptp") \notin {"none", now["ptp"]}
                             ELSE \/ now[s] = "bad" /\ Before(s) # "bad"
                                  \/ now[s] = "good" /\ Before(s) = "bad"
  BY <1>1 DEF Edges, PtpEdge, LevelEdge, ReadSignals
<1>5. over' \subseteq Signals
  OBVIOUS
<1> HIDE DEF now, over
<1>6. \A s \in pending' : s \in over <=> s \notin over'
  BY <1>2, <1>3, <1>4
<1>7. over' \in SUBSET Signals /\ pending' \in SUBSET {s \in Signals : s \in over <=> s \notin over'}
  BY <1>4, <1>5, <1>6
<1>8. pending = {} /\ UNCHANGED told
  BY DEF PollCard
<1> QED
  BY <1>7, <1>8 DEF Mirror!Answer, Mirror!Changed, over

(* The event of a signal says what the answer says.                        *)
LEMMA EventStep ==
  ASSUME IInv, NEW s \in Signals, EmitEvent(s)
  PROVE  Mirror!Event(s)
<1> DEFINE over == {u \in Signals : Beyond(u)}
<1>1. s \in pending /\ pending' = pending \ {s} /\ UNCHANGED status
  BY DEF EmitEvent
<1>2. over' = over
  BY <1>1 DEF Beyond
<1>3. status \in Statuses /\ ReadSignals(status)[s] \in {"bad", "good"}
  BY <1>1 DEF IInv, LockIsReal, PendingIsMeasured, TypeOK
<1>4. ReadSignals(status)[s] = IF s \in over THEN "bad" ELSE "good"
  BY <1>3, ReadingIsFaithful, NoStatusAssumption DEF Beyond, Over
<1>5. told' = [told EXCEPT ![s] = ReadSignals(status)[s]] \/ UNCHANGED told
  BY DEF EmitEvent
<1> HIDE DEF over
<1>6. told' = [told EXCEPT ![s] = IF s \in over THEN "bad" ELSE "good"] \/ UNCHANGED told
  BY <1>4, <1>5
<1> QED
  BY <1>1, <1>2, <1>6 DEF Mirror!Event, Mirror!Tell, Mirror!Drop, over

(* Refinement: derive_card_status_events makes an event only where the     *)
(* answer crosses a threshold, and the event says the truth.               *)
THEOREM EventsImplementMirror == Spec => EventsAreCrossings
<1>1. Init => Mirror!Init
  BY DEF Init, Mirror!Init, Beyond
<1>2. IInv /\ [Next]_vars => [Mirror!Next]_(Mirror!vars)
  <2> SUFFICES ASSUME IInv, [Next]_vars PROVE [Mirror!Next]_(Mirror!vars)
    OBVIOUS
  <2>1. CASE PollCard
    BY <2>1, AnswerStep DEF Mirror!Next
  <2>2. ASSUME NEW s \in Signals, EmitEvent(s) PROVE Mirror!Next
    BY <2>2, EventStep DEF Mirror!Next
  <2>3. CASE UNCHANGED vars
    BY <2>3 DEF vars, Mirror!vars, Beyond
  <2> QED
    BY <2>1, <2>2, <2>3 DEF Next
<1> QED
  BY <1>1, <1>2, Invariance, PTL DEF Spec, EventsAreCrossings, Mirror!Spec
=============================================================================
