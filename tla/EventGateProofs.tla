---------------------------- MODULE EventGateProofs ----------------------------
(***************************************************************************)
(* Proofs about EventGate for any number of emitters, limit, window and    *)
(* lock delay.  What a stale clock reading may do to the window hangs on   *)
(* how stale it is: StaleInv bounds every reading, and the start of the    *)
(* window, from both sides by the real clock.                              *)
(***************************************************************************)
EXTENDS EventGate, TLAPS

StaleInv ==
  /\ \A e \in Emitters : reading[e] # NotChecking =>
       reading[e] <= clock /\ clock - reading[e] <= MaxStale
  /\ windowStart <= openedAt
  /\ openedAt - windowStart <= MaxStale

(* The events that earlier windows admitted.                               *)
Before == admittedBy[clock] - accepted

(* A burst is counted between two seconds, a window from its opening to    *)
(* the next.  What ties them: by any second since the window opened all of *)
(* Before was admitted, and by any second of the window length before that *)
(* all but what one earlier window may admit.                              *)
BurstInv ==
  /\ clock \in Seconds /\ openedAt <= clock
  /\ Before >= 0
  /\ \A s \in Seconds : s >= clock => admittedBy[s] = admittedBy[clock]
  /\ \A s \in Seconds : s >= openedAt => admittedBy[s] >= Before
  /\ \A s \in Seconds :
       s >= openedAt - (Window - MaxStale) => Before - admittedBy[s] <= Limit

Inv == TypeOK /\ DropsAccounted /\ StaleInv

LEMMA InitInv == Init => Inv
  <1> SUFFICES ASSUME Init PROVE Inv
    OBVIOUS
  <1>1. TypeOK
    <2>1. warned \in BOOLEAN
      BY Zenon DEF Init
    <2> QED
      BY <2>1, EventGateAssumption DEF Init, TypeOK, NotChecking
  <1>2. DropsAccounted
    BY DEF Init, DropsAccounted
  <1>3. StaleInv
    BY EventGateAssumption DEF Init, StaleInv, NotChecking
  <1> QED
    BY <1>1, <1>2, <1>3 DEF Inv

(* Reading the clock neither admits nor drops anything.                    *)
LEMMA ReadClockInv == ASSUME Inv, NEW e \in Emitters, ReadClock(e) PROVE Inv'
  <1>1. TypeOK'
    BY DEF ReadClock, windowState, Inv, TypeOK
  <1>2. DropsAccounted'
    BY DEF ReadClock, windowState, Inv, DropsAccounted
  <1>3. StaleInv'
    BY EventGateAssumption
       DEF ReadClock, windowState, Inv, StaleInv, TypeOK, NotChecking
  <1> QED
    BY <1>1, <1>2, <1>3 DEF Inv

(* One step per branch of the critical section.                            *)
LEMMA DecideInv == ASSUME Inv, NEW e \in Emitters, Decide(e) PROVE Inv'
  <1> USE EventGateAssumption
  <1>1. /\ clock' = clock /\ checks' = checks
        /\ reading' = [reading EXCEPT ![e] = NotChecking] /\ reading[e] # NotChecking
    BY DEF Decide
  <1> DEFINE more == [s \in Seconds |-> admittedBy[s] + IF s < clock THEN 0 ELSE 1]
  <1>2. more \in [Seconds -> Nat] /\ reading' \in [Emitters -> Nat] /\ reading[e] \in Nat \ {0}
    <2>1. admittedBy \in [Seconds -> Nat] /\ reading \in [Emitters -> Nat]
      BY DEF Inv, TypeOK
    <2> QED
      BY <1>1, <2>1 DEF NotChecking
  <1> HIDE DEF more
  <1>3. CASE RollsOver(reading[e])
    <2>1. /\ windowStart' = reading[e] /\ openedAt' = clock
          /\ reported' = reported + suppressed /\ warned' = FALSE
          /\ accepted' = 1 /\ suppressed' = 0 /\ dropped' = dropped
          /\ admittedBy' = more
      BY <1>3 DEF Decide, Admit, RolloverReport, more
    <2>2. TypeOK'
      <3>1. warned' \in BOOLEAN
        BY <2>1, Zenon
      <3>2. accepted' \in 0..Limit /\ suppressed' \in Nat /\ reported' \in Nat /\ dropped' \in Nat
        BY <2>1 DEF Inv, TypeOK
      <3> QED
        BY <1>1, <1>2, <2>1, <3>1, <3>2 DEF Inv, TypeOK
    <2>3. DropsAccounted'
      BY <2>1 DEF Inv, TypeOK, DropsAccounted
    <2>4. StaleInv'
      BY <1>1, <2>1 DEF Inv, TypeOK, StaleInv, NotChecking
    <2> QED
      BY <2>2, <2>3, <2>4 DEF Inv
  <1>4. CASE ~RollsOver(reading[e]) /\ HasQuota(accepted)
    <2>1. /\ windowStart' = windowStart /\ openedAt' = openedAt
          /\ reported' = reported /\ warned' = warned
          /\ accepted' = accepted + 1 /\ suppressed' = suppressed /\ dropped' = dropped
          /\ admittedBy' = more
          /\ accepted < Limit
      BY <1>4 DEF Decide, Admit, HasQuota, more
    <2>2. TypeOK'
      BY <1>1, <1>2, <2>1 DEF Inv, TypeOK
    <2>3. DropsAccounted'
      BY <2>1 DEF Inv, DropsAccounted
    <2>4. StaleInv'
      BY <1>1, <2>1 DEF Inv, TypeOK, StaleInv, NotChecking
    <2> QED
      BY <2>2, <2>3, <2>4 DEF Inv
  <1>5. CASE ~RollsOver(reading[e]) /\ ~HasQuota(accepted)
    <2>1. /\ windowStart' = windowStart /\ openedAt' = openedAt
          /\ reported' = reported /\ warned' = (warned \/ suppressed' = 1)
          /\ accepted' = accepted /\ suppressed' = suppressed + 1 /\ dropped' = dropped + 1
          /\ admittedBy' = admittedBy
      BY <1>5 DEF Decide, Suppress
    <2>2. TypeOK'
      <3>1. warned' \in BOOLEAN
        BY <2>1, Zenon
      <3>2. accepted' \in 0..Limit /\ suppressed' \in Nat /\ reported' \in Nat /\ dropped' \in Nat
        BY <2>1 DEF Inv, TypeOK
      <3> QED
        BY <1>1, <1>2, <2>1, <3>1, <3>2 DEF Inv, TypeOK
    <2>3. DropsAccounted'
      <3>1. dropped' = reported' + suppressed'
        BY <2>1 DEF Inv, TypeOK, DropsAccounted
      <3>2. suppressed > 0 \/ suppressed' = 1
        BY <2>1 DEF Inv, TypeOK
      <3>3. warned'
        BY <2>1, <3>2, Zenon DEF Inv, DropsAccounted
      <3> QED
        BY <3>1, <3>3 DEF DropsAccounted
    <2>4. StaleInv'
      BY <1>1, <2>1 DEF Inv, TypeOK, StaleInv, NotChecking
    <2> QED
      BY <2>2, <2>3, <2>4 DEF Inv
  <1> QED
    BY <1>3, <1>4, <1>5

(* The guard of Tick is what bounds the staleness of a reading.            *)
LEMMA TickInv == ASSUME Inv, Tick PROVE Inv'
  BY EventGateAssumption
     DEF Tick, windowState, history, Inv, TypeOK, DropsAccounted, StaleInv, NotChecking

LEMMA StepInv == Inv /\ [Next]_vars => Inv'
  <1> SUFFICES ASSUME Inv, [Next]_vars PROVE Inv'
    OBVIOUS
  <1>1. ASSUME NEW e \in Emitters, ReadClock(e) PROVE Inv'
    BY <1>1, ReadClockInv
  <1>2. ASSUME NEW e \in Emitters, Decide(e) PROVE Inv'
    BY <1>2, DecideInv
  <1>3. CASE Tick
    BY <1>3, TickInv
  <1>4. CASE UNCHANGED vars
    BY <1>4 DEF vars, windowState, history, Inv, TypeOK, DropsAccounted, StaleInv
  <1> QED
    BY <1>1, <1>2, <1>3, <1>4 DEF Next

LEMMA AlwaysInv == Spec => []Inv
  BY InitInv, StepInv, PTL DEF Spec

LEMMA InitBurst == Init => BurstInv /\ BurstBound
  BY EventGateAssumption DEF Init, BurstInv, BurstBound, Before, Seconds

(* Nothing is admitted by reading the clock, dropping an event or waiting. *)
LEMMA QuietBurst ==
  ASSUME Inv, BurstInv, BurstBound,
         admittedBy' = admittedBy, accepted' = accepted, openedAt' = openedAt,
         clock' \in Seconds, clock' >= clock
  PROVE  BurstInv' /\ BurstBound'
  <1>1. /\ clock \in Nat /\ openedAt \in Nat /\ accepted \in Nat
        /\ admittedBy \in [Seconds -> Nat] /\ clock' \in Nat
    BY EventGateAssumption DEF Inv, TypeOK, Seconds
  <1>2. admittedBy[clock'] = admittedBy[clock] /\ Before' = Before
    BY <1>1 DEF BurstInv, Before
  <1>3. BurstInv'
    BY <1>1, <1>2 DEF BurstInv, Seconds
  <1> QED
    BY <1>3 DEF BurstBound, Seconds

(* An event admitted in the current second; the window is the open one or  *)
(* a new one, which opens a window length after the other at the earliest. *)
LEMMA AdmitBurst ==
  ASSUME Inv, BurstInv, BurstBound, clock' = clock,
         admittedBy' = [s \in Seconds |-> admittedBy[s] + IF s < clock THEN 0 ELSE 1],
         \/ accepted' = accepted + 1 /\ accepted < Limit /\ openedAt' = openedAt
         \/ accepted' = 1 /\ openedAt' = clock /\ clock - openedAt >= Window - MaxStale
  PROVE  BurstInv' /\ BurstBound'
  <1> USE EventGateAssumption
  <1> DEFINE now   == admittedBy[clock]
             early == openedAt - (Window - MaxStale)
  <1>1. /\ clock \in Seconds /\ openedAt \in Nat /\ accepted \in 0..Limit
        /\ admittedBy \in [Seconds -> Nat] /\ Seconds \subseteq Nat
        /\ now \in Nat /\ early \in Int /\ Before \in Int /\ Before = now - accepted
    BY DEF Inv, TypeOK, BurstInv, Seconds, Before
  <1>2. /\ openedAt <= clock /\ Before >= 0
        /\ \A s \in Seconds : s >= clock => admittedBy[s] = now
        /\ \A s \in Seconds : s >= openedAt => admittedBy[s] >= Before
        /\ \A s \in Seconds : s >= early => Before - admittedBy[s] <= Limit
    BY DEF BurstInv
  <1>3. /\ \A s \in Seconds : admittedBy[s] \in Nat
        /\ \A s \in Seconds : s < clock => admittedBy'[s] = admittedBy[s]
        /\ \A s \in Seconds : s >= clock => admittedBy'[s] = now + 1
        /\ admittedBy'[clock] = now + 1
    BY <1>1, <1>2
  <1> HIDE DEF now, early
  <1>4. CASE accepted' = accepted + 1 /\ accepted < Limit /\ openedAt' = openedAt
    <2>1. Before' = Before
      BY <1>1, <1>3, <1>4 DEF Before
    <2>2. /\ \A s \in Seconds : s >= openedAt => admittedBy'[s] >= Before
          /\ \A s \in Seconds : s >= early => Before - admittedBy'[s] <= Limit
      BY <1>1, <1>2, <1>3
    <2>3. BurstInv'
      BY <1>1, <1>2, <1>3, <1>4, <2>1, <2>2 DEF BurstInv, early, Seconds
    <2>4. ASSUME NEW last \in Seconds, NEW first \in 0..last,
                 last - first <= Window - MaxStale
          PROVE  admittedBy'[last] - admittedBy'[first] <= 2 * Limit
      <3>1. first \in Seconds
        BY <2>4 DEF Seconds
      <3>2. CASE last < clock
        BY <1>1, <1>3, <2>4, <3>1, <3>2 DEF BurstBound
      <3>3. CASE last >= clock /\ first < clock
        <4>1. first >= early
          BY <1>1, <1>2, <2>4, <3>1, <3>3 DEF early
        <4>2. admittedBy[first] \in Nat /\ Before - admittedBy[first] <= Limit
          BY <1>2, <1>3, <3>1, <4>1
        <4> QED
          BY <1>1, <1>3, <1>4, <3>1, <3>3, <4>2
      <3>4. CASE first >= clock
        BY <1>1, <1>3, <2>4, <3>1, <3>4
      <3> QED
        BY <1>1, <3>1, <3>2, <3>3, <3>4
    <2> QED
      BY <2>3, <2>4 DEF BurstBound, Seconds
  <1>5. CASE accepted' = 1 /\ openedAt' = clock /\ clock - openedAt >= Window - MaxStale
    <2>1. Before' = now
      BY <1>1, <1>3, <1>5 DEF Before
    <2>2. ASSUME NEW s \in Seconds, s >= clock - (Window - MaxStale)
          PROVE  now - admittedBy'[s] <= Limit /\ now + 1 - admittedBy'[s] <= 2 * Limit
      <3>1. s >= openedAt
        BY <1>1, <1>5, <2>2
      <3>2. admittedBy[s] \in Nat /\ admittedBy[s] >= now - accepted
        BY <1>1, <1>2, <1>3, <3>1
      <3>3. CASE s < clock
        BY <1>1, <1>3, <3>2, <3>3
      <3>4. CASE s >= clock
        BY <1>1, <1>3, <3>4
      <3> QED
        BY <1>1, <3>3, <3>4
    <2>3. BurstInv'
      BY <1>1, <1>2, <1>3, <1>5, <2>1, <2>2 DEF BurstInv, Seconds
    <2>4. ASSUME NEW last \in Seconds, NEW first \in 0..last,
                 last - first <= Window - MaxStale
          PROVE  admittedBy'[last] - admittedBy'[first] <= 2 * Limit
      <3>1. first \in Seconds
        BY <2>4 DEF Seconds
      <3>2. CASE last < clock
        BY <1>1, <1>3, <2>4, <3>1, <3>2 DEF BurstBound
      <3>3. CASE last >= clock
        <4>1. first >= clock - (Window - MaxStale)
          BY <1>1, <2>4, <3>1, <3>3
        <4> QED
          BY <1>1, <1>3, <2>2, <3>1, <3>3, <4>1
      <3> QED
        BY <1>1, <3>2, <3>3
    <2> QED
      BY <2>3, <2>4 DEF BurstBound, Seconds
  <1> QED
    BY <1>4, <1>5

LEMMA StepBurst ==
  (Inv /\ BurstInv /\ BurstBound) /\ [Next]_vars => BurstInv' /\ BurstBound'
  <1> SUFFICES ASSUME Inv, BurstInv, BurstBound, [Next]_vars
               PROVE  BurstInv' /\ BurstBound'
    OBVIOUS
  <1> USE EventGateAssumption
  <1>0. clock \in Seconds /\ clock \in Nat
    BY DEF BurstInv, Inv, TypeOK
  <1>1. ASSUME NEW e \in Emitters, ReadClock(e) PROVE BurstInv' /\ BurstBound'
    BY <1>0, <1>1, QuietBurst DEF ReadClock, windowState
  <1>2. ASSUME NEW e \in Emitters, Decide(e) PROVE BurstInv' /\ BurstBound'
    <2>1. clock' = clock
      BY <1>2 DEF Decide
    <2>2. CASE RollsOver(reading[e])
      <3>1. /\ accepted' = 0 + 1 /\ openedAt' = clock
            /\ admittedBy' = [s \in Seconds |-> admittedBy[s] + IF s < clock THEN 0 ELSE 1]
        BY <1>2, <2>2 DEF Decide, Admit
      <3>2. clock - openedAt >= Window - MaxStale
        <4>1. reading[e] # NotChecking /\ reading[e] \in Nat
          BY <1>2 DEF Decide, Inv, TypeOK
        <4> QED
          BY <2>2, <4>1 DEF RollsOver, Inv, TypeOK, StaleInv
      <3> QED
        BY <2>1, <3>1, <3>2, AdmitBurst
    <2>3. CASE ~RollsOver(reading[e]) /\ HasQuota(accepted)
      BY <1>2, <2>1, <2>3, AdmitBurst DEF Decide, Admit, HasQuota
    <2>4. CASE ~RollsOver(reading[e]) /\ ~HasQuota(accepted)
      BY <1>0, <1>2, <2>1, <2>4, QuietBurst DEF Decide, Suppress
    <2> QED
      BY <2>2, <2>3, <2>4
  <1>3. CASE Tick
    BY <1>0, <1>3, QuietBurst DEF Tick, windowState, history, Seconds
  <1>4. CASE UNCHANGED vars
    BY <1>0, <1>4, QuietBurst DEF vars, windowState, history
  <1> QED
    BY <1>1, <1>2, <1>3, <1>4 DEF Next

-----------------------------------------------------------------------------
(* The window counters keep their types; accepted never exceeds the limit. *)
THEOREM TypeCorrect == Spec => []TypeOK
  BY AlwaysInv, PTL DEF Inv

(* However the emitters interleave, every drop is told or still counted.   *)
THEOREM NoDropForgotten == Spec => []DropsAccounted
  BY AlwaysInv, PTL DEF Inv

(* However the emitters interleave and however stale their readings, no   *)
(* third window's worth of events passes within one window length.         *)
THEOREM BurstsBounded == Spec => []BurstBound
  BY InitInv, StepInv, InitBurst, StepBurst, PTL DEF Spec

(* However stale the readings the emitters decide on, windows keep their   *)
(* distance.                                                               *)
THEOREM WindowsKeepDistance == Spec => WindowsSpaced
  <1> DEFINE Opens  == openedAt' # openedAt \/ windowStart' # windowStart
             Spaced == /\ windowStart' >= windowStart + Window
                       /\ openedAt' - openedAt >= Window - MaxStale
  <1>1. ASSUME Inv, [Next]_vars PROVE [Opens => Spaced]_vars
    <2> SUFFICES ASSUME Next, Opens PROVE Spaced
      BY <1>1
    <2>1. ASSUME NEW e \in Emitters, ReadClock(e) PROVE FALSE
      BY <2>1 DEF ReadClock, windowState
    <2>2. ASSUME NEW e \in Emitters, Decide(e) PROVE Spaced
      <3>1. RollsOver(reading[e]) /\ windowStart' = reading[e] /\ openedAt' = clock
        BY <2>2 DEF Decide
      <3>2. reading[e] # NotChecking /\ reading[e] \in Nat
        BY <2>2, <1>1 DEF Decide, Inv, TypeOK
      <3> QED
        BY <1>1, <3>1, <3>2, EventGateAssumption DEF RollsOver, Inv, TypeOK, StaleInv
    <2>3. CASE Tick
      BY <2>3 DEF Tick, windowState, history
    <2> QED
      BY <2>1, <2>2, <2>3 DEF Next
  <1> QED
    BY <1>1, AlwaysInv, PTL DEF Spec, WindowsSpaced
=============================================================================
