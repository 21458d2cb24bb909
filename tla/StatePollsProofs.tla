----------------------------- MODULE StatePollsProofs -----------------------------
(***************************************************************************)
(* Proofs about StatePolls, for any number of surfaces: type correctness,  *)
(* and that the surfaces whose loop runs the setter itself never go back,  *)
(* neither in the snapshot nor for the manager.                            *)
(***************************************************************************)
EXTENDS StatePolls, TLAPS

Shape ==
  /\ chassis \in [Surfaces -> Versions]
  /\ cancelled \in BOOLEAN
  /\ loop \in [Surfaces -> {"waiting", "polling", "ended"}]
  /\ emitting \in BOOLEAN
  /\ asked \in [Surfaces -> Versions]
  /\ slice \in [Surfaces -> Values]
  /\ flying \in [Surfaces -> [Values -> 0..MaxFlying]]
  /\ answered \in [Surfaces -> Values]
  /\ reported \in [Surfaces -> Values]

(* Nothing is newer than the chassis.                                      *)
NotAhead ==
  \A s \in Surfaces :
    /\ asked[s] <= chassis[s]
    /\ slice[s] <= chassis[s]
    /\ \A v \in Values : flying[s][v] > 0 => s \in Detached /\ v <= chassis[s]

(* A call under way cannot return anything older than the slice.           *)
Ordered ==
  \A s \in InOrder :
    /\ loop[s] = "polling" => slice[s] <= asked[s]
    /\ answered[s] <= slice[s]
    /\ reported[s] <= slice[s]

IInv == Shape /\ NotAhead /\ Ordered

-----------------------------------------------------------------------------
LEMMA InvInit == ASSUME StatePollsAssumption, Init PROVE IInv
<1>1. cancelled \in BOOLEAN /\ emitting \in BOOLEAN
  BY Zenon DEF Init
<1>2. Shape
  BY <1>1 DEF StatePollsAssumption, Init, Shape, Versions, Values, NoData
<1>3. NotAhead /\ Ordered
  BY DEF StatePollsAssumption, Init, NotAhead, Ordered, InOrder, Versions, Values, NoData
<1> QED
  BY <1>2, <1>3 DEF IInv

(* The versions of a surface are integers.                                 *)
LEMMA Numbers ==
  ASSUME StatePollsAssumption, Shape, NEW s \in Surfaces
  PROVE  /\ chassis[s] \in Nat /\ asked[s] \in Nat
         /\ slice[s] \in Int /\ answered[s] \in Int /\ reported[s] \in Int
         /\ slice[s] >= NoData
BY DEF StatePollsAssumption, Shape, Values, Versions, NoData

(* One count of the setters in flight is changed.                          *)
LEMMA CountChanged ==
  ASSUME Shape, NEW s \in Surfaces, NEW v \in Values, NEW k \in 0..MaxFlying,
         flying' = [flying EXCEPT ![s][v] = k]
  PROVE  /\ flying' \in [Surfaces -> [Values -> 0..MaxFlying]]
         /\ \A r \in Surfaces \ {s} : flying'[r] = flying[r]
         /\ \A w \in Values \ {v} : flying'[s][w] = flying[s][w]
<1>1. flying' = [flying EXCEPT ![s] = [flying[s] EXCEPT ![v] = k]]
  OBVIOUS
<1>2. [flying[s] EXCEPT ![v] = k] \in [Values -> 0..MaxFlying]
  BY DEF Shape
<1>3. flying \in [Surfaces -> [Values -> 0..MaxFlying]]
  BY DEF Shape
<1>4. flying'[s] = [flying[s] EXCEPT ![v] = k]
  BY <1>1, <1>3
<1>5. flying[s] \in [Values -> 0..MaxFlying]
  BY <1>3
<1> QED
  BY <1>1, <1>2, <1>3, <1>4, <1>5

(* What Apply does to the two variables it touches.                        *)
LEMMA ApplyShape ==
  ASSUME StatePollsAssumption, Shape, NEW s \in Surfaces, NEW v \in Values, Apply(s, v)
  PROVE  /\ slice' \in [Surfaces -> Values]
         /\ flying' \in [Surfaces -> [Values -> 0..MaxFlying]]
         /\ \A r \in Surfaces \ {s} : slice'[r] = slice[r] /\ flying'[r] = flying[r]
         /\ s \in Detached => slice'[s] = slice[s]
         /\ s \notin Detached => slice'[s] = v /\ flying'[s] = flying[s]
         /\ \A w \in Values : flying'[s][w] > 0 => flying[s][w] > 0 \/ w = v
<1>1. CASE s \in Detached
  <2>1. slice' = slice /\ flying' = [flying EXCEPT ![s][v] = flying[s][v] + 1]
    BY <1>1 DEF Apply, SpawnSetter
  <2>2. flying[s][v] + 1 \in 0..MaxFlying
    BY <1>1 DEF StatePollsAssumption, Shape, Apply, SpawnSetter
  <2>3. /\ flying' \in [Surfaces -> [Values -> 0..MaxFlying]]
        /\ \A r \in Surfaces \ {s} : flying'[r] = flying[r]
        /\ \A w \in Values \ {v} : flying'[s][w] = flying[s][w]
    BY <2>1, <2>2, CountChanged
  <2> QED
    BY <1>1, <2>1, <2>3 DEF Shape
<1>2. CASE s \notin Detached
  BY <1>2 DEF Shape, Apply, SetSlice
<1> QED
  BY <1>1, <1>2

LEMMA InvStep ==
  ASSUME StatePollsAssumption, IInv, [Next]_vars
  PROVE  IInv'
<1> USE DEF Versions, NoData, shutdown
<1>1. CASE UNCHANGED vars
  BY <1>1 DEF IInv, Shape, NotAhead, Ordered, vars, InOrder
<1>2. ASSUME NEW s \in Surfaces, ChassisChanges(s) PROVE IInv'
  <2>1. /\ chassis' = [chassis EXCEPT ![s] = chassis[s] + 1]
        /\ chassis[s] < MaxVersion
        /\ UNCHANGED <<shutdown, loop, asked, slice, flying, answered, reported>>
    BY <1>2 DEF ChassisChanges
  <2>2. Shape'
    BY <2>1 DEF StatePollsAssumption, IInv, Shape
  <2>3. \A r \in Surfaces : chassis'[r] >= chassis[r] /\ chassis[r] \in Nat /\ chassis'[r] \in Nat
    BY <2>1, Numbers DEF IInv, Shape
  <2>4. NotAhead'
    <3> SUFFICES ASSUME NEW r \in Surfaces
                 PROVE  /\ asked[r] <= chassis'[r]
                        /\ slice[r] <= chassis'[r]
                        /\ \A v \in Values : flying[r][v] > 0 => r \in Detached /\ v <= chassis'[r]
      BY <2>1 DEF NotAhead
    <3>1. asked[r] <= chassis'[r] /\ slice[r] <= chassis'[r]
      BY <2>3, Numbers DEF IInv, NotAhead
    <3>2. ASSUME NEW v \in Values, flying[r][v] > 0 PROVE r \in Detached /\ v <= chassis'[r]
      BY <3>2, <2>3 DEF IInv, NotAhead, Values, StatePollsAssumption
    <3> QED
      BY <3>1, <3>2
  <2>5. Ordered'
    BY <2>1 DEF IInv, Ordered
  <2> QED
    BY <2>2, <2>4, <2>5 DEF IInv
<1>3. ASSUME NEW s \in Surfaces, BeginPoll(s) PROVE IInv'
  <2>1. /\ loop' = [loop EXCEPT ![s] = "polling"]
        /\ asked' = [asked EXCEPT ![s] = chassis[s]]
        /\ UNCHANGED <<chassis, shutdown, slice, flying, answered, reported>>
    BY <1>3 DEF BeginPoll
  <2>2. Shape'
    BY <2>1 DEF IInv, Shape
  <2>3. NotAhead'
    BY <2>1, Numbers DEF IInv, Shape, NotAhead
  <2>4. Ordered'
    BY <2>1 DEF IInv, Shape, NotAhead, Ordered, InOrder
  <2> QED
    BY <2>2, <2>3, <2>4 DEF IInv
<1>4. ASSUME NEW s \in Surfaces, PollAnswered(s) PROVE IInv'
  <2>1. PICK v \in asked[s]..chassis[s] : Apply(s, v)
    BY <1>4 DEF PollAnswered
  <2>2. v \in Values /\ v <= chassis[s] /\ v >= asked[s]
    BY <2>1 DEF StatePollsAssumption, IInv, Shape, Values
  <2>3. /\ loop' = [loop EXCEPT ![s] = "waiting"]
        /\ answered' = [answered EXCEPT ![s] = asked[s]]
        /\ UNCHANGED <<chassis, shutdown, asked, reported>>
        /\ loop[s] = "polling"
    BY <1>4 DEF PollAnswered
  <2>4. /\ slice' \in [Surfaces -> Values]
        /\ flying' \in [Surfaces -> [Values -> 0..MaxFlying]]
        /\ \A r \in Surfaces \ {s} : slice'[r] = slice[r] /\ flying'[r] = flying[r]
        /\ s \in Detached => slice'[s] = slice[s]
        /\ s \notin Detached => slice'[s] = v /\ flying'[s] = flying[s]
        /\ \A w \in Values : flying'[s][w] > 0 => flying[s][w] > 0 \/ w = v
    BY <2>1, <2>2, ApplyShape DEF IInv
  <2>5. Shape'
    BY <2>3, <2>4 DEF IInv, Shape, Values
  <2>6. NotAhead'
    <3> SUFFICES ASSUME NEW r \in Surfaces
                 PROVE  /\ asked[r] <= chassis[r]
                        /\ slice'[r] <= chassis[r]
                        /\ \A w \in Values : flying'[r][w] > 0 => r \in Detached /\ w <= chassis[r]
      BY <2>3 DEF NotAhead
    <3>1. CASE r # s
      BY <2>4, <3>1 DEF IInv, NotAhead
    <3>2. CASE r = s
      BY <2>2, <2>4, <3>2 DEF IInv, NotAhead
    <3> QED
      BY <3>1, <3>2
  <2>7. Ordered'
    <3> SUFFICES ASSUME NEW r \in InOrder
                 PROVE  /\ loop'[r] = "polling" => slice'[r] <= asked[r]
                        /\ answered'[r] <= slice'[r]
                        /\ reported[r] <= slice'[r]
      BY <2>3 DEF Ordered
    <3>1. CASE r # s
      <4>1. /\ r \in Surfaces /\ loop'[r] = loop[r]
            /\ slice'[r] = slice[r] /\ answered'[r] = answered[r]
        BY <2>3, <2>4, <3>1 DEF IInv, Shape, InOrder
      <4> QED
        BY <4>1 DEF IInv, Ordered
    <3>2. CASE r = s
      <4>1. loop'[s] = "waiting" /\ answered'[s] = asked[s] /\ slice'[s] = v
        BY <2>3, <2>4, <3>2 DEF IInv, Shape, InOrder
      <4>2. reported[s] <= slice[s] /\ slice[s] <= asked[s]
        BY <2>3, <3>2 DEF IInv, Ordered
      <4> QED
        BY <2>2, <3>2, <4>1, <4>2, Numbers DEF IInv, StatePollsAssumption, Values
    <3> QED
      BY <3>1, <3>2
  <2> QED
    BY <2>5, <2>6, <2>7 DEF IInv
<1>5. ASSUME NEW s \in Surfaces, PollFails(s) PROVE IInv'
  <2>1. /\ loop' = [loop EXCEPT ![s] = "waiting"]
        /\ UNCHANGED <<chassis, shutdown, asked, answered, reported>>
    BY <1>5 DEF PollFails, CarryOn
  <2>2. CASE s \in Tolerant
    <3>1. Apply(s, NoData) /\ NoData \in Values
      BY <1>5, <2>2 DEF PollFails, Values
    <3>2. /\ slice' \in [Surfaces -> Values]
          /\ flying' \in [Surfaces -> [Values -> 0..MaxFlying]]
          /\ \A r \in Surfaces \ {s} : slice'[r] = slice[r] /\ flying'[r] = flying[r]
          /\ s \in Detached => slice'[s] = slice[s]
          /\ s \notin Detached => slice'[s] = NoData /\ flying'[s] = flying[s]
          /\ \A w \in Values : flying'[s][w] > 0 => flying[s][w] > 0 \/ w = NoData
      BY <3>1, ApplyShape DEF IInv
    <3>3. Shape'
      BY <2>1, <3>2 DEF IInv, Shape
    <3>4. NotAhead'
      <4> SUFFICES ASSUME NEW r \in Surfaces
                   PROVE  /\ asked[r] <= chassis[r]
                          /\ slice'[r] <= chassis[r]
                          /\ \A w \in Values : flying'[r][w] > 0 => r \in Detached /\ w <= chassis[r]
        BY <2>1 DEF NotAhead
      <4>1. CASE r # s
        BY <3>2, <4>1 DEF IInv, NotAhead
      <4>2. CASE r = s
        <5>1. NoData <= chassis[s]
          BY Numbers DEF IInv
        <5> QED
          BY <3>2, <4>2, <5>1 DEF IInv, NotAhead
      <4> QED
        BY <4>1, <4>2
    <3>5. Ordered'
      BY <2>1, <2>2, <3>2 DEF IInv, Shape, Ordered, InOrder
    <3> QED
      BY <3>3, <3>4, <3>5 DEF IInv
  <2>3. CASE s \notin Tolerant
    <3>1. UNCHANGED <<slice, flying>>
      BY <1>5, <2>3 DEF PollFails
    <3> QED
      BY <2>1, <3>1 DEF IInv, Shape, NotAhead, Ordered, InOrder
  <2> QED
    BY <2>2, <2>3
<1>6. ASSUME NEW s \in Surfaces, NEW v \in Values, RunSetter(s, v) PROVE IInv'
  <2>1. /\ slice' = [slice EXCEPT ![s] = v]
        /\ flying' = [flying EXCEPT ![s][v] = flying[s][v] - 1]
        /\ UNCHANGED <<chassis, shutdown, loop, asked, answered, reported>>
        /\ flying[s][v] > 0
    BY <1>6 DEF RunSetter
  <2>2. flying[s][v] - 1 \in 0..MaxFlying
    BY <2>1 DEF StatePollsAssumption, IInv, Shape
  <2>3. /\ flying' \in [Surfaces -> [Values -> 0..MaxFlying]]
        /\ \A r \in Surfaces \ {s} : flying'[r] = flying[r]
        /\ \A w \in Values \ {v} : flying'[s][w] = flying[s][w]
    BY <2>1, <2>2, CountChanged DEF IInv
  <2>4. s \in Detached /\ v <= chassis[s]
    BY <2>1 DEF IInv, NotAhead
  <2>5. Shape'
    BY <2>1, <2>3 DEF IInv, Shape
  <2>6. NotAhead'
    BY <2>1, <2>3, <2>4 DEF IInv, Shape, NotAhead
  <2>7. Ordered'
    BY <2>1, <2>4 DEF IInv, Shape, Ordered, InOrder
  <2> QED
    BY <2>5, <2>6, <2>7 DEF IInv
<1>7. CASE EmitStats
  <2>1. reported' = slice /\ UNCHANGED <<chassis, shutdown, loop, asked, slice, flying, answered>>
    BY <1>7 DEF EmitStats
  <2>2. Shape'
    BY <2>1 DEF IInv, Shape
  <2>3. NotAhead'
    BY <2>1 DEF IInv, NotAhead
  <2>4. Ordered'
    BY <2>1, Numbers DEF IInv, Ordered, InOrder
  <2> QED
    BY <2>2, <2>3, <2>4 DEF IInv
<1>8. CASE Cancel
  BY <1>8 DEF Cancel, IInv, Shape, NotAhead, Ordered
<1>9. ASSUME NEW s \in Surfaces, LoopEnds(s) PROVE IInv'
  <2>1. /\ loop' = [loop EXCEPT ![s] = "ended"]
        /\ UNCHANGED <<chassis, shutdown, asked, slice, flying, answered, reported>>
    BY <1>9 DEF LoopEnds
  <2>2. Shape' /\ NotAhead'
    BY <2>1 DEF IInv, Shape, NotAhead
  <2>3. Ordered'
    BY <2>1 DEF IInv, Shape, Ordered, InOrder
  <2> QED
    BY <2>2, <2>3 DEF IInv
<1>10. CASE EmitterEnds
  BY <1>10 DEF EmitterEnds, IInv, Shape, NotAhead, Ordered
<1> QED
  BY <1>1, <1>2, <1>3, <1>4, <1>5, <1>6, <1>7, <1>8, <1>9, <1>10 DEF Next, Poll

LEMMA Invariance == Spec => []IInv
<1>1. Init => IInv
  BY StatePollsAssumption, InvInit
<1>2. IInv /\ [Next]_vars => IInv'
  BY StatePollsAssumption, InvStep
<1> QED
  BY <1>1, <1>2, PTL DEF Spec

-----------------------------------------------------------------------------
(* No slice is ahead of the chassis, and a loop that runs its setter       *)
(* itself leaves none behind in flight (state.rs:334-626).                 *)
THEOREM TypeCorrect == Spec => []TypeOK
<1>1. IInv => TypeOK
  <2> SUFFICES ASSUME IInv PROVE TypeOK
    OBVIOUS
  <2>1. ASSUME NEW s \in Surfaces, s \notin Detached, NEW v \in Values PROVE flying[s][v] = 0
    BY <2>1, StatePollsAssumption DEF IInv, Shape, NotAhead, StatePollsAssumption
  <2> QED
    BY <2>1 DEF IInv, Shape, NotAhead, TypeOK
<1> QED
  BY <1>1, Invariance, PTL

(* The slices written by their own loop show at least what the last        *)
(* answered poll asked for, and the manager never sees them go back        *)
(* (polling.rs:883-904 and 1733-1746).                                     *)
THEOREM SlicesInOrder == Spec => NothingGoesBack
<1> DEFINE Forward == \A s \in InOrder : reported'[s] >= reported[s]
<1>1. IInv => AsNewAsLastPoll
  BY DEF IInv, Shape, Ordered, AsNewAsLastPoll, InOrder, Values, Versions, NoData
<1>2. IInv /\ [Next]_vars => [Forward]_vars
  <2> SUFFICES ASSUME IInv, Next PROVE Forward
    BY DEF Forward
  <2>1. CASE EmitStats
    BY <2>1 DEF EmitStats, IInv, Shape, Ordered, InOrder, Values, Versions, NoData
  <2>2. CASE UNCHANGED reported
    BY <2>2 DEF IInv, Shape, InOrder, Values, Versions, NoData
  <2>3. EmitStats \/ UNCHANGED reported
    BY DEF Next, ChassisChanges, Poll, BeginPoll, PollAnswered, PollFails, RunSetter,
           Cancel, LoopEnds, EmitterEnds
  <2> QED
    BY <2>1, <2>2, <2>3
<1> HIDE DEF Forward
<1>3. IInv' => AsNewAsLastPoll'
  BY <1>1, PTL
<1>4. IInv /\ IInv' /\ [Next]_vars => [AsNewAsLastPoll' /\ Forward]_vars
  BY <1>2, <1>3
<1>5. Spec => [][AsNewAsLastPoll' /\ Forward]_vars
  BY <1>4, Invariance, PTL DEF Spec
<1> QED
  BY <1>5 DEF NothingGoesBack, Forward
=============================================================================
