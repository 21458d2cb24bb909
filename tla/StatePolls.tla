-------------------------------- MODULE StatePolls --------------------------------
(***************************************************************************)
(* The snapshot of the chassis (src/src/appear_x/state.rs): one poll loop  *)
(* per surface writes its slice (src/src/appear_x/polling.rs:1713-1750),   *)
(* and the stats emitter ships a consistent copy of all slices to the      *)
(* manager (polling.rs:883-904).                                           *)
(*                                                                         *)
(* A surface is one polled module, per slot or chassis-wide, and its data  *)
(* is a version number: how often the chassis changed it.  Some loops run  *)
(* the setter themselves; the others hand it to a task of its own.         *)
(***************************************************************************)
EXTENDS Integers

CONSTANTS
  Surfaces,
  Detached,     (* surfaces whose setter runs in a spawned task            *)
  Tolerant,     (* surfaces emptied by a failed poll: the pool surfaces    *)
  MaxVersion,   (* bound: changes of a surface                             *)
  MaxFlying     (* bound: setters of a surface not run yet, per version    *)

ASSUME StatePollsAssumption ==
  /\ Detached \subseteq Surfaces
  /\ Tolerant \subseteq Surfaces
  /\ MaxVersion \in Nat
  /\ MaxFlying \in Nat

VARIABLES
  chassis,    (* environment: the version of each surface                  *)
  cancelled,  (* the shutdown token                                        *)
  loop,       (* "waiting" for its tick, "polling" or "ended"             *)
  emitting,   (* does the stats emitter still run?                         *)
  asked,      (* history: the version when that call began                 *)
  slice,      (* the surface's part of AppearXState                        *)
  flying,     (* how many spawned setters carry each value                 *)
  answered,   (* history: the version when the last answered call began    *)
  reported    (* the last stats message                                    *)

shutdown == <<cancelled, emitting>>
vars == <<chassis, shutdown, loop, asked, slice, flying, answered, reported>>

NoData == -1
Versions == 0..MaxVersion
Values == Versions \cup {NoData}

Init ==
  /\ chassis = [s \in Surfaces |-> 0]
  /\ cancelled = FALSE
  /\ loop = [s \in Surfaces |-> "waiting"]
  /\ emitting = TRUE
  /\ asked = [s \in Surfaces |-> 0]
  /\ slice = [s \in Surfaces |-> NoData]
  /\ flying = [s \in Surfaces |-> [v \in Values |-> 0]]
  /\ answered = [s \in Surfaces |-> NoData]
  /\ reported = [s \in Surfaces |-> NoData]

-----------------------------------------------------------------------------
(* The set_* methods: each replaces one slice under the write lock.        *)
SetSlice(s, v) == slice' = [slice EXCEPT ![s] = v] /\ UNCHANGED flying

SpawnSetter(s, v) ==
  /\ flying[s][v] < MaxFlying
  /\ flying' = [flying EXCEPT ![s][v] = @ + 1]
  /\ UNCHANGED slice

AlwaysSpawn(s, v) == SpawnSetter(s, v)
Apply(s, v) == IF s \in Detached THEN SpawnSetter(s, v) ELSE SetSlice(s, v)

ChassisChanges(s) ==
  /\ chassis[s] < MaxVersion
  /\ chassis' = [chassis EXCEPT ![s] = @ + 1]
  /\ UNCHANGED <<shutdown, loop, asked, slice, flying, answered, reported>>

(* interval.tick(): missed ticks burst, so any time will do.               *)
BeginPoll(s) ==
  /\ loop[s] = "waiting"
  /\ loop' = [loop EXCEPT ![s] = "polling"]
  /\ asked' = [asked EXCEPT ![s] = chassis[s]]
  /\ UNCHANGED <<chassis, shutdown, slice, flying, answered, reported>>

(* The chassis read the surface at some moment of the call.                *)
PollAnswered(s) ==
  /\ loop[s] = "polling"
  /\ loop' = [loop EXCEPT ![s] = "waiting"]
  /\ \E v \in asked[s]..chassis[s] : Apply(s, v)
  /\ answered' = [answered EXCEPT ![s] = asked[s]]
  /\ UNCHANGED <<chassis, shutdown, asked, reported>>

StopOnError(s) == loop' = [loop EXCEPT ![s] = "ended"]
CarryOn(s) == loop' = [loop EXCEPT ![s] = "waiting"]

PollFails(s) ==
  /\ loop[s] = "polling"
  /\ CarryOn(s)
  /\ IF s \in Tolerant THEN Apply(s, NoData) ELSE UNCHANGED <<slice, flying>>
  /\ UNCHANGED <<chassis, shutdown, asked, answered, reported>>

RunSetter(s, v) ==
  /\ flying[s][v] > 0
  /\ slice' = [slice EXCEPT ![s] = v]
  /\ flying' = [flying EXCEPT ![s][v] = @ - 1]
  /\ UNCHANGED <<chassis, shutdown, loop, asked, answered, reported>>

(* snapshot() copies every slice under one read lock.                      *)
EmitStats ==
  /\ emitting
  /\ reported' = slice
  /\ UNCHANGED <<chassis, shutdown, loop, asked, slice, flying, answered>>

(* Loops and emitter see the cancelled token between two rounds only.      *)
Cancel ==
  /\ cancelled' = TRUE
  /\ UNCHANGED <<chassis, emitting, loop, asked, slice, flying, answered, reported>>

LoopEnds(s) ==
  /\ cancelled
  /\ loop[s] = "waiting"
  /\ loop' = [loop EXCEPT ![s] = "ended"]
  /\ UNCHANGED <<chassis, shutdown, asked, slice, flying, answered, reported>>

EmitterEnds ==
  /\ cancelled
  /\ emitting' = FALSE
  /\ UNCHANGED <<chassis, cancelled, loop, asked, slice, flying, answered, reported>>

Poll(s) == BeginPoll(s) \/ PollAnswered(s) \/ PollFails(s)

Next ==
  \/ \E s \in Surfaces :
       \/ ChassisChanges(s)
       \/ Poll(s)
       \/ LoopEnds(s)
       \/ \E v \in Values : RunSetter(s, v)
  \/ EmitStats \/ Cancel \/ EmitterEnds

Spec == Init /\ [][Next]_vars

(* Intervals keep ticking, calls end, spawned tasks run.                   *)
Fairness ==
  /\ \A s \in Surfaces : WF_vars(Poll(s))
  /\ \A s \in Surfaces : \A v \in Values : WF_vars(RunSetter(s, v))
  /\ WF_vars(EmitStats)

FairSpec == Spec /\ Fairness

-----------------------------------------------------------------------------
(* No slice is ahead of the chassis, and only detached setters fly.        *)
TypeOK ==
  /\ chassis \in [Surfaces -> Versions]
  /\ cancelled \in BOOLEAN
  /\ loop \in [Surfaces -> {"waiting", "polling", "ended"}]
  /\ emitting \in BOOLEAN
  /\ asked \in [Surfaces -> Versions]
  /\ slice \in [Surfaces -> Values]
  /\ flying \in [Surfaces -> [Values -> 0..MaxFlying]]
  /\ answered \in [Surfaces -> Values]
  /\ reported \in [Surfaces -> Values]
  /\ \A s \in Surfaces :
       /\ slice[s] <= chassis[s]
       /\ s \notin Detached => \A v \in Values : flying[s][v] = 0

InOrder == Surfaces \ (Detached \cup Tolerant)

(* A slice that its own loop writes is at least as new as the data was     *)
(* when the last answered poll began, and the manager never sees it go     *)
(* back to older data, however loops, setters and emitter interleave.      *)
AsNewAsLastPoll == \A s \in InOrder : slice[s] >= answered[s]

NothingGoesBack ==
  [][AsNewAsLastPoll' /\ \A s \in InOrder : reported'[s] >= reported[s]]_vars

(* Once the chassis stops changing and polls stop failing, the manager     *)
(* ends up with the current data of every surface, detached ones included, *)
(* whatever order the setters ran in before, unless it is shut down.       *)
PollsWork == <>[][\A s \in Surfaces : ~PollFails(s)]_vars

ManagerUpToDate == <>[](reported = chassis)

StatsConverge == PollsWork /\ [](~cancelled) => ManagerUpToDate
=============================================================================
