---------------------------- MODULE LifecycleProofs ----------------------------
(***************************************************************************)
(* Proofs about Lifecycle, for any versions, flaws, commands and limits:   *)
(* type correctness, that a write is the one asked for, that one that is   *)
(* not acknowledged has a cause, that a registered node keeps its          *)
(* identity, and that a rollback is never the fault of a version that      *)
(* works and lands on one that does.                                       *)
(***************************************************************************)
EXTENDS Lifecycle, TLAPS, SequenceTheorems, WellFoundedInduction

(* The fold of a keyed set and the map its rows stand for.  The induction  *)
(* over the rows is the search for a first prefix on which the two differ. *)
LEMMA SmallestNat ==
  ASSUME NEW S, S \subseteq Nat, S # {}
  PROVE  \E n \in S : \A m \in S : n <= m
<1>1. IsWellFoundedOn(OpToRel(<, Nat), Nat)
  BY NatLessThanWellFounded
<1>2. PICK n \in S : \A m \in S : ~(<<m, n>> \in OpToRel(<, Nat))
  BY <1>1, WFMin
<1>3. \A m \in S : ~(m < n)
  BY <1>2 DEF OpToRel
<1> QED
  BY <1>3

LEMMA LargestUpTo ==
  ASSUME NEW n \in Nat, NEW S, S \subseteq 1..n, S # {}
  PROVE  \E m \in S : \A j \in S : j <= m
<1> DEFINE Bounds == {b \in Nat : \A j \in S : j <= b}
<1>1. n \in Bounds
  OBVIOUS
<1>2. PICK b \in Bounds : \A c \in Bounds : b <= c
  BY <1>1, SmallestNat
<1>3. b \in S
  <2>1. SUFFICES ASSUME b \notin S PROVE FALSE
    OBVIOUS
  <2>2. \A j \in S : j <= b - 1 /\ 1 <= j
    BY <1>2, <2>1
  <2>3. b - 1 \in Bounds
    <3>1. PICK j \in S : TRUE
      OBVIOUS
    <3>2. b \in Nat /\ j \in Nat /\ 1 <= j /\ j <= b - 1
      BY <1>2, <2>2
    <3>3. b - 1 \in Nat
      BY <3>2
    <3> QED
      BY <2>2, <3>3
  <2> QED
    BY <1>2, <2>3
<1> QED
  BY <1>2, <1>3

(* MapOf for the first n rows.                                             *)
KeysUpTo(rows, n) == {rows[i].key : i \in 1..n}
IsLast(rows, k, n, i) ==
  i \in 1..n /\ rows[i].key = k /\ \A j \in 1..n : rows[j].key = k => j <= i
LastUpTo(rows, k, n) == CHOOSE i \in 1..n : IsLast(rows, k, n, i)
MapUpTo(rows, n) == [k \in KeysUpTo(rows, n) |-> rows[LastUpTo(rows, k, n)].value]

LEMMA LastIs ==
  ASSUME NEW rows, NEW n \in Nat, NEW k \in KeysUpTo(rows, n)
  PROVE  IsLast(rows, k, n, LastUpTo(rows, k, n))
<1> DEFINE With == {i \in 1..n : rows[i].key = k}
<1>1. With # {}
  BY DEF KeysUpTo
<1>2. PICK m \in With : \A j \in With : j <= m
  BY <1>1, LargestUpTo
<1>3. IsLast(rows, k, n, m)
  BY <1>2 DEF IsLast
<1> QED
  BY <1>2, <1>3 DEF LastUpTo

LEMMA LastIsUnique ==
  ASSUME NEW rows, NEW n \in Nat, NEW k, NEW i, NEW j,
         IsLast(rows, k, n, i), IsLast(rows, k, n, j)
  PROVE  i = j
BY DEF IsLast

(* One more row overwrites its key and leaves the others alone.            *)
LEMMA OneMoreRow ==
  ASSUME NEW rows, NEW n \in Nat \ {0}
  PROVE  MapUpTo(rows, n) = Insert(MapUpTo(rows, n - 1), rows[n])
<1> DEFINE before == MapUpTo(rows, n - 1)
<1>1. 1..n = 1..(n - 1) \cup {n} /\ n - 1 \in Nat
  OBVIOUS
<1>2. DOMAIN before = KeysUpTo(rows, n - 1)
  BY DEF MapUpTo
<1>3. KeysUpTo(rows, n) = DOMAIN before \cup {rows[n].key}
  BY <1>1, <1>2 DEF KeysUpTo
<1>4. ASSUME NEW k \in KeysUpTo(rows, n)
      PROVE  rows[LastUpTo(rows, k, n)].value = IF k = rows[n].key THEN rows[n].value ELSE before[k]
  <2>1. IsLast(rows, k, n, LastUpTo(rows, k, n))
    BY <1>4, LastIs
  <2>2. CASE k = rows[n].key
    <3>1. IsLast(rows, k, n, n)
      BY <2>2 DEF IsLast
    <3>2. LastUpTo(rows, k, n) = n
      BY <2>1, <3>1, LastIsUnique
    <3> QED
      BY <2>2, <3>2
  <2>3. CASE k # rows[n].key
    <3>1. k \in KeysUpTo(rows, n - 1)
      BY <1>2, <1>3, <1>4, <2>3
    <3>2. IsLast(rows, k, n - 1, LastUpTo(rows, k, n - 1))
      BY <1>1, <3>1, LastIs
    <3>3. IsLast(rows, k, n, LastUpTo(rows, k, n - 1))
      BY <1>1, <2>3, <3>2 DEF IsLast
    <3>4. LastUpTo(rows, k, n) = LastUpTo(rows, k, n - 1)
      BY <2>1, <3>3, LastIsUnique
    <3>5. before[k] = rows[LastUpTo(rows, k, n - 1)].value
      BY <3>1 DEF MapUpTo
    <3> QED
      BY <2>3, <3>4, <3>5
  <2> QED
    BY <2>2, <2>3
<1> HIDE DEF before
<1> QED
  BY <1>3, <1>4 DEF MapUpTo, Insert, before

LEMMA FoldStep ==
  ASSUME NEW rows, Len(rows) \in Nat
  PROVE  Fold(rows) = [i \in 0..Len(rows) |->
                         IF i = 0 THEN EmptyMap ELSE Insert(Fold(rows)[i - 1], rows[i])]
<1> DEFINE maps == [i \in 0..Len(rows) |-> MapUpTo(rows, i)]
<1>1. ASSUME NEW i \in 0..Len(rows)
      PROVE  maps[i] = IF i = 0 THEN EmptyMap ELSE Insert(maps[i - 1], rows[i])
  <2>1. CASE i = 0
    <3>1. KeysUpTo(rows, 0) = {}
      BY DEF KeysUpTo
    <3> QED
      BY <2>1, <3>1 DEF MapUpTo, EmptyMap
  <2>2. CASE i # 0
    <3>1. i \in Nat \ {0} /\ i - 1 \in 0..Len(rows)
      BY <2>2
    <3> QED
      BY <2>2, <3>1, OneMoreRow
  <2> QED
    BY <2>1, <2>2
<1>2. maps = [i \in 0..Len(rows) |->
                IF i = 0 THEN EmptyMap ELSE Insert(maps[i - 1], rows[i])]
  BY <1>1
<1> HIDE DEF maps
<1> QED
  BY <1>2 DEF Fold

(* The fold of xger_set_keyed computes the map its rows stand for.         *)
THEOREM FoldIsMap ==
  ASSUME NEW rows \in Seq(Rows)
  PROVE  Fold(rows)[Len(rows)] = MapOf(rows)
<1>1. Len(rows) \in Nat /\ DOMAIN rows = 1..Len(rows)
  OBVIOUS
<1>2. \A i \in 0..Len(rows) : Fold(rows)[i] = MapUpTo(rows, i)
  <2> DEFINE Wrong == {i \in 0..Len(rows) : Fold(rows)[i] # MapUpTo(rows, i)}
  <2>1. SUFFICES ASSUME Wrong # {} PROVE FALSE
    OBVIOUS
  <2>a. Wrong \subseteq Nat
    BY <1>1
  <2>2. PICK i \in Wrong : \A j \in Wrong : i <= j
    <3> HIDE DEF Wrong
    <3> QED
      BY <2>1, <2>a, SmallestNat
  <2>3. Fold(rows)[i] = IF i = 0 THEN EmptyMap ELSE Insert(Fold(rows)[i - 1], rows[i])
    BY <1>1, <2>2, FoldStep
  <2>4. CASE i = 0
    <3>1. KeysUpTo(rows, 0) = {}
      BY DEF KeysUpTo
    <3> QED
      BY <2>2, <2>3, <2>4, <3>1 DEF MapUpTo, EmptyMap
  <2>5. CASE i # 0
    <3>1. i \in Nat \ {0} /\ i - 1 \in 0..Len(rows) /\ ~(i <= i - 1)
      BY <1>1, <2>2, <2>5
    <3>2. Fold(rows)[i - 1] = MapUpTo(rows, i - 1)
      BY <2>2, <3>1
    <3> QED
      BY <2>2, <2>3, <2>5, <3>1, <3>2, OneMoreRow
  <2> QED
    BY <2>4, <2>5
<1>3. MapUpTo(rows, Len(rows)) = MapOf(rows)
  <2>1. \A k : LastUpTo(rows, k, Len(rows)) = LastRow(rows, k)
    BY <1>1 DEF LastUpTo, IsLast, LastRow
  <2> QED
    BY <1>1, <2>1 DEF MapUpTo, MapOf, KeysUpTo
<1> QED
  BY <1>1, <1>2, <1>3

(* A route that is open has a first open interface.                        *)
LEMMA TargetIsOpen ==
  ASSUME NEW c, NEW t, Open(c, t) # {}
  PROVE  Target(c, t) \in c \cup {Mmi}
<1>1. Open(c, t) \subseteq Nat
  BY DEF Open
<1>2. \E i \in Open(c, t) : \A j \in Open(c, t) : i <= j
  BY <1>1, SmallestNat
<1> QED
  BY <1>2 DEF Target, Open

-----------------------------------------------------------------------------
(* What is in hand at each point of a command.                             *)
CommandInHand ==
  /\ worker = "idle" => sent = <<>> /\ effect = Nothing /\ ack = "none" /\ excuse = "none"
  /\ worker = "calling" => effect = Nothing /\ ack = "none" /\ excuse = "none"

(* The token is spent once, by a life that owes its credentials at first.  *)
TokenTraded ==
  /\ token = "fresh" => ~saved /\ ~owed /\ orphaned = "no"
  /\ owed => ~saved /\ orphaned = "no"

(* A life past the watchdog has been counted.                              *)
Up == phase \notin {"down", "failed"}
PastWatchdog == phase \in {"connect", "run"}
Works(v) == flaw[v] \in {"none", "mute"}

(* The boots of a working version on trial are stops from outside, and the *)
(* one that is running.                                                    *)
TrialCounted ==
  /\ Up /\ ~exitDue => running = installed
  /\ exitDue => trial = "staged"
  /\ trial = "staged" => attempts = 0 /\ (exitDue \/ ~PastWatchdog)
  /\ trial # "stable" /\ Works(installed) /\ ~PastWatchdog => attempts <= stops
  /\ trial # "stable" /\ Works(installed) => attempts <= stops + 1

(* A call in flight is the one the command asks for; one query is repeated.*)
SentAsAsked ==
  worker = "calling" =>
    /\ payload \in Payloads
    /\ Refusal(card, type, payload) = "none"
    /\ \/ sent = <<Call(type, payload)>>
       \/ type = "get_ip_output_status" /\ sent = <<Call(type, payload), Call(type, payload)>>

(* What is known of a version that has come so far: it did not fail in the *)
(* steps behind it, nor is it mute once online, nor does it crash once its *)
(* trial is over.  So only a version without a flaw is told to upgrade.    *)
Landing ==
  /\ phase \in {"credentials", "watchdog", "connect", "run"} => flaw[running] # "config"
  /\ phase \in {"watchdog", "connect", "run"} => flaw[running] # "credentials"
  /\ phase = "run" => flaw[running] # "connect"
  /\ online => flaw[running] # "mute"
  /\ trial = "stable" => flaw[installed] # "crash"
  /\ trial # "stable" => flaw[previous] = "none"

IInv ==
  /\ LifecycleTypeOK
  /\ FateKnown /\ CommandInHand
  /\ WritesAsAsked /\ SentAsAsked
  /\ IdentityKept /\ TokenTraded
  /\ TrialCounted /\ Landing

-----------------------------------------------------------------------------
LEMMA InvInit == ASSUME LifecycleAssumption, Init PROVE IInv
<1>1. FlagsOK
  BY Zenon DEF Init, FlagsOK
<1>2. flaw \in [Versions -> KnownFlaws]
  BY DEF Init, LifecycleAssumption, KnownFlaws
<1>3. LifecycleTypeOK
  BY <1>1, <1>2 DEF Init, NoCommand, LifecycleAssumption, LifecycleTypeOK, Versions, Answers
<1>4. FateKnown /\ CommandInHand
  BY DEF Init, NoCommand, FateKnown, CommandInHand, Refusals
<1>5. IdentityKept /\ TokenTraded
  BY Zenon DEF Init, IdentityKept, TokenTraded
<1>6. TrialCounted
  BY DEF Init, TrialCounted, PastWatchdog, Up, LifecycleAssumption
<1>7. WritesAsAsked /\ SentAsAsked
  BY DEF Init, NoCommand, WritesAsAsked, Carried, SentAsAsked
<1>8. flaw[installed] = "none"
  BY DEF Init, Versions
<1>9. Landing
  BY <1>8, Zenon DEF Init, Landing
<1> QED
  BY <1>3, <1>4, <1>5, <1>6, <1>7, <1>9 DEF IInv

-----------------------------------------------------------------------------
(* What the actions have in common.                                        *)
LEMMA EndOfLife ==
  ASSUME IInv, EndLife, Up
  PROVE  /\ phase' \in {"down", "failed"}
         /\ exitDue' = FALSE /\ online' = FALSE /\ owed' = FALSE
         /\ running' = running /\ starts' = starts /\ saved' = saved /\ token' = token
         /\ orphaned' = IF owed THEN "died" ELSE orphaned
         /\ worker' \in {"idle", "cut"}
         /\ worker' = "idle" => effect' = Nothing /\ sent' = <<>> /\ ack' = "none" /\ excuse' = "none"
         /\ worker' = "cut" => ack' = "none" /\ excuse' = "process ended"
BY DEF IInv, EndLife, Up, CutCommand, ForgetCommand, CommandInHand, LifecycleTypeOK

(* A step of main that passes enters a step that is up, before the run     *)
(* nothing is in hand.                                                     *)
LEMMA StepEntered ==
  ASSUME IInv, phase \in DOMAIN StepAfter, Enter(StepAfter[phase])
  PROVE  /\ phase' \in {"credentials", "watchdog", "connect", "run"}
         /\ phase = "watchdog" <=> phase' = "connect"
         /\ phase = "connect" <=> phase' = "run"
         /\ ~exitDue /\ ~online /\ ~owed
         /\ exitDue' = exitDue /\ running' = running /\ starts' = starts /\ stops' = stops
         /\ saved' = saved /\ token' = token /\ owed' = owed /\ orphaned' = orphaned
         /\ online' \in BOOLEAN /\ FlagsOK /\ FlagsOK'
         /\ online' => phase' = "run" /\ saved
         /\ worker = "idle" /\ worker' = "idle"
         /\ sent' = sent /\ effect' = effect /\ ack' = ack /\ excuse' = excuse
<1>1. /\ phase' = StepAfter[phase]
      /\ exitDue' = exitDue /\ running' = running /\ starts' = starts /\ stops' = stops
      /\ saved' = saved /\ token' = token /\ owed' = owed /\ orphaned' = orphaned
      /\ worker' = worker /\ sent' = sent /\ effect' = effect /\ ack' = ack /\ excuse' = excuse
  BY DEF Enter, outcome
<1>2. online' = (StepAfter[phase] = "run" /\ saved /\ flaw[running] # "mute")
  BY DEF Enter
<1>3. /\ online' \in BOOLEAN
      /\ online' => StepAfter[phase] = "run" /\ saved
  BY <1>2, Zenon
<1>4. /\ phase \in {"config", "credentials", "watchdog", "connect"}
      /\ StepAfter[phase] \in {"credentials", "watchdog", "connect", "run"}
      /\ phase = "watchdog" <=> StepAfter[phase] = "connect"
      /\ phase = "connect" <=> StepAfter[phase] = "run"
  BY DEF StepAfter
<1>5. ~exitDue /\ ~online /\ ~owed /\ worker = "idle"
  BY <1>4 DEF IInv, LifecycleTypeOK, FlagsOK
<1>6. FlagsOK
  BY DEF IInv, LifecycleTypeOK
<1>7. FlagsOK'
  BY <1>1, <1>3, <1>5, <1>6, Zenon DEF FlagsOK
<1> QED
  BY <1>1, <1>3, <1>4, <1>5, <1>6, <1>7

(* What a command does to the worker's state.                              *)
LEMMA CommandSteps ==
  ASSUME IInv, CommandsNext
  PROVE  /\ worker' \in {"idle", "calling", "answered"}
         /\ ack' \in Answers
         /\ excuse' \in {"none", "taken as done", "answer lost"}
         /\ worker \in {"idle", "calling", "answered"}
         /\ ack' \in Refusals \cup {"upgrade_refused"} => sent' = <<>> /\ effect' = Nothing
         /\ effect' # Nothing => ack' = "ok" \/ excuse' # "none"
         /\ worker' = "idle" => sent' = <<>> /\ effect' = Nothing /\ ack' = "none" /\ excuse' = "none"
         /\ worker' = "calling" => effect' = Nothing /\ ack' = "none" /\ excuse' = "none"
<1> USE DEF IInv, LifecycleTypeOK, CommandInHand, FateKnown, request, outcome, Answers, VendorError
<1>1. CASE \E t \in Types, p \in Payloads : Receive(t, p)
  <2>1. PICK t \in Types, p \in Payloads : Receive(t, p)
    BY <1>1
  <2>2. Refusal(card, t, p) \in Refusals \cup {"none"}
    BY DEF Refusal, Refusals
  <2>3. CASE Refusal(card, t, p) # "none"
    BY <2>1, <2>2, <2>3 DEF Receive, Refusals
  <2>4. CASE Refusal(card, t, p) = "none"
    BY <2>1, <2>4 DEF Receive, Refusals
  <2> QED
    BY <2>3, <2>4
<1>2. CASE Succeeds
  BY <1>2 DEF Succeeds, Refusals
<1>3. CASE NotFound
  BY <1>3 DEF NotFound, Refusals
<1>4. CASE Fails
  BY <1>4 DEF Fails, Refusals
<1>5. CASE Acknowledge
  BY <1>5 DEF Acknowledge, ForgetCommand, Refusals
<1>6. CASE TakenAsDone
  BY <1>6 DEF TakenAsDone, Refusals
<1> QED
  BY <1>1, <1>2, <1>3, <1>4, <1>5, <1>6 DEF CommandsNext

-----------------------------------------------------------------------------
(* The steps of one group leave the same things alone.                     *)
Ends == StepFails \/ WatchdogReverts \/ Crash \/ Stopped \/ DrainEnds
Enters == StepPasses \/ WatchdogContinues
Upgrades == \E v \in Versions : UpgradeRefused(v) \/ StageUpgrade(v)
Signs == Register \/ RegistrationLost \/ SaveCredentials
Waits == IntervalEnds \/ OperatorResets

LEMMA Grouped ==
  ASSUME [Next]_vars
  PROVE  \/ Boot \/ Ends \/ Enters \/ Promote \/ Signs \/ Upgrades \/ Command \/ Waits
         \/ UNCHANGED vars
BY Zenon DEF Next, Main, Ends, Enters, Upgrades, Signs, Waits

LEMMA EndsEnd == ASSUME IInv, Ends PROVE EndLife /\ Up /\ flaw' = flaw
BY DEF IInv, LifecycleTypeOK, FlagsOK, Ends, StepFails, WatchdogReverts, Crash, Stopped, DrainEnds, Up, upgrade

LEMMA EntersEnter ==
  ASSUME IInv, Enters
  PROVE  /\ phase \in DOMAIN StepAfter /\ Enter(StepAfter[phase])
         /\ flaw' = flaw /\ installed' = installed /\ previous' = previous
BY DEF Enters, StepPasses, WatchdogContinues, StepAfter, upgrade

-----------------------------------------------------------------------------
LEMMA FlagsStep ==
  ASSUME IInv, [Next]_vars
  PROVE  FlagsOK'
<1>0. FlagsOK /\ LifecycleTypeOK
  BY DEF IInv, LifecycleTypeOK
<1>1. CASE Boot
  <2>1. exitDue' = exitDue /\ saved' = saved /\ online' = online /\ owed' = owed /\ worker' = "idle"
    BY <1>1 DEF Boot, identity
  <2>2. ~exitDue /\ ~online /\ ~owed
    BY <1>0, <1>1 DEF Boot, FlagsOK
  <2> QED
    BY <1>0, <2>1, <2>2, Zenon DEF FlagsOK
<1>2. CASE Ends
  <2>1. /\ phase' \in {"down", "failed"} /\ worker' \in {"idle", "cut"}
        /\ exitDue' = FALSE /\ online' = FALSE /\ owed' = FALSE /\ saved' = saved
    BY <1>2, EndsEnd, EndOfLife
  <2>2. worker' \notin {"calling", "answered"}
    BY <2>1
  <2> QED
    BY <1>0, <2>1, <2>2, Zenon DEF FlagsOK
<1>3. CASE Enters
  BY <1>3, EntersEnter, StepEntered
<1>4. CASE Register
  <2>1. phase' = "run" /\ worker' = worker /\ exitDue' = exitDue /\ saved' = saved
        /\ online' = TRUE /\ owed' = TRUE /\ phase = "run"
    BY <1>4 DEF Register, PresentToken, commandVars, process
  <2> QED
    BY <1>0, <2>1, Zenon DEF FlagsOK
<1>5. CASE RegistrationLost
  <2>1. phase' = phase /\ worker' = worker /\ exitDue' = exitDue /\ UNCHANGED <<saved, online, owed>>
    BY <1>5 DEF RegistrationLost, commandVars, process
  <2> QED
    BY <1>0, <2>1, Zenon DEF FlagsOK
<1>6. CASE SaveCredentials
  <2>1. phase' = phase /\ worker' = worker /\ exitDue' = exitDue /\ online' = online /\ owed' = FALSE
    BY <1>6 DEF SaveCredentials, commandVars, process
  <2>2. saved' \in BOOLEAN
    BY <1>0, <1>6, Zenon DEF SaveCredentials, StoreSaves, FlagsOK
  <2> QED
    BY <1>0, <2>1, <2>2, Zenon DEF FlagsOK
<1>7. CASE Upgrades
  <2>1. /\ phase' = phase /\ phase = "run" /\ worker' = "answered" /\ exitDue' \in {TRUE, exitDue}
        /\ UNCHANGED <<saved, online, owed>> /\ online
    BY <1>7, Zenon DEF Upgrades, UpgradeRefused, StageUpgrade, Online, process, identity
  <2> QED
    BY <1>0, <2>1, Zenon DEF FlagsOK
<1>8. CASE Command
  <2>1. /\ phase' = phase /\ phase = "run" /\ exitDue' = exitDue /\ UNCHANGED <<saved, online, owed>> /\ online
        /\ CommandsNext
    BY <1>8, Zenon DEF Command, Online, process, identity
  <2>2. worker' # "cut"
    BY <2>1, CommandSteps
  <2> QED
    BY <1>0, <2>1, <2>2, Zenon DEF FlagsOK
<1>9. CASE OperatorResets
  <2>1. phase' = "down" /\ phase = "failed" /\ UNCHANGED <<exitDue, saved, online, owed, worker>>
    BY <1>9 DEF OperatorResets, identity, commandVars
  <2>2. ~exitDue /\ ~online /\ ~owed /\ worker \notin {"calling", "answered"}
    BY <1>0, <2>1 DEF FlagsOK
  <2> QED
    BY <1>0, <2>1, <2>2, Zenon DEF FlagsOK
<1>10. CASE Promote \/ IntervalEnds \/ UNCHANGED vars
  <2>1. UNCHANGED <<phase, exitDue, saved, online, owed, worker>>
    BY <1>10, Zenon DEF Promote, IntervalEnds, vars, identity, process, commandVars
  <2> QED
    BY <1>0, <2>1, Zenon DEF FlagsOK
<1> QED
  BY <1>1, <1>2, <1>3, <1>4, <1>5, <1>6, <1>7, <1>8, <1>9, <1>10, Grouped DEF Signs, Waits

LEMMA TypeStep ==
  ASSUME LifecycleAssumption, IInv, [Next]_vars
  PROVE  LifecycleTypeOK'
<1>0. LifecycleTypeOK /\ FlagsOK'
  BY FlagsStep DEF IInv
<1>b. MaxBootAttempts \in Nat
  BY DEF LifecycleAssumption
<1>c. attempts \in 0..MaxBootAttempts /\ starts \in Nat /\ stops \in Nat
  BY <1>0 DEF LifecycleTypeOK
<1>a. /\ MaxBootAttempts \in Nat /\ attempts \in 0..MaxBootAttempts /\ 0 \in 0..MaxBootAttempts
      /\ starts \in Nat /\ starts + 1 \in Nat /\ stops \in Nat /\ stops + 1 \in Nat
  BY <1>b, <1>c
<1>1. CASE Boot
  <2>1. /\ worker' = "idle" /\ ack' = "none" /\ excuse' = "none" /\ phase' = "config"
        /\ running' = installed /\ starts' = starts + 1
        /\ UNCHANGED <<flaw, installed, previous, trial, attempts, stops, token, orphaned>>
    BY <1>1 DEF Boot, ForgetCommand, upgrade, identity
  <2> QED
    BY <1>0, <1>a, <2>1 DEF LifecycleTypeOK, Answers
<1>2. CASE Ends
  <2>1. EndLife /\ Up /\ flaw' = flaw
    BY <1>2, EndsEnd
  <2>2. installed' \in {installed, previous} /\ previous' = previous /\ trial' \in {trial, "stable"}
    BY <1>2 DEF Ends, StepFails, WatchdogReverts, Crash, Stopped, DrainEnds, upgrade
  <2>3. attempts' \in {attempts, 0} /\ stops' \in {stops, stops + 1}
    BY <1>2 DEF Ends, StepFails, WatchdogReverts, Crash, Stopped, DrainEnds, upgrade
  <2>4. /\ phase' \in {"down", "failed"}
        /\ running' = running /\ starts' = starts /\ token' = token
        /\ orphaned' = IF owed THEN "died" ELSE orphaned
        /\ worker' \in {"idle", "cut"}
        /\ ack' = "none" /\ excuse' \in {"none", "process ended"}
    BY <2>1, EndOfLife
  <2>5. orphaned' \in {"no", "unanswered", "died", "save failed"}
    BY <1>0, <1>a, <2>4 DEF LifecycleTypeOK
  <2> QED
    BY <1>0, <1>a, <2>1, <2>2, <2>3, <2>4, <2>5 DEF LifecycleTypeOK, Answers
<1>3. CASE Enters
  <2>1. flaw' = flaw /\ installed' = installed /\ previous' = previous
    BY <1>3, EntersEnter
  <2>2. /\ trial' \in {trial, "pending"}
        /\ attempts' \in 0..MaxBootAttempts
    <3>1. CASE StepPasses
      BY <1>a, <3>1 DEF StepPasses, upgrade
    <3>2. CASE WatchdogContinues /\ UNCHANGED <<trial, attempts>>
      BY <1>a, <3>2
    <3>3. CASE /\ ~Exhausted(attempts + 1)
               /\ trial' = "pending"
               /\ attempts' = attempts + 1
      BY <1>a, <3>3 DEF Exhausted
    <3> QED
      BY <1>3, <3>1, <3>2, <3>3 DEF Enters, WatchdogContinues
  <2>3. /\ phase' \in {"credentials", "watchdog", "connect", "run"}
        /\ worker' = "idle" /\ ack' = ack /\ excuse' = excuse /\ running' = running
        /\ starts' = starts /\ stops' = stops /\ token' = token /\ orphaned' = orphaned
    BY <1>3, EntersEnter, StepEntered
  <2> QED
    BY <1>0, <1>a, <2>1, <2>2, <2>3 DEF LifecycleTypeOK
<1>4. CASE Promote
  <2>1. /\ trial' = "stable" /\ attempts' = 0
        /\ UNCHANGED <<worker, ack, excuse, flaw, installed, previous, running, phase, starts, stops>>
        /\ UNCHANGED <<token, orphaned>>
    BY <1>4 DEF Promote, commandVars, outcome, process, identity
  <2> QED
    BY <1>0, <1>a, <2>1 DEF LifecycleTypeOK
<1>5. CASE Signs
  <2>1. /\ UNCHANGED <<worker, ack, excuse, flaw, installed, previous, trial, attempts>>
        /\ UNCHANGED <<running, phase, starts, stops>>
        /\ token' \in {"spent", token} /\ orphaned' \in {orphaned, "unanswered", "save failed"}
    BY <1>5 DEF Signs, Register, RegistrationLost, PresentToken, SaveCredentials, commandVars,
      outcome, upgrade, process
  <2>2. token' \in {"fresh", "spent"} /\ orphaned' \in {"no", "unanswered", "died", "save failed"}
    BY <1>0, <2>1 DEF LifecycleTypeOK
  <2> QED
    BY <1>0, <1>a, <2>1, <2>2 DEF LifecycleTypeOK
<1>6. CASE Upgrades
  <2>1. PICK v \in Versions : UpgradeRefused(v) \/ StageUpgrade(v)
    BY <1>6 DEF Upgrades
  <2>2. /\ worker' = "answered" /\ ack' \in {"ok", "upgrade_refused"}
        /\ UNCHANGED <<excuse, flaw, running, phase, starts, stops, token, orphaned>>
    BY <2>1 DEF UpgradeRefused, StageUpgrade, upgrade, process, identity
  <2>3. /\ installed' \in {v, installed} /\ previous' \in {installed, previous}
        /\ trial' \in {"staged", trial} /\ attempts' \in {0, attempts}
    BY <2>1 DEF UpgradeRefused, StageUpgrade, upgrade
  <2>4. /\ installed' \in Versions /\ previous' \in Versions
        /\ trial' \in {"stable", "staged", "pending"} /\ attempts' \in 0..MaxBootAttempts
    BY <1>0, <1>a, <2>3 DEF LifecycleTypeOK
  <2> QED
    BY <1>0, <2>2, <2>4 DEF LifecycleTypeOK, Answers
<1>7. CASE Command
  <2>1. CommandsNext /\ UNCHANGED <<upgrade, process, identity>>
    BY <1>7 DEF Command
  <2>2. /\ worker' \in {"idle", "calling", "answered"} /\ ack' \in Answers
        /\ excuse' \in {"none", "taken as done", "answer lost"}
    BY <2>1, CommandSteps
  <2> QED
    BY <1>0, <1>a, <2>1, <2>2 DEF LifecycleTypeOK, upgrade, process, identity
<1>8. CASE Waits
  <2>1. /\ UNCHANGED <<worker, ack, excuse, flaw, installed, previous, trial, attempts>>
        /\ UNCHANGED <<running, stops, token, orphaned>>
        /\ starts' = 0 /\ phase' \in {phase, "down"}
    BY <1>8 DEF Waits, IntervalEnds, OperatorResets, commandVars, outcome, upgrade, identity
  <2> QED
    BY <1>0, <1>a, <2>1 DEF LifecycleTypeOK
<1>9. CASE UNCHANGED vars
  BY <1>0, <1>9 DEF LifecycleTypeOK, vars, commandVars, request, outcome, upgrade, process, identity
<1> QED
  BY <1>1, <1>2, <1>3, <1>4, <1>5, <1>6, <1>7, <1>8, <1>9, Grouped

LEMMA FateStep ==
  ASSUME IInv, [Next]_vars
  PROVE  FateKnown' /\ CommandInHand'
<1> USE DEF Refusals
<1>0. FateKnown /\ CommandInHand /\ LifecycleTypeOK
  BY DEF IInv
<1>1. CASE Boot
  BY <1>1 DEF Boot, ForgetCommand, FateKnown, CommandInHand
<1>2. CASE Ends
  BY <1>2, EndsEnd, EndOfLife DEF FateKnown, CommandInHand
<1>3. CASE Enters
  BY <1>0, <1>3, EntersEnter, StepEntered DEF FateKnown, CommandInHand
<1>4. CASE UNCHANGED commandVars
  BY <1>0, <1>4 DEF commandVars, request, outcome, FateKnown, CommandInHand
<1>5. CASE Upgrades
  BY <1>0, <1>5 DEF Upgrades, UpgradeRefused, StageUpgrade, FateKnown, CommandInHand
<1>6. CASE Command
  BY <1>0, <1>6, CommandSteps DEF Command, FateKnown, CommandInHand
<1>7. Promote \/ Signs \/ Waits \/ UNCHANGED vars => UNCHANGED commandVars
  BY DEF Promote, Signs, Register, RegistrationLost, SaveCredentials, Waits, IntervalEnds,
    OperatorResets, vars
<1> QED
  BY <1>1, <1>2, <1>3, <1>4, <1>5, <1>6, <1>7, Grouped

LEMMA IdentityStep ==
  ASSUME IInv, [Next]_vars
  PROVE  IdentityKept' /\ TokenTraded'
<1>0. /\ IdentityKept /\ TokenTraded /\ token \in {"fresh", "spent"}
      /\ saved \in BOOLEAN /\ online \in BOOLEAN /\ owed \in BOOLEAN
  BY DEF IInv, LifecycleTypeOK, FlagsOK
<1>1. CASE UNCHANGED identity
  <2>1. saved' = saved /\ token' = token /\ online' = online /\ owed' = owed /\ orphaned' = orphaned
    BY <1>1 DEF identity
  <2> QED
    BY <1>0, <2>1, Zenon DEF IdentityKept, TokenTraded
<1>2. CASE Ends
  <2>1. saved' = saved /\ token' = token /\ ~online' /\ ~owed'
    BY <1>2, EndsEnd, EndOfLife
  <2>a. orphaned' = IF owed THEN "died" ELSE orphaned
    BY <1>2, EndsEnd, EndOfLife
  <2>2. (owed /\ orphaned' = "died") \/ (~owed /\ orphaned' = orphaned)
    BY <1>0, <2>a
  <2>3. IdentityKept'
    BY <1>0, <2>1, <2>2 DEF IdentityKept, TokenTraded
  <2>4. TokenTraded'
    BY <1>0, <2>1, <2>2 DEF TokenTraded
  <2> QED
    BY <2>3, <2>4
<1>3. CASE Enters
  <2>1. saved' = saved /\ token' = token /\ owed' = owed /\ orphaned' = orphaned /\ (online' => saved)
    BY <1>3, EntersEnter, StepEntered
  <2>2. saved => token = "spent"
    BY <1>0 DEF TokenTraded
  <2> QED
    BY <1>0, <2>1, <2>2, Zenon DEF IdentityKept, TokenTraded
<1>4. CASE Register
  <2>1. token = "fresh" /\ token' = "spent" /\ token' # "fresh" /\ saved' = saved /\ owed' = TRUE
        /\ orphaned' = orphaned
    BY <1>4 DEF Register, PresentToken
  <2> QED
    BY <1>0, <2>1, Zenon DEF IdentityKept, TokenTraded
<1>5. CASE RegistrationLost
  <2>1. /\ token = "fresh" /\ token' = "spent" /\ token' # "fresh"
        /\ saved' = saved /\ owed' = owed /\ online' = online
        /\ orphaned' = "unanswered" /\ orphaned' # "no"
    BY <1>5 DEF RegistrationLost, PresentToken
  <2> QED
    BY <1>0, <2>1, Zenon DEF IdentityKept, TokenTraded
<1>6. CASE SaveCredentials
  <2>1. owed /\ ~saved /\ orphaned = "no" /\ token = "spent" /\ token' = "spent" /\ owed' = FALSE
    BY <1>0, <1>6 DEF SaveCredentials, TokenTraded, identity
  <2>2. CASE saved' = TRUE /\ orphaned' = orphaned
    BY <2>1, <2>2 DEF IdentityKept, TokenTraded
  <2>3. CASE saved' = saved /\ orphaned' = "save failed"
    <3>1. ~saved'
      BY <1>0, <2>1, <2>3
    <3> QED
      BY <2>1, <2>3, <3>1 DEF IdentityKept, TokenTraded
  <2> QED
    BY <1>6, <2>2, <2>3 DEF SaveCredentials, StoreSaves
<1>7. Boot \/ Promote \/ Upgrades \/ Command \/ Waits \/ UNCHANGED vars => UNCHANGED identity
  BY DEF Boot, Promote, Upgrades, UpgradeRefused, StageUpgrade, Command, Waits, IntervalEnds,
    OperatorResets, vars
<1> QED
  BY <1>1, <1>2, <1>3, <1>4, <1>5, <1>6, <1>7, Grouped DEF Signs

LEMMA TrialStep ==
  ASSUME LifecycleAssumption, IInv, [Next]_vars
  PROVE  TrialCounted'
<1>0. /\ TrialCounted /\ attempts \in Nat /\ stops \in Nat /\ exitDue \in BOOLEAN
      /\ (exitDue => phase = "run") /\ trial \in {"stable", "staged", "pending"}
      /\ phase \in {"config", "credentials", "watchdog", "connect", "run", "down", "failed"}
      /\ FlagsOK
  <2>1. LifecycleTypeOK /\ FlagsOK /\ TrialCounted
    BY DEF IInv, LifecycleTypeOK
  <2>2. exitDue \in BOOLEAN /\ (exitDue => phase = "run")
    BY <2>1 DEF FlagsOK
  <2>3. MaxBootAttempts \in Nat
    BY DEF LifecycleAssumption
  <2>4. /\ attempts \in 0..MaxBootAttempts /\ stops \in Nat
        /\ trial \in {"stable", "staged", "pending"}
        /\ phase \in {"config", "credentials", "watchdog", "connect", "run", "down", "failed"}
    BY <2>1 DEF LifecycleTypeOK
  <2>5. attempts \in Nat
    BY <2>3, <2>4
  <2> QED
    BY <2>1, <2>2, <2>4, <2>5
<1>1. CASE UNCHANGED <<flaw, installed, trial, attempts, exitDue, phase, running, stops>>
  BY <1>0, <1>1, Zenon DEF TrialCounted, Up, PastWatchdog, Works
<1>2. CASE Boot
  <2>1. /\ phase = "down" /\ phase' = "config" /\ running' = installed
        /\ UNCHANGED <<flaw, installed, trial, attempts, stops>>
    BY <1>2 DEF Boot, upgrade
  <2>a. exitDue' = exitDue
    BY <1>2 DEF Boot
  <2>2. ~exitDue /\ ~exitDue'
    BY <1>0, <2>1, <2>a
  <2> QED
    BY <1>0, <2>1, <2>2 DEF TrialCounted, Up, PastWatchdog, Works
<1>3. CASE Ends
  <2>1. phase' \in {"down", "failed"} /\ ~exitDue' /\ flaw' = flaw /\ Up
    BY <1>3, EndsEnd, EndOfLife
  <2>2. CASE WatchdogReverts
    BY <2>1, <2>2 DEF WatchdogReverts, TrialCounted, Up
  <2>3. CASE Stopped
    <3>1. stops' = stops + 1 /\ UNCHANGED <<installed, trial, attempts>>
      BY <2>3 DEF Stopped, upgrade
    <3> QED
      BY <1>0, <2>1, <3>1 DEF TrialCounted, Up, PastWatchdog, Works
  <2>4. CASE DrainEnds
    <3>1. exitDue /\ UNCHANGED <<installed, trial, attempts, stops>>
      BY <2>4 DEF DrainEnds, upgrade
    <3>2. trial = "staged" /\ attempts = 0
      BY <1>0, <3>1 DEF TrialCounted
    <3> QED
      BY <1>0, <2>1, <3>1, <3>2 DEF TrialCounted, Up, PastWatchdog
  <2>5. CASE StepFails \/ Crash
    <3>1. /\ phase \in {"config", "credentials", "connect", "run"}
          /\ flaw[running] \notin {"none", "mute"}
          /\ UNCHANGED <<installed, trial, attempts, stops>>
      BY <2>5 DEF StepFails, Crash, upgrade
    <3>2. CASE exitDue
      <4>1. trial = "staged" /\ attempts = 0
        BY <1>0, <3>2 DEF TrialCounted
      <4> QED
        BY <1>0, <2>1, <3>1, <4>1 DEF TrialCounted, Up, PastWatchdog
    <3>3. CASE ~exitDue
      <4>1. running = installed
        BY <1>0, <2>1, <3>3 DEF TrialCounted
      <4>2. ~Works(installed)'
        BY <2>1, <3>1, <4>1 DEF Works
      <4>3. trial = "staged" => attempts = 0
        BY <1>0 DEF TrialCounted
      <4> QED
        BY <2>1, <3>1, <4>2, <4>3 DEF TrialCounted, Up, PastWatchdog
    <3> QED
      BY <3>2, <3>3
  <2> QED
    BY <1>3, <2>2, <2>3, <2>4, <2>5 DEF Ends
<1>4. CASE Enters
  <2>1. /\ phase' \in {"credentials", "watchdog", "connect", "run"}
        /\ phase \in {"config", "credentials", "watchdog", "connect"}
        /\ phase = "watchdog" <=> phase' = "connect"
        /\ phase = "connect" <=> phase' = "run"
        /\ UNCHANGED <<flaw, installed, running, stops>>
    BY <1>4, EntersEnter, StepEntered DEF StepAfter
  <2>a. ~exitDue /\ phase' # "failed" /\ exitDue' = exitDue
    BY <1>4, EntersEnter, StepEntered
  <2>2. ~exitDue /\ ~exitDue' /\ running = installed
    BY <1>0, <2>1, <2>a DEF TrialCounted, Up
  <2>3. CASE StepPasses
    <3>1. UNCHANGED <<trial, attempts>> /\ phase # "watchdog"
      BY <2>3 DEF StepPasses, upgrade
    <3>2. PastWatchdog' <=> PastWatchdog
      BY <2>1, <3>1 DEF PastWatchdog
    <3> QED
      BY <1>0, <2>1, <2>2, <3>1, <3>2 DEF TrialCounted, Up, Works
  <2>4. CASE WatchdogContinues
    <3>1. phase = "watchdog" /\ ~PastWatchdog /\ phase' = "connect" /\ PastWatchdog'
      BY <2>1, <2>4 DEF WatchdogContinues, PastWatchdog
    <3>2. CASE trial = "stable" /\ trial' = trial
      BY <2>1, <2>2, <3>2 DEF TrialCounted
    <3>3. CASE trial # "stable" /\ trial' = "pending" /\ attempts' = attempts + 1
      BY <1>0, <2>1, <2>2, <3>1, <3>3 DEF TrialCounted, Works
    <3> QED
      BY <2>4, <3>2, <3>3 DEF WatchdogContinues
  <2> QED
    BY <1>4, <2>3, <2>4 DEF Enters
<1>5. CASE Promote
  <2>1. trial' = "stable" /\ UNCHANGED <<installed, exitDue, phase, running>> /\ trial = "pending"
    BY <1>5 DEF Promote, process
  <2>2. ~exitDue
    BY <1>0, <2>1 DEF TrialCounted
  <2> QED
    BY <1>0, <2>1, <2>2 DEF TrialCounted, Up
<1>6. CASE Upgrades
  <2>1. PICK v \in Versions : UpgradeRefused(v) \/ StageUpgrade(v)
    BY <1>6 DEF Upgrades
  <2>2. CASE UpgradeRefused(v)
    BY <1>1, <2>2 DEF UpgradeRefused, upgrade, process
  <2>3. CASE StageUpgrade(v)
    <3>1. exitDue' = TRUE /\ trial' = "staged" /\ attempts' = 0 /\ stops' = stops
      BY <2>3 DEF StageUpgrade
    <3> QED
      BY <1>0, <3>1 DEF TrialCounted
  <2> QED
    BY <2>1, <2>2, <2>3
<1>7. CASE OperatorResets
  <2>1. /\ phase = "failed" /\ phase' = "down"
        /\ UNCHANGED <<flaw, installed, trial, attempts, exitDue, stops>>
    BY <1>7 DEF OperatorResets, upgrade
  <2> QED
    BY <1>0, <2>1 DEF TrialCounted, Up, PastWatchdog, Works
<1>8. Signs \/ Command \/ IntervalEnds \/ UNCHANGED vars
        => UNCHANGED <<flaw, installed, trial, attempts, exitDue, phase, running, stops>>
  BY DEF Signs, Register, RegistrationLost, PresentToken, SaveCredentials, Command, IntervalEnds,
    vars, upgrade, process
<1> QED
  BY <1>1, <1>2, <1>3, <1>4, <1>5, <1>6, <1>7, <1>8, Grouped DEF Waits

-----------------------------------------------------------------------------
(* A write that is sent is the one asked for.                              *)
LEMMA WritesKinds ==
  /\ DOMAIN XgerKeyed \cap (FieldSets \cup DOMAIN XgerDelete) = {}
  /\ "get_ip_output_status" \notin Writes
  /\ "upgrade_binary" \notin Writes
BY DEF XgerKeyed, XgerDelete, XgerRaw, FieldSets, Writes, TimeXSet, MmiSet

(* The body of a keyed set is the map its rows stand for, of any other set *)
(* or delete its payload.                                                  *)
LEMMA BodyAsAsked ==
  ASSUME CommandsAssumption, payload \in Payloads, Refusal(card, type, payload) = "none"
  PROVE  /\ type \in DOMAIN XgerKeyed => Body(type, payload) = MapOf(payload)
         /\ type \in FieldSets \cup DOMAIN XgerDelete => Body(type, payload) = payload
         /\ Call(type, payload).to \in card \cup {Mmi}
<1>1. WellFormed(type, payload) /\ Open(card, type) # {}
  BY Zenon DEF Refusal
<1>2. ASSUME type \in DOMAIN XgerKeyed
      PROVE  Body(type, payload) = MapOf(payload)
  <2>1. payload \in Seq(Rows)
    BY <1>1, <1>2 DEF WellFormed, IsArray, CommandsAssumption
  <2>2. Body(type, payload) = Fold(payload)[Len(payload)]
    BY <1>2, WritesKinds DEF Body
  <2> QED
    BY <2>1, <2>2, FoldIsMap
<1>3. type \in FieldSets \cup DOMAIN XgerDelete => Body(type, payload) = payload
  BY WritesKinds DEF Body
<1>4. Call(type, payload).to \in card \cup {Mmi}
  BY <1>1, TargetIsOpen DEF Call
<1> QED
  BY <1>2, <1>3, <1>4

(* What the chassis writes for the call in flight is what was asked for.   *)
LEMMA WrittenAsAsked ==
  ASSUME CommandsAssumption, SentAsAsked, worker = "calling"
  PROVE  /\ type \in DOMAIN XgerKeyed => Written = <<MapOf(payload)>>
         /\ type \in FieldSets \cup DOMAIN XgerDelete => Written = <<payload>>
<1> DEFINE c == Call(type, payload)
<1>1. /\ payload \in Payloads /\ Refusal(card, type, payload) = "none"
      /\ sent = <<c>> \/ (type = "get_ip_output_status" /\ sent = <<c, c>>)
  BY Zenon DEF SentAsAsked
<1>2. /\ type \in DOMAIN XgerKeyed => c.body = MapOf(payload)
      /\ type \in FieldSets \cup DOMAIN XgerDelete => c.body = payload
  BY <1>1, BodyAsAsked DEF Call
<1> HIDE DEF c
<1>3. ASSUME type \in Writes PROVE Written = <<c.body>>
  <2>1. sent = <<c>>
    BY <1>1, <1>3, WritesKinds
  <2> QED
    BY <1>3, <2>1 DEF Written
<1> QED
  BY <1>2, <1>3 DEF Writes

LEMMA SentAgain ==
  ASSUME NEW c
  PROVE  Append(<<c>>, c) = <<c, c>>
<1> DEFINE again == Append(<<c>>, c)
<1>1. <<c>> \in Seq({c}) /\ Len(<<c>>) = 1 /\ <<c>>[1] = c
  OBVIOUS
<1>2. /\ again \in Seq({c}) /\ Len(again) = 2
      /\ again[1] = c /\ again[2] = c
  BY <1>1, AppendProperties
<1>3. <<c, c>> \in Seq({c}) /\ Len(<<c, c>>) = 2
  OBVIOUS
<1> HIDE DEF again
<1>4. \A i \in 1..2 : again[i] = <<c, c>>[i]
  BY <1>2
<1> QED
  BY <1>2, <1>3, <1>4, SeqEqual DEF again

LEMMA CommandWrites ==
  ASSUME CommandsAssumption, IInv, CommandsNext
  PROVE  WritesAsAsked' /\ SentAsAsked'
<1>0. WritesAsAsked /\ SentAsAsked /\ CommandInHand /\ ack \in Answers
  BY DEF IInv, LifecycleTypeOK
<1>a. Refusals \cap {"ok", "none"} = {} /\ "idle" # "calling" /\ "answered" # "calling"
  BY DEF Refusals
<1>1. CASE \E t \in Types, p \in Payloads : Receive(t, p)
  <2>1. PICK t \in Types, p \in Payloads : Receive(t, p)
    BY <1>1
  <2>2. type' = t /\ payload' = p /\ card' = card /\ sent = <<>> /\ ack = "none"
    BY <1>0, <2>1 DEF Receive, CommandInHand
  <2>3. CASE Refusal(card, t, p) # "none"
    <3>1. ack' \in Refusals /\ worker' = "answered" /\ sent' = <<>>
      BY <2>1, <2>2, <2>3 DEF Receive, Refusal, Refusals
    <3> QED
      BY <1>0, <1>a, <2>1, <3>1 DEF WritesAsAsked, Carried, SentAsAsked, Receive, CommandInHand
  <2>4. CASE Refusal(card, t, p) = "none"
    <3>1. sent' = <<Call(t, p)>> /\ worker' = "calling" /\ ack' = "none"
      BY <2>1, <2>2, <2>4 DEF Receive
    <3>2. SentAsAsked'
      BY <2>2, <2>4, <3>1 DEF SentAsAsked, Call, Body
    <3>3. Call(t, p).to \in card \cup {Mmi}
      <4>1. Open(card, t) # {}
        BY <2>4, Zenon DEF Refusal
      <4> QED
        BY <4>1, TargetIsOpen DEF Call
    <3>4. Len(sent') = 1 /\ \A i \in DOMAIN sent' : sent'[i] = Call(t, p)
      BY <3>1
    <3> QED
      BY <1>0, <2>1, <2>2, <3>1, <3>2, <3>3, <3>4
      DEF WritesAsAsked, Carried, Receive, CommandInHand
  <2> QED
    BY <2>3, <2>4
<1>2. CASE worker = "calling" /\ UNCHANGED <<card, type, payload>>
  <2> DEFINE c == Call(type, payload)
  <2>1. /\ payload \in Payloads /\ Refusal(card, type, payload) = "none" /\ ack = "none"
        /\ sent = <<c>> \/ (type = "get_ip_output_status" /\ sent = <<c, c>>)
    BY <1>0, <1>2, Zenon DEF SentAsAsked, CommandInHand
  <2>2. /\ type \in DOMAIN XgerKeyed => c.body = MapOf(payload)
        /\ type \in FieldSets \cup DOMAIN XgerDelete => c.body = payload
        /\ c.to \in card \cup {Mmi}
    BY <2>1, BodyAsAsked DEF Call
  <2> HIDE DEF c
  <2>3. CASE Succeeds
    <3>1. effect' = Written /\ sent' = sent /\ worker' = "answered"
      BY <2>3 DEF Succeeds
    <3> QED
      BY <1>0, <1>2, <3>1, WrittenAsAsked DEF WritesAsAsked, SentAsAsked
  <2>4. CASE NotFound
    <3>1. sent' = <<c, c>> /\ type = "get_ip_output_status" /\ worker' = worker /\ ack' = ack
      <4>1. sent = <<c>>
        <5>1. Len(sent) = 1 /\ Len(<<c, c>>) = 2
          BY <2>4 DEF NotFound, HasFallback
        <5> QED
          BY <2>1, <5>1
      <4>2. sent' = <<c, c>>
        <5>1. sent[1] = c
          BY <4>1
        <5> QED
          BY <2>4, <4>1, <5>1, SentAgain DEF NotFound
      <4> QED
        BY <2>4, <4>2 DEF NotFound, HasFallback
    <3>2. SentAsAsked'
      BY <1>2, <2>1, <3>1 DEF SentAsAsked, Call, c
    <3>3. \A i \in DOMAIN sent' : sent'[i] = c
      BY <3>1
    <3> QED
      BY <1>0, <1>2, <2>1, <2>2, <2>4, <3>1, <3>2, <3>3, WritesKinds
      DEF WritesAsAsked, Carried, NotFound, CommandInHand
  <2>5. CASE Fails
    <3>1. ack' = VendorError /\ sent' = sent /\ worker' = "answered"
      BY <2>5 DEF Fails
    <3>2. effect' = Nothing \/ effect' = Written
      BY <1>0, <1>2, <2>5 DEF Fails, CommandInHand
    <3> QED
      BY <1>0, <1>2, <3>1, <3>2, WrittenAsAsked
      DEF WritesAsAsked, Carried, SentAsAsked, VendorError
  <2>6. CASE TakenAsDone
    <3>1. /\ effect' = Nothing /\ sent' = sent /\ worker' = "answered"
          /\ excuse' = "taken as done"
      BY <1>0, <1>2, <2>6 DEF TakenAsDone, CommandInHand
    <3> QED
      BY <1>0, <1>2, <3>1 DEF WritesAsAsked, Carried, SentAsAsked
  <2> QED
    BY <1>1, <1>2, <2>3, <2>4, <2>5, <2>6 DEF CommandsNext, Acknowledge
<1>3. CASE Acknowledge
  BY <1>3 DEF Acknowledge, ForgetCommand, WritesAsAsked, Carried, SentAsAsked
<1> QED
  BY <1>1, <1>2, <1>3 DEF CommandsNext, Succeeds, TakenAsDone, NotFound, Fails, request

LEMMA WritesStep ==
  ASSUME CommandsAssumption, IInv, [Next]_vars
  PROVE  WritesAsAsked' /\ SentAsAsked'
<1>0. WritesAsAsked /\ SentAsAsked /\ CommandInHand
  BY DEF IInv
<1>1. CASE Boot
  BY <1>1 DEF Boot, ForgetCommand, WritesAsAsked, Carried, SentAsAsked
<1>2. CASE Ends
  <2>1. worker' \in {"idle", "cut"} /\ ack' = "none"
    BY <1>2, EndsEnd, EndOfLife
  <2>2. CASE sent' = <<>> /\ effect' = Nothing
    BY <2>1, <2>2 DEF WritesAsAsked, Carried, SentAsAsked
  <2>3. CASE UNCHANGED <<type, payload, sent>> /\ effect' = effect
    BY <1>0, <2>1, <2>3 DEF WritesAsAsked, Carried, SentAsAsked
  <2>4. CASE UNCHANGED <<type, payload, sent>> /\ worker = "calling" /\ effect' = Written
    BY <1>0, <2>1, <2>4, WrittenAsAsked DEF WritesAsAsked, Carried, SentAsAsked
  <2>5. CutCommand
    BY <1>2, EndsEnd DEF EndLife
  <2> QED
    BY <2>2, <2>3, <2>4, <2>5 DEF CutCommand, ForgetCommand, request
<1>3. CASE Enters
  <2>1. /\ worker = "idle" /\ worker' = "idle" /\ sent' = sent /\ ack' = ack
        /\ effect' = effect
    BY <1>3, EntersEnter, StepEntered
  <2> QED
    BY <1>0, <2>1 DEF WritesAsAsked, Carried, SentAsAsked, CommandInHand
<1>4. CASE Upgrades
  <2>1. worker = "idle" /\ worker' = "answered" /\ type' = "upgrade_binary" /\ sent' = sent
    BY <1>4 DEF Upgrades, UpgradeRefused, StageUpgrade
  <2>2. type' \notin Writes
    BY <2>1, WritesKinds
  <2> QED
    BY <2>1, <2>2 DEF WritesAsAsked, SentAsAsked, Writes
<1>5. CASE Command
  BY <1>5, CommandWrites DEF Command
<1>6. CASE UNCHANGED commandVars
  BY <1>0, <1>6 DEF commandVars, request, outcome, WritesAsAsked, Carried, SentAsAsked, Call
<1>7. Promote \/ Signs \/ Waits \/ UNCHANGED vars => UNCHANGED commandVars
  BY DEF Promote, Signs, Register, RegistrationLost, SaveCredentials, Waits, IntervalEnds,
    OperatorResets, vars
<1> QED
  BY <1>1, <1>2, <1>3, <1>4, <1>5, <1>6, <1>7, Grouped

(* Only a version without a flaw is left behind by an upgrade.             *)
LEMMA LandingStep ==
  ASSUME IInv, [Next]_vars
  PROVE  Landing'
<1>0. /\ Landing /\ LifecycleTypeOK /\ TrialCounted
      /\ online \in BOOLEAN /\ (online \/ exitDue => phase = "run") /\ exitDue \in BOOLEAN
  BY Zenon DEF IInv, LifecycleTypeOK, FlagsOK
<1>1. CASE UNCHANGED <<flaw, installed, previous, trial, phase, running>> /\ (online' => online)
  BY <1>0, <1>1, Zenon DEF Landing
<1>2. CASE Boot
  <2>1. phase' = "config" /\ online' = online /\ ~online /\ UNCHANGED <<flaw, installed, previous, trial>>
    BY <1>0, <1>2 DEF Boot, upgrade, identity
  <2> QED
    BY <1>0, <2>1 DEF Landing
<1>3. CASE Ends
  <2>1. phase' \in {"down", "failed"} /\ ~online' /\ flaw' = flaw
    BY <1>3, EndsEnd, EndOfLife
  <2>2. CASE WatchdogReverts
    <3>1. trial # "stable" /\ installed' = previous /\ trial' = "stable"
      BY <2>2 DEF WatchdogReverts
    <3> QED
      BY <1>0, <2>1, <3>1 DEF Landing
  <2>3. CASE ~WatchdogReverts
    <3>1. UNCHANGED <<installed, previous, trial>>
      BY <1>3, <2>3 DEF Ends, StepFails, Crash, Stopped, DrainEnds, upgrade
    <3> QED
      BY <1>0, <2>1, <3>1 DEF Landing
  <2> QED
    BY <2>2, <2>3
<1>4. CASE Enters
  <2>1. /\ UNCHANGED <<flaw, installed, previous, running>>
        /\ phase' = StepAfter[phase] /\ phase \in DOMAIN StepAfter
    BY <1>4, EntersEnter DEF Enter
  <2>2. /\ trial' = trial \/ (trial # "stable" /\ trial' # "stable")
        /\ phase = "watchdog" \/ flaw[running] # phase
    <3>1. CASE StepPasses
      BY <3>1 DEF StepPasses, upgrade
    <3>2. CASE WatchdogContinues
      BY <3>2 DEF WatchdogContinues
    <3> QED
      BY <1>4, <3>1, <3>2 DEF Enters
  <2>3. online' => flaw[running] # "mute"
    BY <1>4, EntersEnter, Zenon DEF Enter
  <2>4. \/ phase = "config" /\ phase' = "credentials"
        \/ phase = "credentials" /\ phase' = "watchdog"
        \/ phase = "watchdog" /\ phase' = "connect"
        \/ phase = "connect" /\ phase' = "run"
    BY <2>1 DEF StepAfter
  <2> QED
    BY <1>0, <2>1, <2>2, <2>3, <2>4 DEF Landing
<1>5. CASE Promote
  <2>1. /\ phase = "run" /\ trial = "pending" /\ trial' = "stable" /\ flaw[running] # "crash"
        /\ UNCHANGED <<flaw, installed, previous, phase, running, online>>
    BY <1>5 DEF Promote, process, identity
  <2>2. running = installed
    BY <1>0, <2>1 DEF TrialCounted, Up
  <2> QED
    BY <1>0, <2>1, <2>2 DEF Landing
<1>6. CASE Register
  BY <1>0, <1>6 DEF Register, PresentToken, upgrade, process, Landing
<1>7. CASE Upgrades
  <2>1. PICK v \in Versions : UpgradeRefused(v) \/ StageUpgrade(v)
    BY <1>7 DEF Upgrades
  <2>2. CASE UpgradeRefused(v)
    BY <1>1, <2>2 DEF UpgradeRefused, upgrade, process, identity
  <2>3. CASE StageUpgrade(v)
    <3>1. /\ phase = "run" /\ online /\ trial = "stable" /\ previous' = installed /\ trial' = "staged"
          /\ UNCHANGED <<flaw, phase, running, online>>
      BY <2>3, Zenon DEF StageUpgrade, Online, identity
    <3>2. running = installed
      BY <1>0, <3>1 DEF TrialCounted, Up
    <3>3. flaw[installed] \in KnownFlaws
      BY <1>0 DEF LifecycleTypeOK
    <3>4. flaw[installed] = "none"
      BY <1>0, <3>1, <3>2, <3>3 DEF Landing, KnownFlaws
    <3> QED
      BY <1>0, <3>1, <3>4 DEF Landing
  <2> QED
    BY <2>1, <2>2, <2>3
<1>8. CASE OperatorResets
  BY <1>0, <1>8 DEF OperatorResets, upgrade, identity, Landing
<1>9. RegistrationLost \/ SaveCredentials \/ Command \/ IntervalEnds \/ UNCHANGED vars
        => UNCHANGED <<flaw, installed, previous, trial, phase, running, online>>
  BY DEF RegistrationLost, SaveCredentials, Command, IntervalEnds, vars, upgrade, process, identity
<1> QED
  BY <1>1, <1>2, <1>3, <1>4, <1>5, <1>6, <1>7, <1>8, <1>9, Grouped DEF Signs, Waits

-----------------------------------------------------------------------------
LEMMA InvAlways == Spec => []IInv
<1>1. Init => IInv
  BY InvInit, LifecycleAssumption
<1>2. IInv /\ [Next]_vars => IInv'
  BY TypeStep, FateStep, WritesStep, IdentityStep, TrialStep, LandingStep, LifecycleAssumption,
    CommandsAssumption DEF IInv
<1> QED
  BY <1>1, <1>2, PTL DEF Spec

(* Every variable keeps its type, and a command is in hand only while the  *)
(* process that took it is up and online.                                  *)
THEOREM TypeCorrect == Spec => []LifecycleTypeOK
<1>1. IInv => LifecycleTypeOK
  BY DEF IInv
<1> QED
  BY <1>1, InvAlways, PTL

(* A refusal follows no call, and a write that is not acknowledged has a   *)
(* cause, wherever a life ends (commands.rs:160-1278).                     *)
THEOREM FatesKnown == Spec => []FateKnown
<1>1. IInv => FateKnown
  BY DEF IInv
<1> QED
  BY <1>1, InvAlways, PTL

(* A write the chassis carries out is the one asked for, row by row, and   *)
(* one acknowledged was carried out unless call_rpc took another answer    *)
(* for it (jsonrpc.rs:185-236).                                            *)
THEOREM WritesAreAsAsked == Spec => []WritesAsAsked
<1>1. IInv => WritesAsAsked
  BY DEF IInv
<1> QED
  BY <1>1, InvAlways, PTL

(* Once registered, the credentials are on disk, are owed by this life, or *)
(* were lost in a way the model names.                                     *)
THEOREM IdentitiesKept == Spec => []IdentityKept
<1>1. IInv => IdentityKept
  BY DEF IInv
<1> QED
  BY <1>1, InvAlways, PTL

(* A version that works is reverted only after MaxBootAttempts stops, and  *)
(* always to one that works.                                               *)
LEMMA RevertStep ==
  ASSUME LifecycleAssumption, IInv, [Next]_vars, trial # "stable", installed' # installed
  PROVE  /\ flaw[installed] \notin {"none", "mute"} \/ stops >= MaxBootAttempts
         /\ flaw[installed'] = "none"
<1>1. WatchdogReverts
  <2>1. Boot \/ Enters \/ Promote \/ Signs \/ Command \/ Waits \/ UNCHANGED vars => installed' = installed
    BY DEF Boot, Enters, StepPasses, WatchdogContinues, Promote, Signs, Register, RegistrationLost,
      SaveCredentials, Command, Waits, IntervalEnds, OperatorResets, vars, upgrade
  <2>2. Upgrades => installed' = installed
    BY DEF Upgrades, UpgradeRefused, StageUpgrade, upgrade
  <2>3. StepFails \/ Crash \/ Stopped \/ DrainEnds => installed' = installed
    BY DEF StepFails, Crash, Stopped, DrainEnds, upgrade
  <2> QED
    BY <2>1, <2>2, <2>3, Grouped DEF Ends
<1>2. attempts \in Nat /\ stops \in Nat /\ MaxBootAttempts \in Nat
  <2>1. MaxBootAttempts \in Nat
    BY DEF LifecycleAssumption
  <2>2. attempts \in 0..MaxBootAttempts /\ stops \in Nat
    BY DEF IInv, LifecycleTypeOK
  <2> QED
    BY <2>1, <2>2
<1>3. attempts + 1 > MaxBootAttempts
  BY <1>1 DEF WatchdogReverts, Exhausted
<1>4. Works(installed) => attempts <= stops
  BY <1>1 DEF IInv, TrialCounted, WatchdogReverts, PastWatchdog
<1>5. flaw[installed'] = "none"
  BY <1>1 DEF WatchdogReverts, IInv, Landing
<1> QED
  BY <1>2, <1>3, <1>4, <1>5 DEF Works

THEOREM RevertsEarned == Spec => RevertsAreEarned
<1>1. IInv /\ [Next]_vars
        => [trial # "stable" /\ installed' # installed
              => /\ flaw[installed] \notin {"none", "mute"} \/ stops >= MaxBootAttempts
                 /\ flaw[installed'] = "none"]_vars
  BY RevertStep, LifecycleAssumption
<1> QED
  BY <1>1, InvAlways, PTL DEF Spec, RevertsAreEarned
=============================================================================
