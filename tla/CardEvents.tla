-------------------------------- MODULE CardEvents --------------------------------
(***************************************************************************)
(* The synthetic events of one card: its cardStatus poller compares each   *)
(* GetCardStatus answer with the one before and emits an event where a     *)
(* signal crosses its threshold (src/src/appear_x/polling.rs:1513-1665),   *)
(* while the stats carry health signals derived from the same answer       *)
(* (src/src/appear_x/state.rs:817-990).                                    *)
(*                                                                         *)
(* A reading of a port is abstracted to the side of the threshold it is    *)
(* on, and the ports of a card to the set of their readings.  The answer   *)
(* is stored first, where the stats may show it at once, and the events    *)
(* follow one await each; the next poll of the card waits for them.  A     *)
(* failed poll changes nothing.                                            *)
(***************************************************************************)
CONSTANT NoStatus   (* no answer yet *)

VARIABLES
  status,     (* card_status[slot]: the last answer                        *)
  pending,    (* the signals whose event is made but not emitted yet       *)
  told,       (* history: per signal, what the last event sent said        *)
  unsent,     (* history: signals whose last event the gate dropped        *)
  vanished    (* history: signals that went from bad to not measured, and  *)
              (* have had no event since                                   *)

vars == <<status, pending, told, unsent, vanished>>

Signals == {"ptp", "rx", "temp"}

(* ptp is the state field of ptpLock; rx and temp are the readings of the  *)
(* ports that have one.  No light at all has no dBm value: no reading.     *)
Statuses ==
  [ptp  : {"none", "LOCKED", "Locked", "UNLOCKED"},
   rx   : SUBSET {"bad", "good"},
   temp : SUBSET {"bad", "good"}]

ASSUME NoStatusAssumption == NoStatus \notin Statuses

Init ==
  /\ status = NoStatus
  /\ pending = {}
  /\ told = [s \in Signals |-> "nothing"]
  /\ unsent = {}
  /\ vanished = {}

-----------------------------------------------------------------------------
(* min_rx_dbm and max_temp: the worst reading, if there is any.            *)
Best(readings) ==
  IF readings = {} THEN "none" ELSE IF "good" \in readings THEN "good" ELSE "bad"
Worst(readings) ==
  IF readings = {} THEN "none" ELSE IF "bad" \in readings THEN "bad" ELSE "good"

(* For the PTP events anything but an exact LOCKED is not locked.          *)
MaybeLocked(card) == card.ptp # "UNLOCKED"
Locked(card) == card.ptp = "LOCKED"

SkipAbsentLock(card) ==
  [ptp  |-> IF Locked(card) THEN "good" ELSE IF card.ptp = "none" THEN "none" ELSE "bad",
   rx   |-> Worst(card.rx),
   temp |-> Worst(card.temp)]
ReadSignals(card) ==
  [ptp  |-> IF Locked(card) THEN "good" ELSE "bad",
   rx   |-> Worst(card.rx),
   temp |-> Worst(card.temp)]

Before(signal) ==
  IF status = NoStatus THEN "none" ELSE ReadSignals(status)[signal]

(* The first answer makes no PTP event, but it may make the others.        *)
PtpEdge(now) == Before("ptp") \notin {"none", now.ptp}

NeverRecovers(signal, now) == now[signal] = "bad" /\ Before(signal) # "bad"
LevelEdge(signal, now) ==
  \/ now[signal] = "bad" /\ Before(signal) # "bad"
  \/ now[signal] = "good" /\ Before(signal) = "bad"

(* derive_card_status_events: the signals an event is made for.            *)
Edges(now) ==
  {s \in Signals : IF s = "ptp" THEN PtpEdge(now) ELSE LevelEdge(s, now)}

(* set_card_status stores the answer; the events are made from the two.    *)
PollCard ==
  /\ pending = {}
  /\ \E card \in Statuses :
       LET now == ReadSignals(card)
       IN  /\ status' = card
           /\ pending' = Edges(now)
           /\ vanished' = vanished
                \cup {s \in Signals : Before(s) = "bad" /\ now[s] = "none"}
  /\ UNCHANGED <<told, unsent>>

(* The events go through the gate one by one, in the order they were made. *)
Earlier == [ptp |-> {}, rx |-> {"ptp"}, temp |-> {"ptp", "rx"}]

EmitEvent(s) ==
  /\ s \in pending
  /\ pending \cap Earlier[s] = {}
  /\ \/ /\ told' = [told EXCEPT ![s] = ReadSignals(status)[s]]
        /\ unsent' = unsent \ {s}
     \/ /\ UNCHANGED told
        /\ unsent' = unsent \cup {s}
  /\ pending' = pending \ {s}
  /\ vanished' = vanished \ {s}
  /\ UNCHANGED status

Next == PollCard \/ \E s \in Signals : EmitEvent(s)

Spec == Init /\ [][Next]_vars

(* extract_ptp_locked: what the stats say of the PTP lock.                 *)
HealthPtp(card) ==
  CASE card.ptp = "none"                -> "unknown"
    [] card.ptp \in {"LOCKED", "Locked"} -> "locked"
    [] OTHER                            -> "unlocked"

-----------------------------------------------------------------------------
(* Shape of the state.  Only a port reading can vanish: the PTP events of  *)
(* derive_card_status_events treat an absent ptpLock as a lost lock.       *)
TypeOK ==
  /\ status \in Statuses \cup {NoStatus}
  /\ pending \subseteq Signals
  /\ told \in [Signals -> {"nothing", "bad", "good"}]
  /\ unsent \subseteq Signals
  /\ vanished \subseteq {"rx", "temp"}

(* What the last answer itself says of a signal, whatever is read from it. *)
Beyond(signal) ==
  /\ status # NoStatus
  /\ IF signal = "ptp" THEN status.ptp # "LOCKED" ELSE "bad" \in status[signal]

(* No crossing is missed: while any port is measured beyond its threshold, *)
(* or the lock is gone, the manager was told so.  The exceptions are an    *)
(* event about to be emitted, one the gate dropped and a card that never   *)
(* had a lock.                                                             *)
BadIsTold ==
  \A s \in Signals \ (pending \cup unsent) :
    Beyond(s) => told[s] = "bad" \/ (s = "ptp" /\ told[s] = "nothing")

(* No alarm is left behind: once no port is measured beyond its threshold  *)
(* the manager does not believe one is, unless the recovery is about to be *)
(* emitted, the gate dropped it, or the reading vanished while it was bad: *)
(* derive_card_status_events then has nothing to compare and the event is  *)
(* never taken back.                                                       *)
RecoveryIsTold ==
  \A s \in Signals \ (pending \cup unsent \cup vanished) :
    ~Beyond(s) => told[s] # "bad"

(* So, up to those gaps, what the manager believes of a signal is what the *)
(* last answer says of it.                                                 *)
CrossingsTold == BadIsTold /\ RecoveryIsTold

(* The events implement the mirror: there is one only where the answer     *)
(* itself crosses a threshold, and it says the side that answer is on,     *)
(* whatever the code reads from it and compares it with.                   *)
Mirror == INSTANCE CardMirror WITH
  beyond <- {s \in Signals : Beyond(s)}, due <- pending

EventsAreCrossings == Mirror!Spec

(* The two derivations of the PTP lock agree, whenever the stats are read  *)
(* except between an answer and its event: the events never claim a lock   *)
(* the stats do not show, nor a lost lock the stats show.  The one gap is  *)
(* the spelling, which ptp_state_of takes exactly and extract_ptp_locked   *)
(* without case: a lock spelt otherwise is lost for the events only.       *)
EventsAgreeWithStats ==
  "ptp" \notin pending \cup unsent =>
    /\ told["ptp"] = "good" => HealthPtp(status) = "locked"
    /\ told["ptp"] = "bad" /\ HealthPtp(status) = "locked" => status.ptp = "Locked"
=============================================================================
