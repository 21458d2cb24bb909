------------------------------- MODULE Capabilities -------------------------------
(***************************************************************************)
(* Capability discovery (src/src/appear_x/capabilities.rs:105-294) and the *)
(* gate it puts before every command (src/src/appear_x/commands.rs:898-    *)
(* 920, 1031-1070, 1173-1237) and every card poller.                       *)
(*                                                                         *)
(* Discovery walks the slots, for each the entries of the probe registry,  *)
(* and for each entry its versions, in order, until one answers.  Any      *)
(* error means "not there": an answer lost on the way counts as one.  What *)
(* it finds is kept until the process ends.                                *)
(*                                                                         *)
(* A card that GetChassisInfo does not list speaks nothing here.  Each RPC *)
(* is one step; what the session does for it is in RpcSession.             *)
(***************************************************************************)
EXTENDS Integers, Sequences

CONSTANTS
  NumSlots,     (* the slots of the chassis                                *)
  NumEntries,   (* the entries of CARD_PROBES, in their order              *)
  NumVersions,  (* the versions of an entry, counted down from the first   *)
  Requests,     (* for each command the entries that can serve it, by rank *)
  MaxChanges    (* bound: cards booted, swapped or upgraded meanwhile      *)

Slots == 1..NumSlots
Entries == 1..NumEntries
Versions == 1..NumVersions
Absent == 0

ASSUME CapabilitiesAssumption ==
  /\ NumSlots \in Nat \ {0} /\ NumEntries \in Nat \ {0} /\ NumVersions \in Nat \ {0}
  /\ MaxChanges \in Nat
  /\ Requests \subseteq Seq(Entries) \ {<<>>}

VARIABLES
  speaks,    (* environment: the versions each card answers, per entry     *)
  changes,   (* environment: cards changed so far                          *)
  stage,     (* where discovery is                                         *)
  cursor,    (* the slot, entry and version of the next probe              *)
  found,     (* discovered_modules: the version kept, per slot and entry   *)
  lost,      (* history: entries of which a good probe answer was lost     *)
  changed,   (* history: entries whose card changed once probed            *)
  asked,     (* history: the slot and candidates of the last command       *)
  reply      (* history: what became of it                                 *)

discovery == <<stage, cursor, found, lost>>
command == <<asked, reply>>
vars == <<speaks, changes, discovery, changed, command>>

First == <<1, 1, NumVersions>>

NothingFound == [s \in Slots |-> [e \in Entries |-> Absent]]

Init ==
  /\ speaks \in [Slots -> [Entries -> SUBSET Versions]]
  /\ changes = 0
  /\ stage = "authenticate"
  /\ cursor = First
  /\ found = NothingFound
  /\ lost = {}
  /\ changed = {}
  /\ asked = <<>>
  /\ reply = "none"

-----------------------------------------------------------------------------
LogIn ==
  /\ stage = "authenticate"
  /\ stage' = "chassis"
  /\ UNCHANGED <<speaks, changes, cursor, found, lost, changed, command>>

(* GetChassisInfo at the first MMI version that answers.                   *)
ReadChassis ==
  /\ stage = "chassis"
  /\ stage' = "probe"
  /\ UNCHANGED <<speaks, changes, cursor, found, lost, changed, command>>

(* None answers: discover returns the error and is called again later.     *)
ChassisLost ==
  /\ stage = "chassis"
  /\ stage' = "authenticate"
  /\ UNCHANGED <<speaks, changes, cursor, found, lost, changed, command>>

Slot == cursor[1]
Entry == cursor[2]
Version == cursor[3]

NextEntry ==
  \/ /\ Entry < NumEntries
     /\ cursor' = <<Slot, Entry + 1, NumVersions>>
     /\ UNCHANGED stage
  \/ /\ Entry = NumEntries /\ Slot < NumSlots
     /\ cursor' = <<Slot + 1, 1, NumVersions>>
     /\ UNCHANGED stage
  \/ /\ Entry = NumEntries /\ Slot = NumSlots
     /\ stage' = "done"
     /\ cursor' = First

PastLast == cursor' = <<Slot, Entry, Version - 1>> /\ UNCHANGED stage
NextVersion ==
  \/ Version > 1 /\ cursor' = <<Slot, Entry, Version - 1>> /\ UNCHANGED stage
  \/ Version = 1 /\ NextEntry

(* The versions after the one that answered are not tried.                 *)
TryAllVersions == NextVersion
StopAtAnswer == NextEntry

ProbeAnswered ==
  /\ stage = "probe"
  /\ Version \in speaks[Slot][Entry]
  /\ found' = [found EXCEPT ![Slot][Entry] = Version]
  /\ StopAtAnswer
  /\ UNCHANGED <<speaks, changes, lost, changed, command>>

(* "Method not found", and equally a timeout or a refused connection.      *)
InsistOnVersion == UNCHANGED <<cursor, stage>>
AfterError == NextVersion

ProbeRefused ==
  /\ stage = "probe"
  /\ Version \notin speaks[Slot][Entry]
  /\ AfterError
  /\ UNCHANGED <<speaks, changes, found, lost, changed, command>>

ProbeLost ==
  /\ stage = "probe"
  /\ Version \in speaks[Slot][Entry]
  /\ lost' = lost \cup {<<Slot, Entry>>}
  /\ AfterError
  /\ UNCHANGED <<speaks, changes, found, changed, command>>

-----------------------------------------------------------------------------
(* A command, or a poll, of an entry: discovered_version, then the call.   *)
(* hip_call and clear_all_counters have two candidates, the others one.    *)

FirstOnly(slot, candidates) == {i \in {1} : found[slot][candidates[i]] # Absent}
Discovered(slot, candidates) ==
  {i \in DOMAIN candidates : found[slot][candidates[i]] # Absent}

(* The version the method is spelled with.                                 *)
FirstChoice(slot, entry) == NumVersions
VersionFor(slot, entry) == found[slot][entry]

RefuseCommand(slot, candidates) ==
  /\ stage = "done"
  /\ Discovered(slot, candidates) = {}
  /\ asked' = <<slot, candidates>>
  /\ reply' = "unsupported_on_card"
  /\ UNCHANGED <<speaks, changes, discovery, changed>>

CallCard(slot, candidates) ==
  /\ stage = "done"
  /\ \E i \in Discovered(slot, candidates) :
       LET entry == candidates[i]
       IN  /\ \A j \in Discovered(slot, candidates) : i <= j
           /\ reply' \in {"call_lost",
                IF VersionFor(slot, entry) \in speaks[slot][entry]
                  THEN "result" ELSE "method_not_found"}
  /\ asked' = <<slot, candidates>>
  /\ UNCHANGED <<speaks, changes, discovery, changed>>

-----------------------------------------------------------------------------
(* A card finishes booting, is swapped or gets other firmware.             *)
Past(slot, entry) ==
  \/ stage = "done"
  \/ stage = "probe" /\ (slot < Slot \/ (slot = Slot /\ entry < Entry))

Probed(slot, entry) ==
  \/ Past(slot, entry)
  \/ stage = "probe" /\ slot = Slot /\ entry = Entry /\ Version < NumVersions

CardChanges(slot) ==
  /\ changes < MaxChanges
  /\ changes' = changes + 1
  /\ \E now \in [Entries -> SUBSET Versions] : speaks' = [speaks EXCEPT ![slot] = now]
  /\ changed' = changed \cup {<<slot, e>> : e \in {e \in Entries : Probed(slot, e)}}
  /\ UNCHANGED <<discovery, command>>

Probe == ProbeAnswered \/ ProbeRefused \/ ProbeLost

Discover == LogIn \/ ReadChassis \/ ChassisLost \/ Probe

Next ==
  \/ Discover
  \/ \E s \in Slots :
       \/ \E r \in Requests : RefuseCommand(s, r) \/ CallCard(s, r)
       \/ CardChanges(s)

Spec == Init /\ [][Next]_vars

(* The discovery task runs whenever it is ready, and one of its attempts   *)
(* to log in succeeds: Startup models the ones that do not.                *)
FairSpec == Spec /\ WF_vars(Discover)

-----------------------------------------------------------------------------
TypeOK ==
  /\ speaks \in [Slots -> [Entries -> SUBSET Versions]]
  /\ changes \in 0..MaxChanges
  /\ stage \in {"authenticate", "chassis", "probe", "done"}
  /\ cursor \in Slots \X Entries \X Versions
  /\ found \in [Slots -> [Entries -> Versions \cup {Absent}]]
  /\ lost \subseteq Slots \X Entries
  /\ changed \subseteq Slots \X Entries
  /\ asked \in {<<>>} \cup (Slots \X Requests)
  /\ reply \in {"none", "unsupported_on_card", "call_lost", "result", "method_not_found"}

Unreliable == lost \cup changed

(* Discovery keeps the first version a card speaks, or that it speaks      *)
(* none, for every entry it is past: only an answer lost on the way or a   *)
(* card that changed since can make its record wrong.                      *)
PreferredIsFound ==
  \A s \in Slots, e \in Entries :
    Past(s, e) /\ <<s, e>> \notin Unreliable =>
      \/ found[s][e] \in speaks[s][e] /\ \A v \in speaks[s][e] : v <= found[s][e]
      \/ found[s][e] = Absent /\ speaks[s][e] = {}

(* The gate of commands.rs:1031-1037 and 1050-1052: no call reaches a card *)
(* that does not know the method, even when discovery missed answers; only *)
(* a card changed since can refuse one.                                    *)
NoBlindCall ==
  reply = "method_not_found" =>
    \E i \in DOMAIN asked[2] : <<asked[1], asked[2][i]>> \in changed

(* A command refused as unsupported_on_card is one that no interface of    *)
(* the card can serve, unless discovery lost an answer or the card changed.*)
RefusalIsTrue ==
  reply = "unsupported_on_card" =>
    \A i \in DOMAIN asked[2] :
      \/ speaks[asked[1]][asked[2][i]] = {}
      \/ <<asked[1], asked[2][i]>> \in Unreliable

(* Both sides of the gate: what it lets through the card understands, what *)
(* it stops the card could not have served.                                *)
GateIsRight == NoBlindCall /\ RefusalIsTrue

(* Once no answer is lost any more, discovery ends.                        *)
ChassisAnswers == <>[][~ChassisLost]_vars

DiscoveryEnds == ChassisAnswers => <>(stage = "done")
=============================================================================
