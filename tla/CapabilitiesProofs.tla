--------------------------- MODULE CapabilitiesProofs ---------------------------
(***************************************************************************)
(* Proofs about discovery and the gate before the commands.                *)
(* PreferredIsFound is not inductive: while an entry is being probed one   *)
(* must also know that nothing was found for it yet and that no version    *)
(* before the one at the cursor is spoken (Search), and that discovery has *)
(* not reached the entries after it (Ahead).  NoBlindCall rests on         *)
(* FoundSpoke, which holds even of the entries discovery got wrong.        *)
(***************************************************************************)
EXTENDS Capabilities, TLAPS

Current(s, e) == stage = "probe" /\ s = Slot /\ e = Entry

(* Only entries that discovery is past have a record.                      *)
Ahead ==
  /\ stage \in {"authenticate", "chassis"} => cursor = First
  /\ \A s \in Slots, e \in Entries : ~Past(s, e) => found[s][e] = Absent

(* The versions before the one being tried have not answered.              *)
Search ==
  \A s \in Slots, e \in Entries :
    Current(s, e) /\ <<s, e>> \notin Unreliable =>
      \A v \in speaks[s][e] : v <= Version

(* A record is of a version that answered.                                 *)
FoundSpoke ==
  \A s \in Slots, e \in Entries :
    found[s][e] # Absent => found[s][e] \in speaks[s][e] \/ <<s, e>> \in changed

(* A command was asked once discovery was done.                            *)
AskedWhenDone ==
  reply # "none" => stage = "done" /\ asked \in Slots \X Requests

IInv ==
  /\ TypeOK /\ Ahead /\ Search /\ FoundSpoke /\ AskedWhenDone
  /\ PreferredIsFound /\ NoBlindCall /\ RefusalIsTrue

(* The candidates of a command are entries, and there is at least one.     *)
LEMMA CandidatesAreEntries ==
  ASSUME NEW r \in Requests
  PROVE  /\ r \in Seq(Entries)
         /\ \A i \in DOMAIN r : r[i] \in Entries
  BY CapabilitiesAssumption

LEMMA Initially == Init => IInv
<1> SUFFICES ASSUME Init PROVE IInv
  OBVIOUS
<1>1. First \in Slots \X Entries \X Versions
  BY CapabilitiesAssumption DEF First, Slots, Entries, Versions
<1>2. NothingFound \in [Slots -> [Entries -> Versions \cup {Absent}]]
  BY DEF NothingFound
<1>3. TypeOK
  BY <1>1, <1>2, CapabilitiesAssumption DEF Init, TypeOK
<1>4. Ahead /\ Search /\ FoundSpoke /\ AskedWhenDone /\ PreferredIsFound
  BY DEF Init, Ahead, Search, FoundSpoke, AskedWhenDone, PreferredIsFound, Past, Current, NothingFound
<1>5. NoBlindCall /\ RefusalIsTrue
  BY DEF Init, NoBlindCall, RefusalIsTrue
<1> QED
  BY <1>3, <1>4, <1>5 DEF IInv

(* The parts of the invariant that commands add to.                        *)
LEMMA CommandsUntouched ==
  ASSUME IInv, stage # "done", UNCHANGED <<speaks, changes, changed, command>>
  PROVE  AskedWhenDone' /\ NoBlindCall' /\ RefusalIsTrue'
  BY DEF IInv, command, AskedWhenDone, NoBlindCall, RefusalIsTrue

(* How the cursor moves: to the next entry, which nothing was asked of.    *)
LEMMA MoveOn ==
  ASSUME TypeOK, stage = "probe", NextEntry
  PROVE  /\ stage' \in {"probe", "done"}
         /\ cursor' \in Slots \X Entries \X Versions
         /\ \A s \in Slots, e \in Entries : Past(s, e)' => Past(s, e) \/ Current(s, e)
         /\ \A s \in Slots, e \in Entries : Past(s, e) \/ Current(s, e) => Past(s, e)'
         /\ stage' = "probe" => cursor'[3] = NumVersions
<1>1. /\ cursor = <<Slot, Entry, Version>>
      /\ Slot \in 1..NumSlots /\ Entry \in 1..NumEntries /\ Version \in 1..NumVersions
  BY DEF TypeOK, Slots, Entries, Versions, Slot, Entry, Version
<1>2. CASE Entry < NumEntries /\ cursor' = <<Slot, Entry + 1, NumVersions>> /\ UNCHANGED stage
  BY <1>1, <1>2, CapabilitiesAssumption
     DEF Past, Current, Slots, Entries, Versions, Slot, Entry, Version
<1>3. CASE /\ Entry = NumEntries /\ Slot < NumSlots
           /\ cursor' = <<Slot + 1, 1, NumVersions>> /\ UNCHANGED stage
  BY <1>1, <1>3, CapabilitiesAssumption
     DEF Past, Current, Slots, Entries, Versions, Slot, Entry, Version
<1>4. CASE Entry = NumEntries /\ Slot = NumSlots /\ stage' = "done" /\ cursor' = First
  BY <1>1, <1>4, CapabilitiesAssumption
     DEF Past, Current, Slots, Entries, Versions, Slot, Entry, First
<1> QED
  BY <1>2, <1>3, <1>4 DEF NextEntry

(* A probe keeps the invariant if what it adds to the record is right.     *)
LEMMA EntryEnds ==
  ASSUME IInv, stage = "probe", NextEntry,
         UNCHANGED <<speaks, changes, changed, command>>,
         NEW kept \in Versions \cup {Absent},
         found' = [found EXCEPT ![Slot][Entry] = kept],
         lost' \in {lost, lost \cup {<<Slot, Entry>>}},
         kept # Absent => kept \in speaks[Slot][Entry],
         <<Slot, Entry>> \notin lost' \cup changed =>
           \/ kept # Absent /\ \A v \in speaks[Slot][Entry] : v <= kept
           \/ kept = Absent /\ speaks[Slot][Entry] = {}
  PROVE  IInv'
<1>1. TypeOK /\ Slot \in Slots /\ Entry \in Entries
  BY DEF IInv, TypeOK, Slot, Entry
<1>2. /\ stage' \in {"probe", "done"}
      /\ cursor' \in Slots \X Entries \X Versions
      /\ \A s \in Slots, e \in Entries : Past(s, e)' <=> Past(s, e) \/ Current(s, e)
      /\ stage' = "probe" => cursor'[3] = NumVersions
  BY <1>1, MoveOn
<1>3. \A s \in Slots, e \in Entries :
        found'[s][e] = IF s = Slot /\ e = Entry THEN kept ELSE found[s][e]
  BY <1>1 DEF TypeOK
<1>4. TypeOK'
  <2>1. found' \in [Slots -> [Entries -> Versions \cup {Absent}]]
    BY <1>1 DEF TypeOK
  <2>2. lost' \subseteq Slots \X Entries
    BY <1>1 DEF TypeOK
  <2> QED
    BY <1>1, <1>2, <2>1, <2>2 DEF TypeOK, command
<1>5. Ahead'
  BY <1>2, <1>3 DEF IInv, Ahead, Current
<1>6. Search'
  <2> SUFFICES ASSUME NEW s \in Slots, NEW e \in Entries, stage' = "probe"
               PROVE  \A v \in speaks[s][e] : v <= NumVersions
    BY <1>2 DEF Search, Current, Version
  <2> QED
    BY <1>1, CapabilitiesAssumption DEF TypeOK, Versions
<1>7. FoundSpoke'
  BY <1>3 DEF IInv, FoundSpoke
<1>8. PreferredIsFound'
  <2> SUFFICES ASSUME NEW s \in Slots, NEW e \in Entries, Past(s, e)',
                      <<s, e>> \notin Unreliable'
               PROVE  \/ found'[s][e] \in speaks[s][e]
                         /\ \A v \in speaks[s][e] : v <= found'[s][e]
                      \/ found'[s][e] = Absent /\ speaks[s][e] = {}
    BY DEF PreferredIsFound
  <2>1. CASE s = Slot /\ e = Entry
    BY <2>1, <1>3 DEF Unreliable
  <2>2. CASE ~(s = Slot /\ e = Entry)
    BY <2>2, <1>2, <1>3 DEF IInv, PreferredIsFound, Unreliable, Current
  <2> QED
    BY <2>1, <2>2
<1>9. AskedWhenDone' /\ NoBlindCall' /\ RefusalIsTrue'
  BY CommandsUntouched
<1> QED
  BY <1>4, <1>5, <1>6, <1>7, <1>8, <1>9 DEF IInv

(* The same when the next version of the entry is tried.                   *)
LEMMA NextIsTried ==
  ASSUME IInv, stage = "probe", Version > 1,
         cursor' = <<Slot, Entry, Version - 1>>,
         UNCHANGED <<stage, speaks, changes, found, changed, command>>,
         lost' \in {lost, lost \cup {<<Slot, Entry>>}},
         <<Slot, Entry>> \notin lost' => Version \notin speaks[Slot][Entry]
  PROVE  IInv'
<1>1. /\ TypeOK /\ Slot \in Slots /\ Entry \in Entries /\ Version \in Versions
      /\ cursor = <<Slot, Entry, Version>>
  BY DEF IInv, TypeOK, Slot, Entry, Version
<1>2. /\ cursor' \in Slots \X Entries \X Versions
      /\ Slot' = Slot /\ Entry' = Entry /\ Version' = Version - 1
  <2>1. Version - 1 \in Versions
    BY <1>1, CapabilitiesAssumption DEF Versions
  <2> QED
    BY <1>1, <2>1 DEF Slot, Entry, Version
<1>3. \A s \in Slots, e \in Entries : /\ Past(s, e)' <=> Past(s, e)
                                      /\ Current(s, e)' <=> Current(s, e)
  BY <1>2 DEF Past, Current
<1>4. TypeOK'
  BY <1>1, <1>2 DEF TypeOK, command
<1>5. Ahead' /\ FoundSpoke'
  BY <1>3 DEF IInv, Ahead, FoundSpoke
<1>6. Search'
  <2> SUFFICES ASSUME Current(Slot, Entry), <<Slot, Entry>> \notin Unreliable',
                      NEW v \in speaks[Slot][Entry]
               PROVE  v <= Version - 1
    BY <1>2, <1>3 DEF Search, Current
  <2>1. v <= Version /\ v # Version
    BY <1>1 DEF IInv, Search, Unreliable
  <2>2. v \in Versions
    BY <1>1 DEF TypeOK
  <2> QED
    BY <1>1, <2>1, <2>2 DEF Versions
<1>7. PreferredIsFound'
  BY <1>3 DEF IInv, PreferredIsFound, Unreliable
<1>8. AskedWhenDone' /\ NoBlindCall' /\ RefusalIsTrue'
  BY CommandsUntouched
<1> QED
  BY <1>4, <1>5, <1>6, <1>7, <1>8 DEF IInv

(* A probe that fails, whether refused or lost.                            *)
LEMMA ProbeFails ==
  ASSUME IInv, stage = "probe", AfterError,
         UNCHANGED <<speaks, changes, found, changed, command>>,
         lost' \in {lost, lost \cup {<<Slot, Entry>>}},
         <<Slot, Entry>> \notin lost' => Version \notin speaks[Slot][Entry]
  PROVE  IInv'
<1>1. TypeOK /\ Slot \in Slots /\ Entry \in Entries /\ Version \in Versions
  BY DEF IInv, TypeOK, Slot, Entry, Version
<1>2. CASE Version > 1 /\ cursor' = <<Slot, Entry, Version - 1>> /\ UNCHANGED stage
  BY <1>2, NextIsTried
<1>3. CASE Version = 1 /\ NextEntry
  <2>1. found[Slot][Entry] = Absent
    <3>1. ~Past(Slot, Entry)
      BY <1>1 DEF Past, Slots, Entries
    <3> QED
      BY <1>1, <3>1 DEF IInv, Ahead
  <2>2. found' = [found EXCEPT ![Slot][Entry] = Absent]
    BY <1>1, <2>1 DEF TypeOK
  <2>3. ASSUME <<Slot, Entry>> \notin lost' \cup changed
        PROVE  speaks[Slot][Entry] = {}
    <3>1. \A v \in speaks[Slot][Entry] : v \in Versions /\ v <= 1 /\ v # 1
      BY <1>1, <1>3, <2>3 DEF IInv, Search, Current, Unreliable, TypeOK
    <3> QED
      BY <3>1 DEF Versions
  <2> QED
    BY <1>3, <2>2, <2>3, EntryEnds
<1> QED
  BY <1>2, <1>3 DEF AfterError, NextVersion

LEMMA Inductive == IInv /\ [Next]_vars => IInv'
<1> SUFFICES ASSUME IInv, [Next]_vars PROVE IInv'
  OBVIOUS
<1>0. TypeOK
  BY DEF IInv
<1>1. CASE LogIn \/ ReadChassis \/ ChassisLost
  <2>1. stage \in {"authenticate", "chassis"} /\ cursor = First
    BY <1>1 DEF LogIn, ReadChassis, ChassisLost, IInv, Ahead
  <2>2. stage' \in {"authenticate", "chassis", "probe"}
        /\ UNCHANGED <<speaks, changes, cursor, found, lost, changed, command>>
    BY <1>1 DEF LogIn, ReadChassis, ChassisLost
  <2>3. First = <<1, 1, NumVersions>> /\ Slot' = 1 /\ Entry' = 1 /\ Version' = NumVersions
    BY <2>1, <2>2 DEF First, Slot, Entry, Version
  <2>4. \A s \in Slots, e \in Entries : ~Past(s, e) /\ ~Past(s, e)'
    BY <2>1, <2>2, <2>3, CapabilitiesAssumption DEF Past, Slots, Entries
  <2>5. TypeOK'
    BY <1>0, <2>2 DEF TypeOK, command
  <2>6. Ahead' /\ PreferredIsFound' /\ FoundSpoke'
    BY <2>1, <2>2, <2>4 DEF IInv, Ahead, PreferredIsFound, FoundSpoke
  <2>7. Search'
    <3>1. \A s \in Slots, e \in Entries : \A v \in speaks[s][e] : v <= NumVersions
      BY <1>0, CapabilitiesAssumption DEF TypeOK, Versions
    <3> QED
      BY <2>2, <2>3, <3>1 DEF Search
  <2>8. AskedWhenDone' /\ NoBlindCall' /\ RefusalIsTrue'
    BY <2>1, <2>2, CommandsUntouched
  <2> QED
    BY <2>5, <2>6, <2>7, <2>8 DEF IInv
<1>2. CASE ProbeAnswered
  <2>1. Version \in Versions /\ Slot \in Slots /\ Entry \in Entries
    BY <1>0 DEF TypeOK, Slot, Entry, Version
  <2>2. Version # Absent
    BY <2>1, CapabilitiesAssumption DEF Versions, Absent
  <2>3. <<Slot, Entry>> \notin lost \cup changed =>
          \A v \in speaks[Slot][Entry] : v <= Version
    BY <1>2, <2>1 DEF ProbeAnswered, IInv, Search, Current, Unreliable
  <2> QED
    BY <1>2, <2>1, <2>2, <2>3, EntryEnds DEF ProbeAnswered, StopAtAnswer
<1>3. CASE ProbeRefused
  BY <1>3, ProbeFails DEF ProbeRefused
<1>4. CASE ProbeLost
  BY <1>4, ProbeFails DEF ProbeLost
<1>5. ASSUME NEW s \in Slots, NEW r \in Requests, RefuseCommand(s, r)
      PROVE  IInv'
  <2>1. asked' = <<s, r>> /\ reply' = "unsupported_on_card" /\ stage = "done"
        /\ UNCHANGED <<speaks, changes, stage, cursor, found, lost, changed>>
    BY <1>5 DEF RefuseCommand, discovery
  <2>2. TypeOK'
    BY <1>0, <2>1 DEF TypeOK
  <2>3. Ahead' /\ Search' /\ FoundSpoke' /\ PreferredIsFound'
    BY <2>1 DEF IInv, Ahead, Search, FoundSpoke, PreferredIsFound, Past, Current,
                Unreliable, Slot, Entry, Version
  <2>4. AskedWhenDone' /\ NoBlindCall'
    BY <2>1 DEF AskedWhenDone, NoBlindCall
  <2>5. RefusalIsTrue'
    <3> SUFFICES ASSUME NEW i \in DOMAIN r
                 PROVE  speaks[s][r[i]] = {} \/ <<s, r[i]>> \in Unreliable
      BY <2>1 DEF RefusalIsTrue, Unreliable
    <3>1. r[i] \in Entries /\ found[s][r[i]] = Absent
      BY <1>5, CandidatesAreEntries DEF RefuseCommand, Discovered
    <3>2. Absent \notin speaks[s][r[i]]
      BY <1>0, <3>1 DEF TypeOK, Versions, Absent
    <3> QED
      BY <2>1, <3>1, <3>2 DEF IInv, PreferredIsFound, Past
  <2> QED
    BY <2>2, <2>3, <2>4, <2>5 DEF IInv
<1>6. ASSUME NEW s \in Slots, NEW r \in Requests, CallCard(s, r)
      PROVE  IInv'
  <2>1. asked' = <<s, r>> /\ stage = "done"
        /\ UNCHANGED <<speaks, changes, stage, cursor, found, lost, changed>>
    BY <1>6 DEF CallCard, discovery
  <2>2. PICK i \in Discovered(s, r) :
          reply' \in {"call_lost", IF VersionFor(s, r[i]) \in speaks[s][r[i]]
                                     THEN "result" ELSE "method_not_found"}
    BY <1>6 DEF CallCard
  <2>3. TypeOK'
    BY <1>0, <2>1, <2>2 DEF TypeOK
  <2>4. Ahead' /\ Search' /\ FoundSpoke' /\ PreferredIsFound'
    BY <2>1 DEF IInv, Ahead, Search, FoundSpoke, PreferredIsFound, Past, Current,
                Unreliable, Slot, Entry, Version
  <2>5. AskedWhenDone' /\ RefusalIsTrue'
    BY <2>1, <2>2 DEF AskedWhenDone, RefusalIsTrue
  <2>6. NoBlindCall'
    <3> SUFFICES ASSUME reply' = "method_not_found"
                 PROVE  \E k \in DOMAIN r : <<s, r[k]>> \in changed
      BY <2>1 DEF NoBlindCall
    <3>1. i \in DOMAIN r /\ r[i] \in Entries /\ found[s][r[i]] # Absent
      BY <2>2, CandidatesAreEntries DEF Discovered
    <3>2. found[s][r[i]] \notin speaks[s][r[i]]
      BY <2>2 DEF VersionFor
    <3> QED
      BY <3>1, <3>2 DEF IInv, FoundSpoke
  <2> QED
    BY <2>3, <2>4, <2>5, <2>6 DEF IInv
<1>7. ASSUME NEW s \in Slots, CardChanges(s)
      PROVE  IInv'
  <2>1. PICK now \in [Entries -> SUBSET Versions] : speaks' = [speaks EXCEPT ![s] = now]
    BY <1>7 DEF CardChanges
  <2>2. /\ changes' \in 0..MaxChanges
        /\ changed' = changed \cup {<<s, e>> : e \in {e \in Entries : Probed(s, e)}}
        /\ UNCHANGED <<stage, cursor, found, lost, asked, reply>>
    BY <1>0, <1>7, CapabilitiesAssumption DEF CardChanges, discovery, command, TypeOK
  <2>3. speaks' \in [Slots -> [Entries -> SUBSET Versions]]
    BY <1>0, <2>1 DEF TypeOK
  <2>4. changed' \subseteq Slots \X Entries
    BY <1>0, <2>2 DEF TypeOK
  <2>5. TypeOK'
    BY <1>0, <2>2, <2>3, <2>4 DEF TypeOK
  <2>6. \A t \in Slots, e \in Entries :
          /\ Past(t, e)' <=> Past(t, e)
          /\ Current(t, e)' <=> Current(t, e)
          /\ Past(t, e) => speaks'[t][e] = speaks[t][e] \/ <<t, e>> \in changed'
    <3>1. \A t \in Slots, e \in Entries : Past(t, e)' <=> Past(t, e)
      BY <2>2 DEF Past, Slot, Entry
    <3>2. \A t \in Slots, e \in Entries : Current(t, e)' <=> Current(t, e)
      BY <2>2 DEF Current, Slot, Entry
    <3>3. ASSUME NEW t \in Slots, NEW e \in Entries, Past(t, e)
          PROVE  speaks'[t][e] = speaks[t][e] \/ <<t, e>> \in changed'
      <4>1. CASE t = s
        BY <4>1, <3>3, <2>2 DEF Probed
      <4>2. CASE t # s
        BY <4>2, <2>1, <1>0 DEF TypeOK
      <4> QED
        BY <4>1, <4>2
    <3> QED
      BY <3>1, <3>2, <3>3
  <2>7. changed \subseteq changed'
    BY <2>2
  <2>8. Ahead' /\ AskedWhenDone'
    BY <2>2, <2>6 DEF IInv, Ahead, AskedWhenDone
  <2>9. FoundSpoke'
    BY <2>2, <2>6, <2>7 DEF IInv, FoundSpoke, Ahead
  <2>10. PreferredIsFound'
    BY <2>2, <2>6, <2>7 DEF IInv, PreferredIsFound, Unreliable
  <2>11. Search'
    <3> SUFFICES ASSUME NEW t \in Slots, NEW e \in Entries, Current(t, e),
                        <<t, e>> \notin Unreliable', NEW v \in speaks'[t][e]
                 PROVE  v <= Version
      BY <2>2, <2>6 DEF Search, Version
    <3>1. CASE t = s
      <4>1. ~(Version < NumVersions)
        BY <3>1, <2>2 DEF Current, Probed, Unreliable
      <4>2. v \in Versions /\ Version \in Versions
        BY <2>3, <1>0 DEF TypeOK, Version
      <4> QED
        BY <4>1, <4>2, CapabilitiesAssumption DEF Versions
    <3>2. CASE t # s
      <4>1. speaks'[t][e] = speaks[t][e] /\ <<t, e>> \notin Unreliable
        BY <3>2, <2>1, <2>2, <2>7, <1>0 DEF TypeOK, Unreliable
      <4> QED
        BY <4>1 DEF IInv, Search
    <3> QED
      BY <3>1, <3>2
  <2>12. NoBlindCall'
    BY <2>2, <2>7 DEF IInv, NoBlindCall
  <2>13. RefusalIsTrue'
    <3> SUFFICES ASSUME reply = "unsupported_on_card", NEW i \in DOMAIN asked[2]
                 PROVE  \/ speaks'[asked[1]][asked[2][i]] = {}
                        \/ <<asked[1], asked[2][i]>> \in Unreliable'
      BY <2>2 DEF RefusalIsTrue
    <3>1. stage = "done" /\ asked[1] \in Slots /\ asked[2] \in Requests
      BY DEF IInv, AskedWhenDone
    <3>2. asked[2][i] \in Entries
      BY <3>1, CandidatesAreEntries
    <3>3. Past(asked[1], asked[2][i])
      BY <3>1 DEF Past
    <3>4. \/ speaks[asked[1]][asked[2][i]] = {}
          \/ <<asked[1], asked[2][i]>> \in Unreliable
      BY DEF IInv, RefusalIsTrue
    <3> QED
      BY <3>1, <3>2, <3>3, <3>4, <2>2, <2>6, <2>7 DEF Unreliable
  <2> QED
    BY <2>5, <2>8, <2>9, <2>10, <2>11, <2>12, <2>13 DEF IInv
<1>8. CASE UNCHANGED vars
  <2>1. UNCHANGED <<speaks, changes, stage, cursor, found, lost, changed, asked, reply>>
    BY <1>8 DEF vars, discovery, command
  <2> QED
    BY <2>1 DEF IInv, TypeOK, Ahead, Search, FoundSpoke, AskedWhenDone, PreferredIsFound,
                NoBlindCall, RefusalIsTrue, Past, Current, Unreliable, Slot, Entry, Version
<1> QED
  BY <1>1, <1>2, <1>3, <1>4, <1>5, <1>6, <1>7, <1>8 DEF Next, Discover, Probe

LEMMA Invariance == Spec => []IInv
  BY Initially, Inductive, PTL DEF Spec

(* Discovery and the commands keep the shape of their records.             *)
THEOREM TypeCorrect == Spec => []TypeOK
<1>1. IInv => TypeOK
  BY DEF IInv
<1> QED
  BY <1>1, Invariance, PTL

(* The version discovery keeps is the first one the card speaks, unless    *)
(* an answer was lost or the card changed.                                 *)
THEOREM PreferredVersionKept == Spec => []PreferredIsFound
<1>1. IInv => PreferredIsFound
  BY DEF IInv
<1> QED
  BY <1>1, Invariance, PTL

(* The gate keeps every call from a card that does not know the method,    *)
(* and unsupported_on_card is the truth, up to lost answers and changed    *)
(* cards.                                                                  *)
THEOREM GateHolds == Spec => []GateIsRight
<1>1. IInv => GateIsRight
  BY DEF IInv, GateIsRight
<1> QED
  BY <1>1, Invariance, PTL
=============================================================================
