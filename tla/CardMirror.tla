------------------------------ MODULE CardMirror ------------------------------
(***************************************************************************)
(* What the events of a card promise to the manager, without saying how    *)
(* they are derived: an event falls due only for a signal that went beyond *)
(* its threshold with the new answer, or came back; it says which, and no  *)
(* other answer comes before it.  Not every such change need have an event *)
(* and an event that is due may be dropped.                                *)
(***************************************************************************)
CONSTANT Signals

VARIABLES
  beyond,  (* the signals beyond their threshold in the last answer        *)
  due,     (* the signals whose event is still to come                     *)
  told     (* per signal, what the last event sent said                    *)

vars == <<beyond, due, told>>

Init == beyond = {} /\ due = {} /\ told = [s \in Signals |-> "nothing"]

Changed == {s \in Signals : s \in beyond <=> s \notin beyond'}

Answer ==
  /\ due = {}
  /\ beyond' \in SUBSET Signals
  /\ due' \in SUBSET Changed
  /\ UNCHANGED told

Tell(s) == told' = [told EXCEPT ![s] = IF s \in beyond THEN "bad" ELSE "good"]
Drop == UNCHANGED told

Event(s) ==
  /\ s \in due
  /\ Tell(s) \/ Drop
  /\ due' = due \ {s}
  /\ UNCHANGED beyond

Next == Answer \/ \E s \in Signals : Event(s)

Spec == Init /\ [][Next]_vars
=============================================================================
