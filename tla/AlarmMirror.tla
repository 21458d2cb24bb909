------------------------------ MODULE AlarmMirror ------------------------------
(***************************************************************************)
(* What the alarm events promise to the manager, without saying how they   *)
(* are computed: whatever the manager is told is true of the last answer   *)
(* of the chassis.  A raise is only told of an alarm that answer contains, *)
(* a clear only of one it does not.                                        *)
(***************************************************************************)
CONSTANT AlarmIds

VARIABLES
  polled,  (* the alarms in the last successful GetActiveAlarms answer     *)
  told     (* the alarms the manager believes active, from the events      *)

vars == <<polled, told>>

Init == polled = {} /\ told = {}

Observe == polled' \in SUBSET AlarmIds /\ UNCHANGED told

TellRaised(a) == a \in polled /\ told' = told \cup {a} /\ UNCHANGED polled

TellCleared(a) == a \notin polled /\ told' = told \ {a} /\ UNCHANGED polled

Next == Observe \/ \E a \in AlarmIds : TellRaised(a) \/ TellCleared(a)

Spec == Init /\ [][Next]_vars
=============================================================================
