------------------------------- MODULE EventGate -------------------------------
(***************************************************************************)
(* The client-side event rate limiter (src/src/event_gate.rs), shared by   *)
(* the alarms poller and every card poller through emit_gated_event        *)
(* (src/src/appear_x/polling.rs:1671-1686).                                *)
(*                                                                         *)
(* check() reads the clock before it takes the lock, so an emitter may     *)
(* decide with a reading that others have overtaken: a check is two steps. *)
(* Time is in seconds.  Forwarding the event and the summary to the SDK    *)
(* channel belongs to the second step.                                     *)
(***************************************************************************)
EXTENDS Integers

CONSTANTS
  Emitters,      (* the tasks that share the gate                          *)
  Limit,         (* SELF_GATE_LIMIT_PER_MINUTE                             *)
  Window,        (* WINDOW_SECS                                            *)
  MaxClock,      (* bound: how long the model runs                         *)
  MaxStale,      (* bound: seconds an emitter may wait for the lock        *)
  MaxChecks      (* bound: how many events are proposed                    *)

ASSUME EventGateAssumption ==
  /\ Limit \in Nat \ {0}
  /\ Window \in Nat \ {0}
  /\ MaxClock \in Nat \ {0}
  /\ MaxStale \in Nat
  /\ MaxChecks \in Nat

VARIABLES
  clock,
  windowStart, accepted, suppressed,   (* WindowState                      *)
  reading,      (* [Emitters -> Int]: the clock as read, or NotChecking    *)
  checks,       (* history: events proposed                                *)
  admittedBy,   (* history: events admitted by the end of each second      *)
  dropped,      (* history: events suppressed                              *)
  reported,     (* history: drops announced by rollover summaries          *)
  warned,       (* history: a summary was sent for the open window         *)
  openedAt      (* history: when the open window was opened                *)

windowState == <<windowStart, accepted, suppressed>>
history == <<checks, admittedBy, dropped, reported, warned, openedAt>>
vars == <<clock, windowState, reading, history>>

NotChecking == 0
Seconds == 0..MaxClock

(* EventGate::new runs in second 1.                                        *)
Init ==
  /\ clock = 1
  /\ windowStart = 1
  /\ accepted = 0
  /\ suppressed = 0
  /\ reading = [e \in Emitters |-> NotChecking]
  /\ checks = 0
  /\ admittedBy = [s \in Seconds |-> 0]
  /\ dropped = 0
  /\ reported = 0
  /\ warned = FALSE
  /\ openedAt = 1

-----------------------------------------------------------------------------
(* An event is proposed: Utc::now() before the lock.                       *)
ReadClock(e) ==
  /\ reading[e] = NotChecking
  /\ checks < MaxChecks
  /\ reading' = [reading EXCEPT ![e] = clock]
  /\ checks' = checks + 1
  /\ UNCHANGED <<clock, windowState, admittedBy, dropped, reported, warned, openedAt>>

HastyRollsOver(now) == now - windowStart >= Window - 1
RollsOver(now) == now - windowStart >= Window

LaxHasQuota(used) == used <= Limit
HasQuota(used) == used < Limit

(* The drops of the window that closes, as its rollover summary tells them.*)
LostRolloverReport == 0
RolloverReport == suppressed

Admit(used, lost) ==
  /\ accepted' = used + 1
  /\ suppressed' = lost
  /\ admittedBy' = [s \in Seconds |-> admittedBy[s] + IF s < clock THEN 0 ELSE 1]
  /\ UNCHANGED dropped

(* The first suppressed event of a window is replaced by a summary.        *)
Suppress ==
  /\ suppressed' = suppressed + 1
  /\ warned' = (warned \/ suppressed' = 1)
  /\ dropped' = dropped + 1
  /\ UNCHANGED <<accepted, admittedBy>>

(* The critical section, on a clock reading that may be stale: Send or     *)
(* SendWithRollover after a roll, Send or Suppress within a window.         *)
Decide(e) ==
  /\ reading[e] # NotChecking
  /\ \/ /\ RollsOver(reading[e])
        /\ windowStart' = reading[e]
        /\ openedAt' = clock
        /\ reported' = reported + RolloverReport
        /\ warned' = FALSE
        /\ Admit(0, 0)
     \/ /\ ~RollsOver(reading[e])
        /\ HasQuota(accepted)
        /\ Admit(accepted, suppressed)
        /\ UNCHANGED <<windowStart, openedAt, reported, warned>>
     \/ /\ ~RollsOver(reading[e])
        /\ ~HasQuota(accepted)
        /\ Suppress
        /\ UNCHANGED <<windowStart, openedAt, reported>>
  /\ reading' = [reading EXCEPT ![e] = NotChecking]
  /\ UNCHANGED <<clock, checks>>

Tick ==
  /\ clock < MaxClock
  /\ \A e \in Emitters : reading[e] # NotChecking => clock - reading[e] < MaxStale
  /\ clock' = clock + 1
  /\ UNCHANGED <<windowState, reading, history>>

Next ==
  \/ \E e \in Emitters : ReadClock(e) \/ Decide(e)
  \/ Tick

Spec == Init /\ [][Next]_vars

-----------------------------------------------------------------------------
TypeOK ==
  /\ clock \in Nat \ {0}
  /\ windowStart \in Nat \ {0}
  /\ accepted \in 0..Limit
  /\ suppressed \in Nat
  /\ reading \in [Emitters -> Nat]
  /\ checks \in Nat
  /\ admittedBy \in [Seconds -> Nat]
  /\ dropped \in Nat
  /\ reported \in Nat
  /\ warned \in BOOLEAN
  /\ openedAt \in Nat \ {0}

(* No drop is forgotten, whichever emitter rolls the window: the drops are *)
(* those told by rollover summaries plus those of the open window, and the *)
(* operator knows of the open window's because the first was announced.    *)
DropsAccounted ==
  /\ dropped = reported + suppressed
  /\ suppressed > 0 => warned

(* Emitters that decide on overtaken clock readings do not tear the window *)
(* apart: it never starts earlier than the one before it, and it takes     *)
(* Window seconds, less what a reading may be late, to open the next.      *)
WindowsSpaced ==
  [][openedAt' # openedAt \/ windowStart' # windowStart
       => /\ windowStart' >= windowStart + Window
          /\ openedAt' - openedAt >= Window - MaxStale]_vars

(* What the tumbling window guarantees of a burst: two windows may be      *)
(* drained back to back, but never a third within one window length.  The  *)
(* "sliding" window of event_gate.rs:14 would allow one.                   *)
BurstBound ==
  \A last \in Seconds : \A first \in 0..last :
    last - first <= Window - MaxStale
      => admittedBy[last] - admittedBy[first] <= 2 * Limit
=============================================================================
