------------------------------ MODULE MCEventGate ------------------------------
(***************************************************************************)
(* EventGate for TLC: the emitters run the same code, so they are          *)
(* interchangeable.  No liveness property is checked under this symmetry.  *)
(***************************************************************************)
EXTENDS EventGate, TLC

Interchangeable == Permutations(Emitters)
=============================================================================
