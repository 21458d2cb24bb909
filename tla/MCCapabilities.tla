----------------------------- MODULE MCCapabilities -----------------------------
(***************************************************************************)
(* Capabilities with a command that one interface serves and one that      *)
(* either of two serves, the preferred one first, as in hip_call.          *)
(***************************************************************************)
EXTENDS Capabilities

MCRequests == {<<1>>, <<1, 2>>}
=============================================================================
