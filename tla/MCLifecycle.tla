----------------------------- MODULE MCLifecycle -----------------------------
(***************************************************************************)
(* Lifecycle with one command of each family that handle_command treats    *)
(* differently, rows with a bad one and with a key that occurs twice, and  *)
(* a card that has the modules of all of them or only the second encoder.  *)
(***************************************************************************)
EXTENDS Lifecycle

CONSTANTS in1, in2, on, off

Row(k, v) == [key |-> k, value |-> v]

MCKeys == {in1, in2}
MCValues == {on, off}

MCTypes ==
  {NoType, "no_such_command", "get_ip_output_status", "set_ip_input", "set_ptp_settings",
   "set_coder_services", "delete_coder_services", "set_hip_encoders", "set_alarm_overrides"}

MCPayloads ==
  {Missing, Plain,
   <<Row(in1, on), Row(in2, on), Row(in1, off)>>,
   <<Row(in1, on), Row(in2, on), Row(in1, NoValue)>>}

MCCards ==
  {{Route[t][1] : t \in DOMAIN Route}, {<<"hipEnc", "hipEncoder">>}}
=============================================================================
