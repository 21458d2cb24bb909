-------------------------------- MODULE Commands --------------------------------
(***************************************************************************)
(* The command handler (src/src/appear_x/commands.rs:160-1278): which RPC  *)
(* a command of the manager becomes, what it is refused for before         *)
(* anything is sent, and what is acknowledged.  The SDK hands over one     *)
(* command at a time.                                                      *)
(*                                                                         *)
(* Commands are for one slot, whose card does not change; discovery and    *)
(* its mistakes are in Capabilities.  A call is one call of call_rpc; that *)
(* it is resent there when its token is rejected is in RpcSession.  The    *)
(* name of the RPC is left out: a call is the interface and module it goes *)
(* to and its body.                                                        *)
(***************************************************************************)
EXTENDS Naturals, Sequences, TLC

CONSTANTS
  Keys, Values,   (* of the rows of a keyed set command                    *)
  NoKey, NoValue, (* no usable key, or no value, in a row                  *)
  Missing,        (* the payload field is not there                        *)
  Plain,          (* a payload that is no array and is passed on as it is  *)
  Payloads,       (* bound: the payloads the manager tries                 *)
  Types,          (* bound: the commands it tries                          *)
  NoType,         (* the action has no type                                *)
  Cards,          (* bound: what discovery may have found on the slot      *)
  Nothing         (* no body, no write                                     *)

Rows == [key : Keys \cup {NoKey}, value : Values \cup {NoValue}]

ASSUME CommandsAssumption ==
  /\ Missing # Plain /\ Missing \notin Seq(Rows) /\ Plain \notin Seq(Rows)
  /\ Payloads \subseteq Seq(Rows) \cup {Missing, Plain}
  /\ NoKey \notin Keys /\ NoValue \notin Values
  /\ Cards \subseteq SUBSET (STRING \X STRING)

-----------------------------------------------------------------------------
(* The arms of handle_command, by family, with the module each goes to.    *)
IpGateway ==
  [get_inputs |-> "input", get_outputs |-> "output", set_ip_input |-> "input",
   set_ip_output |-> "output", get_ip_interfaces |-> "ipinterface",
   get_ip_input_status |-> "status", get_ip_output_status |-> "status",
   get_srt_input_status |-> "status", get_srt_output_status |-> "status",
   get_pid_status |-> "status", get_triggers |-> "triggers",
   get_physical_ports |-> "physicalports", get_virtual_ports |-> "physicalports"]

TimeX ==
  [t \in {"get_ptp_status", "get_ptp_settings", "set_ptp_settings",
          "get_card_ptp_capabilities"} |-> "cardPtp"]
  @@ [t \in {"get_system_time_status", "get_system_time_settings",
             "set_system_time_settings", "get_current_utc_time"} |-> "systemTimeSettings"]

XgerGet ==
  [get_card_status |-> "cardStatus", get_coder_services |-> "coderService",
   get_multi_services |-> "multiService", get_audio_profiles |-> "audioProfile",
   get_xger_ip_interfaces |-> "ipInterface", get_card_allocations |-> "cardAllocation",
   get_pool_config |-> "poolConfig", get_lock_status |-> "lockStatus",
   get_psi_status |-> "psiStatus", get_images |-> "imageUpload",
   get_ip_connections |-> "ipConnection", get_redundancy_groups |-> "redundancyGroup",
   get_redundancy_group_status |-> "redundancyGroupStatus", get_dpi |-> "dpi",
   get_dpi_status |-> "dpiStatus", get_esam_config |-> "esamConfig",
   get_esam_status |-> "esamStatus", get_scte35_config |-> "scte35Config",
   get_scte35_history |-> "scte35LogApi", get_pois_server_status |-> "poisServerStatus"]

XgerKeyed ==
  [set_coder_services |-> "coderService", set_multi_services |-> "multiService",
   set_audio_profiles |-> "audioProfile", set_xger_ip_interfaces |-> "ipInterface",
   set_card_allocations |-> "cardAllocation", set_ip_connections |-> "ipConnection",
   set_redundancy_groups |-> "redundancyGroup"]

XgerRaw ==
  [set_pool_config |-> "poolConfig", set_dpi |-> "dpi",
   set_esam_config |-> "esamConfig", set_scte35_config |-> "scte35Config"]

XgerDelete ==
  [delete_coder_services |-> "coderService", delete_multi_services |-> "multiService",
   delete_audio_profiles |-> "audioProfile", delete_xger_ip_interfaces |-> "ipInterface",
   delete_ip_connections |-> "ipConnection", delete_redundancy_groups |-> "redundancyGroup"]

MmiGet ==
  {"get_alarms", "get_alarm_history", "get_registered_alarms", "get_all_alarm_overrides",
   "get_features_info", "get_license", "get_hardware_id", "get_chassis"}

MmiSet == {"set_alarm_overrides", "delete_alarm_overrides", "install_license"}

Encoders == <<<<"hipTsEnc", "hipTsEncoder">>, <<"hipEnc", "hipEncoder">>>>
Decoders == <<<<"hipTsDec", "hipTsDecoder">>, <<"hipDec", "hipDecoder">>>>
EncoderStatus == <<<<"hipTsEnc", "hipEncStatus">>, <<"hipEnc", "hipEncStatus">>>>

Mmi == <<"mmi", "">>
On(interface, modules) == [t \in DOMAIN modules |-> <<<<interface, modules[t]>>>>]

(* Where a command may go, in order of preference.                         *)
Route ==
  On("ipGateway", IpGateway) @@ On("TimeX", TimeX)
    @@ On("Xger", XgerGet @@ XgerKeyed @@ XgerRaw @@ XgerDelete)
    @@ [get_services |-> <<<<"board", "services">>>>,
        get_hip_encoders |-> Encoders, set_hip_encoders |-> Encoders,
        get_hip_decoders |-> Decoders, set_hip_decoders |-> Decoders,
        clear_all_counters |-> EncoderStatus]
    @@ [t \in MmiGet \cup MmiSet |-> <<Mmi>>]

TimeXSet == {"set_ptp_settings", "set_system_time_settings"}
FieldSets ==
  {"set_ip_input", "set_ip_output", "set_hip_encoders", "set_hip_decoders"}
    \cup DOMAIN XgerRaw \cup TimeXSet \cup MmiSet
Writes ==
  FieldSets \cup DOMAIN XgerKeyed \cup DOMAIN XgerDelete \cup {"clear_all_counters"}

-----------------------------------------------------------------------------
(* The payload checks.  One bad row rejects the whole command.             *)
IsArray(p) == p \notin {Missing, Plain}
RowOK(row) == row.key # NoKey /\ row.value # NoValue

WellFormed(type, p) ==
  /\ type \in FieldSets => p # Missing
  /\ type \in DOMAIN XgerDelete => IsArray(p)
  /\ type \in DOMAIN XgerKeyed => IsArray(p) /\ \A i \in DOMAIN p : RowOK(p[i])

(* xger_set_keyed folds the rows into a map: map.insert overwrites.        *)
EmptyMap == [k \in {} |-> NoValue]

FirstRowWins(map, row) ==
  [k \in DOMAIN map \cup {row.key} |-> IF k \in DOMAIN map THEN map[k] ELSE row.value]
Insert(map, row) ==
  [k \in DOMAIN map \cup {row.key} |-> IF k = row.key THEN row.value ELSE map[k]]

Fold(rows) ==
  LET folded[i \in 0..Len(rows)] ==
        IF i = 0 THEN EmptyMap ELSE Insert(folded[i - 1], rows[i])
  IN  folded

Body(type, p) ==
  CASE type \in DOMAIN XgerKeyed -> Fold(p)[Len(p)]
    [] type \in FieldSets \cup DOMAIN XgerDelete -> p
    [] OTHER -> Nothing

Open(card, type) == {i \in 1..Len(Route[type]) : Route[type][i] \in card \cup {Mmi}}
Target(card, type) ==
  Route[type][CHOOSE i \in Open(card, type) : \A j \in Open(card, type) : i <= j]

(* What handle_command refuses before it sends anything.  The two TimeX    *)
(* setters look at their field before the gate, all others after it.       *)
Refusal(card, type, p) ==
  IF type = NoType THEN "validation_error"
  ELSE IF type \notin DOMAIN Route THEN "unknown_action"
  ELSE IF type \in TimeXSet /\ ~WellFormed(type, p) THEN "validation_error"
  ELSE IF Open(card, type) = {} THEN "unsupported_on_card"
  ELSE IF ~WellFormed(type, p) THEN "validation_error"
  ELSE "none"

Refusals == {"validation_error", "unknown_action", "unsupported_on_card"}

-----------------------------------------------------------------------------
VARIABLES
  card,      (* the modules discovery found on the slot                    *)
  worker,    (* the SDK's command worker: "idle", "calling" the chassis,   *)
             (* or "answered" while the answer is on its way               *)
  type,      (* of the command being handled                               *)
  payload,   (* its payload                                                *)
  sent,      (* the calls made for it, each with where it went and a body  *)
  effect,    (* environment: what the chassis wrote for it                 *)
  ack,       (* its answer, "none" until there is one                      *)
  excuse     (* history: "none", or why the answer may not say what was    *)
             (* written                                                    *)

request == <<type, payload>>
outcome == <<sent, effect, ack, excuse>>
commandVars == <<card, worker, request, outcome>>

NoCommand ==
  /\ type = NoType /\ payload = Missing
  /\ sent = <<>> /\ effect = Nothing
  /\ ack = "none" /\ excuse = "none"

ForgetCommand ==
  /\ type' = NoType /\ payload' = Missing
  /\ sent' = <<>> /\ effect' = Nothing
  /\ ack' = "none" /\ excuse' = "none"

CommandsInit == card \in Cards /\ worker = "idle" /\ NoCommand

Call(t, p) == [to |-> Target(card, t), body |-> Body(t, p)]

Receive(t, p) ==
  /\ worker = "idle"
  /\ type' = t
  /\ payload' = p
  /\ \/ /\ Refusal(card, t, p) # "none"
        /\ ack' = Refusal(card, t, p)
        /\ worker' = "answered"
        /\ UNCHANGED sent
     \/ /\ Refusal(card, t, p) = "none"
        /\ sent' = <<Call(t, p)>>
        /\ worker' = "calling"
        /\ UNCHANGED ack
  /\ UNCHANGED <<card, effect, excuse>>

(* What the chassis does with a call it carries out.                       *)
Written == IF type \in Writes THEN <<sent[Len(sent)].body>> ELSE Nothing

Succeeds ==
  /\ worker = "calling"
  /\ effect' = Written
  /\ ack' = "ok"
  /\ worker' = "answered"
  /\ UNCHANGED <<card, request, sent, excuse>>

(* call_rpc takes an answer without an error for a success, also one that  *)
(* says the call was rejected (NotExecuted and TakeAsAnswer of RpcSession).*)
TakenAsDone ==
  /\ worker = "calling"
  /\ ack' = "ok"
  /\ excuse' = "taken as done"
  /\ worker' = "answered"
  /\ UNCHANGED <<card, request, sent, effect>>

(* An error that says "not found" sends get_ip_output_status once more,    *)
(* under the older name of the RPC.                                        *)
HasFallback == type = "get_ip_output_status" /\ Len(sent) = 1

NotFound ==
  /\ worker = "calling"
  /\ HasFallback
  /\ sent' = Append(sent, sent[1])
  /\ UNCHANGED <<card, worker, request, effect, ack, excuse>>

(* vendor_error: the call failed, or was carried out and its answer lost.  *)
MisreportedError == "validation_error"
VendorError == "vendor_api_error"

Fails ==
  /\ worker = "calling"
  /\ ack' = VendorError
  /\ worker' = "answered"
  /\ \/ UNCHANGED <<effect, excuse>>
     \/ effect' = Written /\ excuse' = "answer lost"
  /\ UNCHANGED <<card, request, sent>>

(* The SDK sends the answer and takes the next command.                    *)
Acknowledge ==
  /\ worker = "answered"
  /\ worker' = "idle"
  /\ ForgetCommand
  /\ UNCHANGED card

CommandsNext ==
  \/ \E t \in Types, p \in Payloads : Receive(t, p)
  \/ Succeeds
  \/ TakenAsDone
  \/ NotFound
  \/ Fails
  \/ Acknowledge

-----------------------------------------------------------------------------
(* The map a list of rows stands for, said without a fold: every key of    *)
(* the list, and for each the value of the last row that has it.           *)
LastRow(rows, k) ==
  CHOOSE i \in DOMAIN rows :
    rows[i].key = k /\ \A j \in DOMAIN rows : rows[j].key = k => j <= i

MapOf(rows) ==
  [k \in {rows[i].key : i \in DOMAIN rows} |-> rows[LastRow(rows, k)].value]

(* A write that is carried out, also when its answer is lost or the        *)
(* process ends meanwhile, is the one that was asked for: rows arrive      *)
(* under their keys, of two with one key the later one.  It is acknowledged*)
(* only if it was carried out, or call_rpc took something else for its     *)
(* answer.  No write makes a second call, and no call goes to a module     *)
(* discovery did not find.                                                 *)
Carried == effect # Nothing \/ (ack = "ok" /\ excuse = "none")

WritesAsAsked ==
  /\ Carried /\ type \in DOMAIN XgerKeyed => effect = <<MapOf(payload)>>
  /\ Carried /\ type \in FieldSets \cup DOMAIN XgerDelete => effect = <<payload>>
  /\ type \in Writes => Len(sent) <= 1
  /\ worker = "calling" => \A i \in DOMAIN sent : sent[i].to \in card \cup {Mmi}
=============================================================================
