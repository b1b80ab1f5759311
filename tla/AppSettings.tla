---------------------------- MODULE AppSettings ----------------------------
(***************************************************************************)
(* Where a setting comes from: the environment of a process, the table     *)
(* settings_overrides that the web UI writes, settings.yaml, or a default  *)
(* (config/settings.py, config/schema.py, safety/overrides.py, the         *)
(* settings page of web/ui.py).                                            *)
(*                                                                         *)
(* A setting is written as a text.  A text is here what the reader of its  *)
(* field makes of it: a value, or nothing (good is FALSE).  Fractions are  *)
(* in hundredths.                                                          *)
(***************************************************************************)
EXTENDS Integers

CONSTANTS
  Default,       \* the value a field has in the code
  Mask           \* the bullets that the page shows in place of a secret

-----------------------------------------------------------------------------
(* The fields of class Settings *)

\* What load_settings reads from the environment, the table and the file; from
\* the first two; from the environment; from the file; and from nowhere.
Everywhere ==
  {"llm_model", "llm_temperature", "llm_timeout_seconds", "llm_max_retries",
   "approval_timeout_seconds", "rolling_update_percentage", "canary_enabled",
   "drift_detection_enabled", "drift_abort_on_detection"}
NotInFile ==
  {"slack_bot_token", "slack_channel_id", "llm_base_url", "llm_api_key", "audit_db_url",
   "investigation_agent_enabled", "investigation_agent_max_tool_calls",
   "investigation_agent_timeout_seconds", "investigation_trigger_enabled",
   "investigation_max_investigations_per_probe", "investigation_trigger_dedup_hours",
   "proposal_suppression_rejection_threshold", "proposal_suppression_window_days",
   "metrics_port", "web_port", "public_mode", "dry_run_default"}
EnvironmentOnly ==
  {"ui_user", "ui_password", "ssh_known_hosts_path", "ssh_strict_host_keys",
   "ui_bind_address", "web_base_url", "prometheus_base_url", "elk_base_url",
   "elk_api_key", "elk_index_pattern"}
FileOnly ==
  {"ssh_command_timeout_seconds", "ssh_reconnect_attempts", "ssh_reconnect_backoff",
   "fleet_failure_threshold", "vm_lock_ttl_seconds", "graceful_shutdown_timeout_seconds",
   "wave_failure_threshold", "health_check_command", "canary_health_check_command",
   "sre_signals"}
Fixed == {"require_live_approval", "autonomous_live_apply_enabled", "audit_mode"}

Fields          == Everywhere \cup NotInFile \cup EnvironmentOnly \cup FileOnly \cup Fixed
FromEnvironment == Everywhere \cup NotInFile \cup EnvironmentOnly
FromTable       == Everywhere \cup NotInFile
FromFile        == Everywhere \cup FileOnly

Switches ==
  {"canary_enabled", "drift_detection_enabled", "drift_abort_on_detection",
   "investigation_agent_enabled", "investigation_trigger_enabled", "public_mode",
   "dry_run_default"}

\* The ranges that the validators of the file, and only they, insist on.
TimeoutFields ==
  {"approval_timeout_seconds", "ssh_command_timeout_seconds", "vm_lock_ttl_seconds",
   "graceful_shutdown_timeout_seconds"}
ThresholdFields == {"fleet_failure_threshold", "wave_failure_threshold"}
RangedFields ==
  TimeoutFields \cup ThresholdFields \cup {"rolling_update_percentage", "llm_temperature"}

InRange(f, v) ==
  /\ f \in TimeoutFields => v \in 1..86400
  /\ f \in ThresholdFields => v \in 0..100
  /\ f = "rolling_update_percentage" => v \in 1..100
  /\ f = "llm_temperature" => v \in 0..200

ASSUME SettingsAssumption == \A f \in RangedFields : InRange(f, Default[f])

-----------------------------------------------------------------------------
(* load_settings *)

\* An environment, a table, a file: what is written for some of the fields.
\* (A field of the file that is not written has its default, as without a file.)
Reads(f, fields, written) == f \in fields /\ f \in DOMAIN written

\* It raises on a text of the environment, and on one of the file, that is no
\* good; what is out of range is refused in the file alone.
Loads(env, file) ==
  /\ \A f \in FromEnvironment \cap DOMAIN env : env[f].good
  /\ \A f \in FromFile \cap DOMAIN file : file[f].good /\ InRange(f, file[f].value)

\* An override that cannot be read counts as the default, not as the file's
\* value; a switch counts as off.
OverrideOf(f, text) ==
  IF text.good THEN text.value ELSE IF f \in Switches THEN FALSE ELSE Default[f]

ValueOf(f, env, table, file) ==
  IF      Reads(f, FromEnvironment, env) THEN env[f].value
  ELSE IF Reads(f, FromTable, table)     THEN OverrideOf(f, table[f])
  ELSE IF Reads(f, FromFile, file)       THEN file[f].value
  ELSE Default[f]

\* The agent reads the table when it starts; the web process reads no table,
\* the commands of the agent neither the table nor the file.
Nothing == [f \in {} |-> 0]

AgentValue(f, env, table, file) == ValueOf(f, env, table, file)
WebValue(f, env, file)          == ValueOf(f, env, Nothing, file)
CommandValue(f, env)            == ValueOf(f, env, Nothing, Nothing)

-----------------------------------------------------------------------------
(* The settings page *)

\* _LLM_SETTINGS_FIELDS.
PageFields ==
  {"llm_base_url", "llm_model", "llm_api_key", "llm_temperature", "llm_timeout_seconds"}
Secrets == {"llm_api_key"}

\* The web process: its environment, and whether it has the key that secrets
\* are encrypted with.  The page and a post leave alone what the environment sets.
Free(web) == PageFields \ DOMAIN web.env

\* A form has a text for the fields that are not blank.  The page fills in what
\* is overridden, with a mask for a secret.
Form(web, table) ==
  [f \in Free(web) \cap DOMAIN table |->
     IF f \in Secrets THEN [good |-> TRUE, value |-> Mask] ELSE table[f]]

\* _ui_settings_post saves field by field.  The temperature alone is looked at,
\* and the others are saved although it is refused; without the key a secret
\* raises, after the fields above it were saved.
AboveSecrets == {"llm_base_url", "llm_model"}

Saved(web, form) ==
  {f \in Free(web) \cap DOMAIN form :
     /\ f = "llm_temperature" => form[f].good /\ InRange(f, form[f].value)
     /\ f \in AboveSecrets \/ web.key \/ Free(web) \cap DOMAIN form \cap Secrets = {}}

Post(web, table, form) ==
  [f \in DOMAIN table \cup Saved(web, form) |->
     IF f \in Saved(web, form) THEN form[f] ELSE table[f]]

\* _ui_settings_reset, for any key.
Reset(table, f) == [g \in DOMAIN table \ {f} |-> table[g]]

-----------------------------------------------------------------------------
(* What should hold of it *)

\* What posts and resets make of an empty table.
PageTable(table) ==
  /\ DOMAIN table \subseteq PageFields
  /\ "llm_temperature" \in DOMAIN table =>
       /\ table["llm_temperature"].good
       /\ InRange("llm_temperature", table["llm_temperature"].value)

\* The agent that starts after a post has what was posted, unless its own
\* environment sets the field ("LLM settings changes take effect after agent
\* restart", ui.py:1577); the other fields are as they were.
PostsTakeEffect(web, env, table, file, form) ==
  \A f \in Fields :
    LET now == AgentValue(f, env, Post(web, table, form), file) IN
      /\ f \in Saved(web, form) \ DOMAIN env => now = OverrideOf(f, form[f])
      /\ f \notin Saved(web, form) => now = AgentValue(f, env, table, file)

\* "Reset removes the DB override and reverts to YAML/default" (ui.py:1576).
ResetsRevert(env, table, file) ==
  \A f \in Fields \ DOMAIN env :
    AgentValue(f, env, Reset(table, f), file) = WebValue(f, env, file)

\* Saving the page as it is shown.
SavingKeeps(web, table) == Post(web, table, Form(web, table)) = table

\* The agent and the web process differ in what the page overrides, nothing else.
ProcessesAgree(env, table, file) ==
  \A f \in Fields \ (PageFields \cap DOMAIN table) :
    AgentValue(f, env, table, file) = WebValue(f, env, file)

\* The ranges of the file hold of what the environment does not set, and so for
\* any environment of what is read from the file alone.
RangesHold(env, table, file) ==
  \A f \in RangedFields :
    Reads(f, FromEnvironment, env) \/ InRange(f, AgentValue(f, env, table, file))
=============================================================================
