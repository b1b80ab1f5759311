----------------------------- MODULE Inventory -----------------------------
(***************************************************************************)
(* Which VMs a batch is about and which actions it may plan for each of    *)
(* them: the checks and the inheritance of config/schema.py, the table     *)
(* inventory_overrides as the web UI writes it, the target list that       *)
(* main.py makes of both, and the planner of agent/decisions.py.           *)
(*                                                                         *)
(* One environment is looked at.  Its file lists targets; two of them may  *)
(* have one name, nothing forbids it.  The table has at most one row per   *)
(* name.  Of an action's settings those are kept that a check looks at.    *)
(***************************************************************************)
EXTENDS Integers, Sequences

\* BUILTIN_ACTIONS and what their manifests say.
Builtin == {"patching", "disk_cleanup", "log_rotation", "docker_hygiene",
            "backup_verify", "service_restart"}
DefaultEnabled    == {"patching", "disk_cleanup", "log_rotation"}
OperatorTriggered == {"service_restart"}

\* A file may also name the action of an older release, or anything else.
ActionNames == Builtin \cup {"docker_prune", "unknown"}

ActionConfig ==
  [enabled : BOOLEAN,
   mode    : {"none", "disabled", "wrapper", "other"},
   units   : {"none", "sound", "unsound"},      \* restartable_units
   volumes : BOOLEAN,                           \* volume_deletion_enabled
   days    : Int]                               \* volume_last_mount_days_threshold

DefaultConfig(a) ==
  [enabled |-> a \in DefaultEnabled,
   mode    |-> IF a = "docker_hygiene" THEN "disabled" ELSE "none",
   units   |-> "none", volumes |-> FALSE, days |-> 90]

-----------------------------------------------------------------------------
(* The file *)

\* An `actions:` block has settings for some actions; those of the environment
\* are filled up with the defaults, and what is not built in is dropped.
Blocks == UNION {[S -> ActionConfig] : S \in SUBSET ActionNames}

Expanded(block) ==
  [a \in Builtin |-> IF a \in DOMAIN block THEN block[a] ELSE DefaultConfig(a)]

\* resolve_actions: a target's own block replaces action by action.
Resolved(all, own) ==
  [a \in DOMAIN all \cup DOMAIN own |-> IF a \in DOMAIN own THEN own[a] ELSE all[a]]

DockerSound(c)  == ~(c.enabled /\ c.mode = "disabled")
RestartSound(c) == (c.enabled => c.units # "none") /\ c.units # "unsound"
VolumesSound(c) == c.volumes => c.enabled /\ c.days >= 1

\* _apply_action_defaults_and_validate, for the environment and for a target:
\* the volume settings of a target are not looked at.
EnvironmentSound(block) ==
  LET all == Expanded(block) IN
    /\ "docker_prune" \notin DOMAIN block
    /\ DockerSound(all["docker_hygiene"]) /\ VolumesSound(all["docker_hygiene"])
    /\ RestartSound(all["service_restart"])

TargetSound(all, own) ==
  DOMAIN own # {} =>
    /\ "docker_prune" \notin DOMAIN own
    /\ DockerSound(Resolved(all, own)["docker_hygiene"])
    /\ RestartSound(Resolved(all, own)["service_restart"])

Targets == [name : STRING, own : Blocks]

Environments == [actions : Blocks, targets : Seq(Targets)]

Accepted(env) ==
  /\ EnvironmentSound(env.actions)
  /\ \A i \in DOMAIN env.targets : TargetSound(Expanded(env.actions), env.targets[i].own)

ActionsOf(env, i) == Resolved(Expanded(env.actions), env.targets[i].own)

-----------------------------------------------------------------------------
(* The table *)

NoHost == ""

Rows == [source : {"yaml_override", "db_addition"}, disabled : BOOLEAN, host : STRING]

Tables == UNION {[S -> Rows] : S \in SUBSET STRING}

\* upsert_inventory_override replaces every column of the row.
Upsert(table, n, row) ==
  [m \in DOMAIN table \cup {n} |-> IF m = n THEN row ELSE table[m]]

\* The forms of the page: the button of a VM, the form for another VM (whose
\* host must be given), the second button of an ad-hoc VM.
Toggle(table, n, off) ==
  Upsert(table, n, [source |-> "yaml_override", disabled |-> off, host |-> NoHost])

Add(table, n, host) ==
  Upsert(table, n, [source |-> "db_addition", disabled |-> FALSE, host |-> host])

Delete(table, n) == [m \in DOMAIN table \ {n} |-> table[m]]

-----------------------------------------------------------------------------
(* The targets of a batch, and the page *)

HasRow(table, n, source) == n \in DOMAIN table /\ table[n].source = source

Disabled(table, n) == HasRow(table, n, "yaml_override") /\ table[n].disabled

\* An entry is the i-th target of the file or a row of the table (at = 0).
FileEntries(env) ==
  {[at |-> i, name |-> env.targets[i].name] : i \in DOMAIN env.targets}
RowEntries(table) ==
  {[at |-> 0, name |-> n] : n \in {m \in DOMAIN table : HasRow(table, m, "db_addition")}}

\* run_env_batch: the file without what is disabled, and what was added.
EffectiveTargets(env, table) ==
  {e \in FileEntries(env) : ~Disabled(table, e.name)}
    \cup {e \in RowEntries(table) : ~table[e.name].disabled}

\* _ui_inventory_get: all of both, each with its mark.
MarkedOff(table, e) ==
  IF e.at = 0 THEN table[e.name].disabled
  ELSE e.name \in DOMAIN table /\ table[e.name].source # "db_addition" /\ table[e.name].disabled

Page(env, table) ==
  {[entry |-> e, off |-> MarkedOff(table, e)] : e \in FileEntries(env) \cup RowEntries(table)}

-----------------------------------------------------------------------------
(* What is planned for a target *)

Enabled(actions) == {a \in DOMAIN actions : actions[a].enabled} \ OperatorTriggered

\* A target of the file brings its own actions; for one of the table the
\* routers of graph.py fall back on those of the batch.
EnabledFor(env, e) ==
  Enabled(IF e.at = 0 THEN Expanded(env.actions) ELSE ActionsOf(env, e.at))

ModeOf(c) == IF c.enabled THEN (IF c.mode = "none" THEN "wrapper" ELSE c.mode) ELSE "disabled"

DockerModeFor(env, e) ==
  ModeOf((IF e.at = 0 THEN Expanded(env.actions) ELSE ActionsOf(env, e.at))["docker_hygiene"])

\* ActionType knows the old name as well, for reading old rows.
ActionTypes == Builtin \cup {"docker_prune"}

\* DEFAULT_PRIORITY; what it does not list comes last.
Rank(a) ==
  CASE a = "backup_verify"  -> 0
    [] a = "disk_cleanup"   -> 1
    [] a = "log_rotation"   -> 2
    [] a = "docker_hygiene" -> 3
    [] a = "patching"       -> 4
    [] OTHER                -> 5

VmInfo == [docker : BOOLEAN, pending : Nat]

Applicable(a, vm) ==
  /\ a = "docker_hygiene" => vm.docker
  /\ a = "patching" => vm.pending > 0

\* plan_vm_node and prioritize_actions: the actions of the plan.  They are
\* worked off by rank.
Planned(env, e, vm) ==
  {a \in EnabledFor(env, e) \cap ActionTypes : Applicable(a, vm)}

-----------------------------------------------------------------------------
(* What should hold of it *)

\* What is planned for a VM is built in, switched on for it, and never one of
\* the actions that only an operator starts (manifest.py: "never included in
\* automated batch plans"); and the ranks put it in one order.
PlansAreAskedFor(env, table, vm) ==
  \A e \in EffectiveTargets(env, table) :
    LET actions == IF e.at = 0 THEN Expanded(env.actions) ELSE ActionsOf(env, e.at)
        plan == Planned(env, e, vm)
    IN  /\ plan \subseteq {a \in Builtin \ OperatorTriggered : actions[a].enabled}
        /\ \A a, b \in plan : Rank(a) = Rank(b) => a = b

\* A VM's docker mode says "disabled" only when the action is off for it: an
\* action that is on is never dispatched in a mode that does nothing.
ModesFollowActions(env, table) ==
  \A e \in EffectiveTargets(env, table) :
    DockerModeFor(env, e) = "disabled" <=> "docker_hygiene" \notin EnabledFor(env, e)

\* The page shows as enabled what the next batch works on, and nothing else.
PageIsTrue(env, table) ==
  {p.entry : p \in {q \in Page(env, table) : ~q.off}} = EffectiveTargets(env, table)

\* Each VM is listed once (what BatchGraph assumes of a fleet).
ListedOnce(env, table) ==
  \A e, f \in EffectiveTargets(env, table) : e.name = f.name => e = f

\* What that takes: names are not repeated in the file, and nothing was added
\* under the name of a VM of the file that is not disabled.
NamesAreFree(env, table) ==
  /\ \A i, j \in DOMAIN env.targets : env.targets[i].name = env.targets[j].name => i = j
  /\ \A i \in DOMAIN env.targets : ~HasRow(table, env.targets[i].name, "db_addition")

\* Nothing that goes by this name is worked on.
OutOfService(env, table, n) ==
  \A e \in EffectiveTargets(env, table) : e.name # n

\* A form about one VM leaves the others as they are.
OthersStay(env, before, after, n) ==
  {e \in EffectiveTargets(env, after) : e.name # n}
    = {e \in EffectiveTargets(env, before) : e.name # n}

\* A VM that is switched off and on again.
OffAndOn(table, n) == Toggle(Toggle(table, n, TRUE), n, FALSE)
=============================================================================
