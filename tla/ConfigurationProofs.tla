------------------------ MODULE ConfigurationProofs ------------------------
(***************************************************************************)
(* Theorems about Inventory and AppSettings for any file, table and        *)
(* environment: what is planned, who is worked on, where a setting comes   *)
(* from, and what the pages of the web UI change.                          *)
(***************************************************************************)
EXTENDS Inventory, AppSettings, TLAPS

-----------------------------------------------------------------------------
(* What is planned *)

\* The settings that count for a target.
ConfigOf(env, e) == IF e.at = 0 THEN Expanded(env.actions) ELSE ActionsOf(env, e.at)

\* A target of a batch is one of the file or of the table.
LEMMA EntryKinds ==
  ASSUME NEW env \in Environments, NEW table, NEW e \in EffectiveTargets(env, table)
  PROVE  e.at = 0 \/ (e.at \in DOMAIN env.targets /\ env.targets[e.at] \in Targets)
  BY DEF EffectiveTargets, FileEntries, RowEntries, Environments

\* After the checks of the file no target has the action of an older release, and
\* docker_hygiene is not switched on in the mode that does nothing.
LEMMA ConfigSound ==
  ASSUME NEW env \in Environments, Accepted(env), NEW table,
         NEW e \in EffectiveTargets(env, table)
  PROVE  /\ DOMAIN ConfigOf(env, e) \subseteq ActionNames \ {"docker_prune"}
         /\ "docker_hygiene" \in DOMAIN ConfigOf(env, e)
         /\ DockerSound(ConfigOf(env, e)["docker_hygiene"])
<1> DEFINE all == Expanded(env.actions)
<1>1. /\ DOMAIN all = Builtin
      /\ DockerSound(all["docker_hygiene"])
  BY DEF Accepted, EnvironmentSound, Expanded
<1>2. Builtin \subseteq ActionNames \ {"docker_prune"} /\ "docker_hygiene" \in Builtin
  BY DEF Builtin, ActionNames
<1> HIDE DEF all
<1>3. CASE e.at = 0
  BY <1>1, <1>2, <1>3 DEF ConfigOf, all
<1>4. CASE e.at # 0
  <2> DEFINE own == env.targets[e.at].own
  <2>1. e.at \in DOMAIN env.targets /\ env.targets[e.at] \in Targets
    BY <1>4, EntryKinds
  <2>2. own \in Blocks /\ TargetSound(all, own)
    BY <2>1 DEF Targets, Accepted, all
  <2>3. DOMAIN own \subseteq ActionNames
    BY <2>2 DEF Blocks
  <2>4. ConfigOf(env, e) = Resolved(all, own)
    BY <1>4 DEF ConfigOf, ActionsOf, all
  <2> HIDE DEF own
  <2>5. DOMAIN Resolved(all, own) = Builtin \cup DOMAIN own
    BY <1>1 DEF Resolved
  <2>6. CASE DOMAIN own = {}
    <3>1. Resolved(all, own)["docker_hygiene"] = all["docker_hygiene"]
      BY <1>1, <1>2, <2>6 DEF Resolved
    <3> QED
      BY <1>1, <1>2, <2>4, <2>5, <2>6, <3>1
  <2>7. CASE DOMAIN own # {}
    BY <1>2, <2>2, <2>3, <2>4, <2>5, <2>7 DEF TargetSound
  <2> QED
    BY <2>6, <2>7
<1> QED
  BY <1>3, <1>4

\* For any file that is accepted, whatever its targets override: a plan has only
\* actions that are built in, switched on for the VM and not left to an operator,
\* and the ranks leave no choice of their order.
THEOREM PlannedAsAsked ==
  ASSUME NEW env \in Environments, Accepted(env), NEW table, NEW vm
  PROVE  PlansAreAskedFor(env, table, vm)
<1> SUFFICES ASSUME NEW e \in EffectiveTargets(env, table)
             PROVE  LET plan == Planned(env, e, vm) IN
                    /\ plan \subseteq {a \in Builtin \ OperatorTriggered : ConfigOf(env, e)[a].enabled}
                    /\ \A a, b \in plan : Rank(a) = Rank(b) => a = b
  BY DEF PlansAreAskedFor, ConfigOf
<1> DEFINE plan == Planned(env, e, vm)
<1>1. plan \subseteq {a \in DOMAIN ConfigOf(env, e) :
                        ConfigOf(env, e)[a].enabled /\ a \in ActionTypes \ OperatorTriggered}
  BY DEF Planned, EnabledFor, Enabled, ConfigOf
<1>2. DOMAIN ConfigOf(env, e) \subseteq ActionNames \ {"docker_prune"}
  BY ConfigSound
<1>3. plan \subseteq {a \in Builtin \ OperatorTriggered : ConfigOf(env, e)[a].enabled}
  BY <1>1, <1>2 DEF ActionTypes
<1> HIDE DEF plan
<1>4. \A a, b \in Builtin \ OperatorTriggered : Rank(a) = Rank(b) => a = b
  BY DEF Builtin, OperatorTriggered, Rank
<1> QED
  BY <1>3, <1>4 DEF plan

\* Whatever a target overrides, its docker mode is "disabled" exactly when
\* docker_hygiene is not among its actions.
THEOREM ModesFollow ==
  ASSUME NEW env \in Environments, Accepted(env), NEW table
  PROVE  ModesFollowActions(env, table)
<1> SUFFICES ASSUME NEW e \in EffectiveTargets(env, table)
             PROVE  ModeOf(ConfigOf(env, e)["docker_hygiene"]) = "disabled"
                      <=> "docker_hygiene" \notin Enabled(ConfigOf(env, e))
  BY DEF ModesFollowActions, DockerModeFor, EnabledFor, ConfigOf
<1> DEFINE c == ConfigOf(env, e)
<1>1. "docker_hygiene" \in DOMAIN c /\ DockerSound(c["docker_hygiene"])
  BY ConfigSound
<1> HIDE DEF c
<1>2. ModeOf(c["docker_hygiene"]) = "disabled" <=> ~c["docker_hygiene"].enabled
  BY <1>1 DEF ModeOf, DockerSound
<1>3. "docker_hygiene" \in Enabled(c) <=> c["docker_hygiene"].enabled
  BY <1>1 DEF Enabled, OperatorTriggered
<1> QED
  BY <1>2, <1>3 DEF c

-----------------------------------------------------------------------------
(* Who is worked on *)

\* The page and the batch, which read the table each in their own way, agree.
THEOREM PageTellsTheBatch ==
  ASSUME NEW env \in Environments, NEW table \in Tables
  PROVE  PageIsTrue(env, table)
<1> DEFINE all == FileEntries(env) \cup RowEntries(table)
<1>1. \A e \in FileEntries(env) : e.at # 0 /\ (MarkedOff(table, e) <=> Disabled(table, e.name))
  <2>1. \A n \in DOMAIN table : table[n] \in Rows
    BY DEF Tables
  <2>2. \A n \in DOMAIN table : table[n].source \in {"yaml_override", "db_addition"}
    BY <2>1 DEF Rows
  <2>3. \A e \in FileEntries(env) : e.at # 0
    BY DEF FileEntries, Environments
  <2> QED
    BY <2>2, <2>3 DEF MarkedOff, Disabled, HasRow
<1>2. \A e \in RowEntries(table) : e.at = 0 /\ (MarkedOff(table, e) <=> table[e.name].disabled)
  BY DEF RowEntries, MarkedOff
<1>3. EffectiveTargets(env, table) = {e \in all : ~MarkedOff(table, e)}
  BY <1>1, <1>2 DEF EffectiveTargets
<1>4. {p.entry : p \in {q \in Page(env, table) : ~q.off}} = {e \in all : ~MarkedOff(table, e)}
  <2> DEFINE shown == {q \in Page(env, table) : ~q.off}
  <2>1. ASSUME NEW e \in all, ~MarkedOff(table, e)
        PROVE  e \in {p.entry : p \in shown}
    <3>1. [entry |-> e, off |-> MarkedOff(table, e)] \in shown
      BY <2>1 DEF Page
    <3> QED
      BY <3>1
  <2>2. ASSUME NEW p \in shown
        PROVE  p.entry \in all /\ ~MarkedOff(table, p.entry)
    <3>1. PICK e \in all : p = [entry |-> e, off |-> MarkedOff(table, e)]
      BY <2>2 DEF Page
    <3> QED
      BY <3>1, <2>2
  <2> QED
    BY <2>1, <2>2
<1> QED
  BY <1>3, <1>4 DEF PageIsTrue

\* What BatchGraph takes for granted of a fleet holds as long as no name is in use
\* twice: in the file, or in the file and in a row that was added.
THEOREM FreeNamesListedOnce ==
  ASSUME NEW env \in Environments, NEW table \in Tables, NamesAreFree(env, table)
  PROVE  ListedOnce(env, table)
<1> SUFFICES ASSUME NEW e \in EffectiveTargets(env, table),
                    NEW f \in EffectiveTargets(env, table), e.name = f.name
             PROVE  e = f
  BY DEF ListedOnce
<1>1. ASSUME NEW g \in EffectiveTargets(env, table)
      PROVE  \/ \E i \in DOMAIN env.targets : g = [at |-> i, name |-> env.targets[i].name]
             \/ g = [at |-> 0, name |-> g.name] /\ HasRow(table, g.name, "db_addition")
  BY <1>1 DEF EffectiveTargets, FileEntries, RowEntries
<1> QED
  BY <1>1 DEF NamesAreFree

\* It does not hold after the form for another VM was sent with the name of a VM of
\* the file: nothing refuses it, and the VM is listed twice, even one that had been
\* switched off (_ui_inventory_add, upsert_inventory_override).
THEOREM AddedTwice ==
  ASSUME NEW env \in Environments, NEW table \in Tables, NEW host \in STRING,
         NEW i \in DOMAIN env.targets
  PROVE  ~ListedOnce(env, Add(table, env.targets[i].name, host))
<1> DEFINE n == env.targets[i].name
           after == Add(table, n, host)
           e == [at |-> i, name |-> n]
           f == [at |-> 0, name |-> n]
<1>1. n \in DOMAIN after /\ after[n].source = "db_addition" /\ ~after[n].disabled
  BY DEF Add, Upsert
<1>2. e \in FileEntries(env) /\ ~Disabled(after, e.name)
  BY <1>1 DEF FileEntries, Disabled, HasRow
<1>3. f \in RowEntries(after) /\ ~after[f.name].disabled
  BY <1>1 DEF RowEntries, HasRow
<1>4. e \in EffectiveTargets(env, after) /\ f \in EffectiveTargets(env, after)
  BY <1>2, <1>3 DEF EffectiveTargets
<1>5. e # f /\ e.name = f.name
  BY DEF Environments
<1> QED
  BY <1>4, <1>5 DEF ListedOnce

\* Who is in service, entry by entry.
LEMMA InService ==
  ASSUME NEW env, NEW table, NEW e
  PROVE  e \in EffectiveTargets(env, table)
           <=> \/ e \in FileEntries(env) /\ ~Disabled(table, e.name)
               \/ /\ e = [at |-> 0, name |-> e.name]
                  /\ HasRow(table, e.name, "db_addition") /\ ~table[e.name].disabled
  BY DEF EffectiveTargets, RowEntries, HasRow

\* A change of the row of one VM leaves the others as they were.
LEMMA OneRow ==
  ASSUME NEW env, NEW before, NEW after, NEW n,
         \A m : m # n => /\ m \in DOMAIN before <=> m \in DOMAIN after
                         /\ m \in DOMAIN before => after[m] = before[m]
  PROVE  OthersStay(env, before, after, n)
<1>1. ASSUME NEW e, e.name # n
      PROVE  e \in EffectiveTargets(env, before) <=> e \in EffectiveTargets(env, after)
  <2>1. /\ HasRow(before, e.name, "db_addition") <=> HasRow(after, e.name, "db_addition")
        /\ HasRow(before, e.name, "db_addition") => after[e.name] = before[e.name]
        /\ Disabled(before, e.name) <=> Disabled(after, e.name)
    BY <1>1, Zenon DEF HasRow, Disabled
  <2> QED
    BY <2>1, InService
<1> QED
  BY <1>1 DEF OthersStay

\* A VM that is switched off is out of service, and a VM that was added for good: the
\* row it was added by is gone, and switching it on again does not bring it back.
THEOREM SwitchedOff ==
  ASSUME NEW env \in Environments, NEW table \in Tables, NEW n
  PROVE  /\ OutOfService(env, Toggle(table, n, TRUE), n)
         /\ (\A i \in DOMAIN env.targets : env.targets[i].name # n)
              => OutOfService(env, OffAndOn(table, n), n)
<1>1. OutOfService(env, Toggle(table, n, TRUE), n)
  <2> DEFINE after == Toggle(table, n, TRUE)
  <2>1. n \in DOMAIN after /\ after[n].source = "yaml_override" /\ after[n].disabled
    BY DEF Toggle, Upsert
  <2> HIDE DEF after
  <2>2. Disabled(after, n) /\ ~HasRow(after, n, "db_addition")
    BY <2>1 DEF Disabled, HasRow
  <2> QED
    BY <2>2, InService DEF OutOfService, after
<1>2. ASSUME \A i \in DOMAIN env.targets : env.targets[i].name # n
      PROVE  OutOfService(env, OffAndOn(table, n), n)
  <2> DEFINE after == OffAndOn(table, n)
  <2>1. n \in DOMAIN after /\ after[n].source = "yaml_override"
    BY DEF OffAndOn, Toggle, Upsert
  <2> HIDE DEF after
  <2>2. ~HasRow(after, n, "db_addition")
    BY <2>1 DEF HasRow
  <2>3. \A e \in FileEntries(env) : e.name # n
    BY <1>2 DEF FileEntries
  <2> QED
    BY <2>2, <2>3, InService DEF OutOfService, after
<1> QED
  BY <1>1, <1>2

\* A VM of the file that was in service is back in service when it is switched on
\* again, and the forms leave every other VM as it was.
THEOREM SwitchedBack ==
  ASSUME NEW env \in Environments, NEW table \in Tables, NEW n \in STRING
  PROVE  /\ ~HasRow(table, n, "db_addition") /\ ~Disabled(table, n)
              => EffectiveTargets(env, OffAndOn(table, n)) = EffectiveTargets(env, table)
         /\ \A off \in BOOLEAN : OthersStay(env, table, Toggle(table, n, off), n)
         /\ \A host \in STRING : OthersStay(env, table, Add(table, n, host), n)
         /\ OthersStay(env, table, Delete(table, n), n)
<1>1. ASSUME NEW row PROVE OthersStay(env, table, Upsert(table, n, row), n)
  <2>1. \A m : m # n => /\ m \in DOMAIN table <=> m \in DOMAIN Upsert(table, n, row)
                        /\ m \in DOMAIN table => Upsert(table, n, row)[m] = table[m]
    BY DEF Upsert
  <2> QED
    BY <2>1, OneRow
<1>2. OthersStay(env, table, Delete(table, n), n)
  <2>1. \A m : m # n => /\ m \in DOMAIN table <=> m \in DOMAIN Delete(table, n)
                        /\ m \in DOMAIN table => Delete(table, n)[m] = table[m]
    BY DEF Delete
  <2> QED
    BY <2>1, OneRow
<1>3. ASSUME ~HasRow(table, n, "db_addition"), ~Disabled(table, n)
      PROVE  EffectiveTargets(env, OffAndOn(table, n)) = EffectiveTargets(env, table)
  <2> DEFINE after == OffAndOn(table, n)
  <2>1. /\ n \in DOMAIN after /\ after[n].source = "yaml_override" /\ ~after[n].disabled
        /\ \A m : m # n => /\ m \in DOMAIN table <=> m \in DOMAIN after
                           /\ m \in DOMAIN table => after[m] = table[m]
    BY DEF OffAndOn, Toggle, Upsert
  <2> HIDE DEF after
  <2>2. ASSUME NEW e
        PROVE  e \in EffectiveTargets(env, after) <=> e \in EffectiveTargets(env, table)
    <3>1. /\ HasRow(after, e.name, "db_addition") <=> HasRow(table, e.name, "db_addition")
          /\ HasRow(table, e.name, "db_addition") => after[e.name] = table[e.name]
          /\ Disabled(after, e.name) <=> Disabled(table, e.name)
      <4>1. CASE e.name = n
        BY <1>3, <2>1, <4>1 DEF HasRow, Disabled
      <4>2. CASE e.name # n
        BY <2>1, <4>2, Zenon DEF HasRow, Disabled
      <4> QED
        BY <4>1, <4>2
    <3> QED
      BY <3>1, InService
  <2> QED
    BY <2>2 DEF after
<1> QED
  BY <1>1, <1>2, <1>3 DEF Toggle, Add

-----------------------------------------------------------------------------
(* Where a setting comes from *)

\* What is posted is what the agent has when it is started again, unless its own
\* environment says otherwise, and no other field changes.
THEOREM PostsAreRead ==
  ASSUME NEW web, NEW env, NEW table, NEW file, NEW form
  PROVE  PostsTakeEffect(web, env, table, file, form)
<1> SUFFICES ASSUME NEW f \in Fields
             PROVE  LET now == AgentValue(f, env, Post(web, table, form), file) IN
                    /\ f \in Saved(web, form) \ DOMAIN env => now = OverrideOf(f, form[f])
                    /\ f \notin Saved(web, form) => now = AgentValue(f, env, table, file)
  BY DEF PostsTakeEffect
<1> DEFINE after == Post(web, table, form)
<1>1. /\ DOMAIN after = DOMAIN table \cup Saved(web, form)
      /\ f \in Saved(web, form) => after[f] = form[f]
      /\ f \in DOMAIN table \ Saved(web, form) => after[f] = table[f]
  BY DEF Post
<1>2. Saved(web, form) \subseteq FromTable
  BY DEF Saved, Free, PageFields, FromTable, Everywhere, NotInFile
<1> HIDE DEF after
<1>3. f \in Saved(web, form) \ DOMAIN env
        => AgentValue(f, env, after, file) = OverrideOf(f, form[f])
  BY <1>1, <1>2 DEF AgentValue, ValueOf, Reads
<1>4. f \notin Saved(web, form)
        => AgentValue(f, env, after, file) = AgentValue(f, env, table, file)
  BY <1>1 DEF AgentValue, ValueOf, Reads
<1> QED
  BY <1>3, <1>4 DEF after

\* A reset brings back what the field has without the table.
THEOREM ResetsAreRead ==
  ASSUME NEW env, NEW table, NEW file
  PROVE  ResetsRevert(env, table, file)
<1> SUFFICES ASSUME NEW f \in Fields \ DOMAIN env
             PROVE  AgentValue(f, env, Reset(table, f), file) = WebValue(f, env, file)
  BY DEF ResetsRevert
<1>1. f \notin DOMAIN Reset(table, f) /\ f \notin DOMAIN Nothing
  BY DEF Reset, Nothing
<1> QED
  BY <1>1 DEF AgentValue, WebValue, ValueOf, Reads

\* Saving the page as it was shown changes nothing, unless it shows a secret: the
\* bullets that stand for it are then saved in its place.
THEOREM SavedAsShown ==
  ASSUME NEW web, NEW table, PageTable(table), table = [f \in DOMAIN table |-> table[f]]
  PROVE  /\ Free(web) \cap DOMAIN table \cap Secrets = {} => SavingKeeps(web, table)
         /\ "llm_api_key" \in Free(web) \cap DOMAIN table /\ web.key
              => Post(web, table, Form(web, table))["llm_api_key"] = [good |-> TRUE, value |-> Mask]
<1> DEFINE form == Form(web, table)
<1>1. /\ DOMAIN form = Free(web) \cap DOMAIN table
      /\ \A f \in DOMAIN form \ Secrets : form[f] = table[f]
      /\ \A f \in DOMAIN form \cap Secrets : form[f] = [good |-> TRUE, value |-> Mask]
  BY DEF Form
<1> HIDE DEF form
<1>2. Saved(web, form) \subseteq DOMAIN form
  BY <1>1 DEF Saved
<1>3. ASSUME Free(web) \cap DOMAIN table \cap Secrets = {}
      PROVE  SavingKeeps(web, table)
  <2>1. \A f \in Saved(web, form) : f \in DOMAIN table /\ form[f] = table[f]
    BY <1>1, <1>2, <1>3
  <2>2. Post(web, table, form) = [f \in DOMAIN table |-> table[f]]
    BY <2>1 DEF Post
  <2> QED
    BY <2>2 DEF SavingKeeps, form
<1>4. ASSUME "llm_api_key" \in Free(web) \cap DOMAIN table, web.key
      PROVE  Post(web, table, form)["llm_api_key"] = [good |-> TRUE, value |-> Mask]
  <2>1. "llm_api_key" \in Saved(web, form)
    BY <1>1, <1>4 DEF Saved
  <2>2. form["llm_api_key"] = [good |-> TRUE, value |-> Mask]
    BY <1>1, <1>4 DEF Secrets
  <2> QED
    BY <2>1, <2>2 DEF Post
<1> QED
  BY <1>3, <1>4 DEF form

\* With one environment and one file the agent and the web process have the same
\* settings, but for those the page overrides.
THEOREM ProcessesHaveTheSame ==
  ASSUME NEW env, NEW table, NEW file, PageTable(table)
  PROVE  ProcessesAgree(env, table, file)
<1> SUFFICES ASSUME NEW f \in Fields \ (PageFields \cap DOMAIN table)
             PROVE  AgentValue(f, env, table, file) = WebValue(f, env, file)
  BY DEF ProcessesAgree
<1>1. f \notin DOMAIN table /\ f \notin DOMAIN Nothing
  BY DEF PageTable, Nothing
<1> QED
  BY <1>1 DEF AgentValue, WebValue, ValueOf, Reads

\* A process that started has its settings in the ranges the file insists on, as far
\* as its environment does not set them: the thresholds and timeouts that are read
\* from the file alone always, the rolling percentage only then.
THEOREM RangesAreKept ==
  ASSUME NEW env, NEW table, NEW file, Loads(env, file), PageTable(table)
  PROVE  RangesHold(env, table, file)
<1> SUFFICES ASSUME NEW f \in RangedFields, ~Reads(f, FromEnvironment, env)
             PROVE  InRange(f, AgentValue(f, env, table, file))
  BY DEF RangesHold
<1>1. CASE Reads(f, FromTable, table)
  <2>1. f = "llm_temperature" /\ f \in DOMAIN table
    BY <1>1 DEF Reads, PageTable, PageFields, RangedFields, TimeoutFields, ThresholdFields
  <2> QED
    BY <1>1, <2>1 DEF PageTable, AgentValue, ValueOf, OverrideOf
<1>2. CASE ~Reads(f, FromTable, table) /\ Reads(f, FromFile, file)
  BY <1>2 DEF Loads, Reads, AgentValue, ValueOf
<1>3. CASE ~Reads(f, FromTable, table) /\ ~Reads(f, FromFile, file)
  BY <1>3, SettingsAssumption DEF AgentValue, ValueOf
<1> QED
  BY <1>1, <1>2, <1>3
=============================================================================
