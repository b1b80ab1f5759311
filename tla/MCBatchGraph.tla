---------------------------- MODULE MCBatchGraph ----------------------------
(***************************************************************************)
(* BatchGraph on small fleets: with four VMs a wave may be a half, a fleet *)
(* may sit exactly on its threshold, and a canary leaves an odd rest.      *)
(*                                                                         *)
(* Where fleets and rollout settings come from, Inventory and AppSettings, *)
(* has no steps: what is said of it is evaluated here for some files,      *)
(* tables and forms.                                                       *)
(***************************************************************************)
EXTENDS BatchGraph, Inventory, AppSettings, TLC

CONSTANTS v1, v2, v3, v4

MCFleets == {<<>>, <<v1>>, <<v1, v2, v3, v4>>}

Rollout(percentage, tolerance, canary) ==
  [percentage |-> percentage, tolerance |-> tolerance, fleetTolerance |-> 50, canary |-> canary]

\* All at once, in rounded-up halves, with a canary, and one by one.
MCSettings ==
  {Rollout(100, 50, FALSE), Rollout(50, 50, FALSE), Rollout(40, 50, TRUE), Rollout(0, 0, FALSE)}

\* As approved, changed since, and too old or undated.
MCArtifacts ==
  {[plan |-> {v1, v2, v3}, hash |-> Hash({v1, v2, v3}), dated |-> TRUE],
   [plan |-> {v1, v2, v3, v4}, hash |-> Hash({v1, v2, v3}), dated |-> TRUE],
   [plan |-> {v1, v2, v3}, hash |-> Hash({v1, v2, v3}), dated |-> FALSE]}

-----------------------------------------------------------------------------
(* Some inventories *)

Config(on, mode, units, volumes) ==
  [enabled |-> on, mode |-> mode, units |-> units, volumes |-> volumes, days |-> 90]

SomeBlocks ==
  {<<>>}
    \cup [{"docker_hygiene"} -> {Config(on, mode, "none", volumes) :
            on \in BOOLEAN, mode \in {"none", "disabled", "wrapper"}, volumes \in BOOLEAN}]
    \cup [{"patching", "service_restart"} -> {Config(on, "none", units, FALSE) :
            on \in BOOLEAN, units \in {"none", "sound"}}]
    \cup [{"unknown"} -> {Config(TRUE, "none", "none", FALSE)}]
    \cup [{"docker_prune"} -> {Config(TRUE, "none", "none", FALSE)}]

\* Two targets, which may have one name.
SomeEnvironments ==
  {env \in {[actions |-> all, targets |-> <<[name |-> "a", own |-> own], [name |-> n, own |-> <<>>]>>] :
              all \in SomeBlocks, own \in SomeBlocks, n \in {"a", "b"}} : Accepted(env)}

SomeTables ==
  UNION {[S -> [source : {"yaml_override", "db_addition"}, disabled : BOOLEAN, host : {"h"}]] :
           S \in SUBSET {"a", "c"}}

ASSUME \E env \in SomeEnvironments : DOMAIN env.targets[1].own = {"docker_hygiene"}

ASSUME \A env \in SomeEnvironments, table \in SomeTables :
  /\ \A docker \in BOOLEAN, pending \in 0..1 :
       PlansAreAskedFor(env, table, [docker |-> docker, pending |-> pending])
  /\ ModesFollowActions(env, table)
  /\ PageIsTrue(env, table)
  /\ NamesAreFree(env, table) => ListedOnce(env, table)
  /\ ~ListedOnce(env, Add(table, "a", "h"))
  /\ \A n \in {"a", "c"} :
       /\ OutOfService(env, Toggle(table, n, TRUE), n)
       /\ OthersStay(env, table, Toggle(table, n, TRUE), n)
       /\ OthersStay(env, table, Delete(table, n), n)
  /\ OutOfService(env, OffAndOn(table, "c"), "c")

-----------------------------------------------------------------------------
(* Some settings *)

MCDefault ==
  [f \in Fields |-> IF f \in Switches THEN FALSE ELSE 30]

\* Of texts, which are numbers here, good ones and such as are no good or out of range.
SomeTexts ==
  [llm_api_key               |-> {[good |-> TRUE, value |-> 1]},
   llm_temperature           |-> {[good |-> TRUE, value |-> 70], [good |-> TRUE, value |-> 300]},
   llm_timeout_seconds       |-> {[good |-> TRUE, value |-> 60], [good |-> FALSE, value |-> 0]},
   rolling_update_percentage |-> {[good |-> TRUE, value |-> 0], [good |-> TRUE, value |-> 25]}]

SomeWritten ==
  UNION {{w \in [S -> UNION {SomeTexts[f] : f \in S}] : \A f \in S : w[f] \in SomeTexts[f]} :
           S \in SUBSET DOMAIN SomeTexts}

SomePageTables == {table \in SomeWritten : PageTable(table)}

ASSUME \E env, file \in SomeWritten :
  Loads(env, file) /\ DOMAIN env \cap DOMAIN file = {"rolling_update_percentage"}

ASSUME \A env, file \in SomeWritten, table \in SomePageTables :
  Loads(env, file) =>
    /\ RangesHold(env, table, file)
    /\ ProcessesAgree(env, table, file)
    /\ ResetsRevert(env, table, file)

ASSUME \A vars0, form \in SomeWritten, table \in SomePageTables, key \in BOOLEAN :
  LET web == [env |-> vars0, key |-> key] IN
    /\ PageTable(Post(web, table, form))
    /\ PostsTakeEffect(web, <<>>, table, <<>>, form)
    /\ SavingKeeps(web, table)
         <=> ~key \/ Free(web) \cap DOMAIN table \cap Secrets = {}
=============================================================================
