----------------------------- MODULE BatchGraph -----------------------------
(***************************************************************************)
(* The orchestrator graph of errander/agent/graph.py: one batch over the   *)
(* targets of one environment, from init_batch to generate_report.  A node *)
(* is a step; the VMs of a wave run side by side, and what a VM graph does *)
(* inside is the business of VmRuns.  Of the approval gate only the answer *)
(* is kept: ApprovalPipeline tells how it is found.                        *)
(*                                                                         *)
(* A plan is known by the VMs it covers, a hash by the plan it commits to: *)
(* Hash(p), or NoHash.  Thresholds are percentages.                        *)
(***************************************************************************)
EXTENDS Integers, Sequences, FiniteSets

CONSTANTS
  Vms,
  Fleets,         \* the target lists a batch may start with
  Settings,       \* the rollout settings init_batch may read
  Artifacts,      \* the stored plans a replay may start with
  NoArtifact

Hash(p) == {p}
NoHash  == {}

ASSUME BatchAssumption ==
  /\ Fleets \subseteq Seq(Vms)
  /\ \A f \in Fleets : \A i, j \in 1..Len(f) : f[i] = f[j] => i = j
  /\ Settings \subseteq [percentage : Int, tolerance : 0..100,
                         fleetTolerance : 0..100, canary : BOOLEAN]
  /\ Artifacts \subseteq [plan : SUBSET Vms, hash : {Hash(p) : p \in SUBSET Vms}, dated : BOOLEAN]
  /\ NoArtifact \notin Artifacts

VARIABLES
  stage,          \* the node that runs next, or how the graph ended
  settings,       \* what init_batch put into the state
  dryRun,
  preloaded,      \* the artifact of a replay (preloaded_plan_json and its hash)
  targets,
  healthy,        \* healthy_targets
  plan,           \* the VMs of _effective_vm_plans
  planHash,
  approved,       \* None, True or False
  error,
  waves,
  current,        \* current_wave
  aborted,        \* wave_aborted
  checks,         \* the VMs each finished health check found unhealthy
  vm,             \* what vm_results says of each dispatched VM
  worked,         \* the VMs on which an action ran
  status          \* the row of the batches table

inputVars == <<settings, dryRun, preloaded, targets>>
planVars  == <<healthy, plan, planHash>>
waveVars  == <<waves, current, aborted, checks>>
vmVars    == <<vm, worked>>
vars == <<stage, inputVars, planVars, approved, error, waveVars, vmVars, status>>

Nodes == {"init_batch", "validate_window", "validate_targets", "check_fleet_health",
          "plan_vms", "generate_plan_artifact", "load_deferred_artifact",
          "approval_gate", "verify_plan_hash", "prepare_waves", "dispatch_wave",
          "run_vm", "generate_report"}
Ended == {"reported", "deferred", "crashed"}

\* A VM run that has come back: no result, only good ones, or a failed one.
Finished == {"none", "good", "failed"}

TypeOK ==
  /\ stage \in Nodes \cup Ended
  /\ settings \in Settings
  /\ dryRun \in BOOLEAN
  /\ preloaded \in Artifacts \cup {NoArtifact}
  /\ targets \in Fleets
  /\ healthy \in Seq(Vms)
  /\ plan \in SUBSET Vms
  /\ planHash \in SUBSET SUBSET Vms
  /\ approved \in {"unset", "yes", "no"}
  /\ error \in BOOLEAN
  /\ waves \in Seq(Seq(Vms))
  /\ current \in Nat
  /\ aborted \in BOOLEAN
  /\ checks \in Seq(SUBSET Vms)
  /\ vm \in [Vms -> {"idle", "running"} \cup Finished]
  /\ worked \in SUBSET Vms
  /\ status \in {"absent", "running", "completed", "completed_with_failures", "aborted"}

Replay == preloaded # NoArtifact

\* A replay is live, both of its callers pass dry_run=False, and its batch has
\* its row.
Init ==
  /\ stage = "init_batch"
  /\ settings \in Settings
  /\ preloaded \in Artifacts \cup {NoArtifact}
  /\ dryRun \in IF Replay THEN {FALSE} ELSE BOOLEAN
  /\ targets \in Fleets
  /\ healthy = <<>> /\ plan = {} /\ planHash = NoHash
  /\ approved = "unset" /\ error = FALSE
  /\ waves = <<>> /\ current = 0 /\ aborted = FALSE /\ checks = <<>>
  /\ vm = [v \in Vms |-> "idle"] /\ worked = {}
  /\ status = IF Replay THEN "running" ELSE "absent"

Listed(s) == {s[i] : i \in 1..Len(s)}

Goes(from, to) == stage = from /\ stage' = to

-----------------------------------------------------------------------------
(* Before the approval *)

\* init_batch_node; the row of a replayed batch is already there.
InitBatch ==
  /\ Goes("init_batch", "validate_window")
  /\ status' = "running"
  /\ UNCHANGED <<inputVars, planVars, approved, error, waveVars, vmVars>>

\* validate_window_node and route_after_window; replays are forced.
ValidateWindow ==
  \E blocked \in IF Replay THEN {FALSE} ELSE BOOLEAN :
    /\ Goes("validate_window", IF blocked THEN "generate_report" ELSE "validate_targets")
    /\ error' = blocked
    /\ UNCHANGED <<inputVars, planVars, approved, waveVars, vmVars, status>>

\* validate_targets_node: any target may be unreachable, of the wrong OS or not
\* ready; pick tells the places of the others, which keep their order.
ValidateTargets ==
  /\ Goes("validate_targets", "check_fleet_health")
  /\ \E n \in 0..Len(targets) : \E pick \in [1..n -> 1..Len(targets)] :
       /\ \A i, j \in 1..n : i < j => pick[i] < pick[j]
       /\ healthy' = [i \in 1..n |-> targets[pick[i]]]
  /\ UNCHANGED <<inputVars, plan, planHash, approved, error, waveVars, vmVars, status>>

\* Faulty variant: the rate is an integer division.
FaultyFleetIsSick ==
  \/ targets = <<>>
  \/ 100 * ((Len(targets) - Len(healthy)) \div Len(targets)) > settings.fleetTolerance

FleetIsSick ==
  \/ targets = <<>>
  \/ 100 * (Len(targets) - Len(healthy)) > settings.fleetTolerance * Len(targets)

\* check_fleet_health_node and route_after_fleet_check.
CheckFleet ==
  /\ Goes("check_fleet_health",
          IF FleetIsSick \/ healthy = <<>> THEN "generate_report"
          ELSE IF Replay THEN "load_deferred_artifact" ELSE "plan_vms")
  /\ error' = FleetIsSick
  /\ UNCHANGED <<inputVars, planVars, approved, waveVars, vmVars, status>>

\* plan_vm for every healthy target, collect_plans and enrich_plan: a VM whose
\* detection fails is left out of the plan.
PlanVms ==
  /\ Goes("plan_vms", "generate_plan_artifact")
  /\ plan' \in SUBSET Listed(healthy)
  /\ UNCHANGED <<inputVars, healthy, planHash, approved, error, waveVars, vmVars, status>>

GeneratePlanArtifact ==
  /\ Goes("generate_plan_artifact", "approval_gate")
  /\ planHash' = Hash(plan)
  /\ UNCHANGED <<inputVars, healthy, plan, approved, error, waveVars, vmVars, status>>

\* Faulty variant: the hash is computed from the artifact, not compared with it.
FaultyLoadDeferredArtifact ==
  /\ Goes("load_deferred_artifact", "approval_gate")
  /\ plan' = preloaded.plan /\ planHash' = Hash(preloaded.plan)
  /\ UNCHANGED <<inputVars, healthy, approved, error, waveVars, vmVars, status>>

\* load_deferred_artifact_node: an artifact without a valid approval time, too
\* old, or not the one the hash commits to leaves an error and no plan.
LoadDeferredArtifact ==
  /\ Goes("load_deferred_artifact", "approval_gate")
  /\ IF preloaded.dated /\ Hash(preloaded.plan) = preloaded.hash
       THEN plan' = preloaded.plan /\ planHash' = preloaded.hash /\ UNCHANGED error
       ELSE error' = TRUE /\ UNCHANGED <<plan, planHash>>
  /\ UNCHANGED <<inputVars, healthy, approved, waveVars, vmVars, status>>

-----------------------------------------------------------------------------
(* The approval *)

\* approval_gate_node approves a replay and a dry run by itself, the replay
\* even when loading its artifact failed.
GatePasses ==
  /\ Replay \/ dryRun
  /\ Goes("approval_gate", "verify_plan_hash")
  /\ approved' = "yes"
  /\ UNCHANGED <<inputVars, planVars, error, waveVars, vmVars, status>>

\* A live plan is approved, rejected, refused with an error (no store, the
\* claim lost) or deferred to the window; route_after_approval.
GateAnswers ==
  /\ ~Replay /\ ~dryRun
  /\ \E answer \in {"approved", "rejected", "refused", "deferred"} :
       /\ Goes("approval_gate",
               CASE answer = "approved" -> "verify_plan_hash"
                 [] answer = "deferred" -> "deferred"
                 [] OTHER -> "generate_report")
       /\ approved' = IF answer \in {"approved", "deferred"} THEN "yes" ELSE "no"
       /\ error' = (answer = "refused")
  /\ UNCHANGED <<inputVars, planVars, waveVars, vmVars, status>>

\* verify_plan_hash_node and route_after_hash_verify; a dry run is exempt.
VerifyPlanHash ==
  LET drifted == ~dryRun /\ planHash # Hash(plan) IN
  /\ Goes("verify_plan_hash", IF error \/ drifted THEN "generate_report" ELSE "prepare_waves")
  /\ error' = (error \/ drifted)
  /\ approved' = IF drifted THEN "no" ELSE approved
  /\ UNCHANGED <<inputVars, planVars, waveVars, vmVars, status>>

-----------------------------------------------------------------------------
(* The rollout *)

UpTo(n, size) == (n + size - 1) \div size

\* Faulty variant: a share that is a whole number of VMs gets one more.
FaultyWaveSize(n) == (n * settings.percentage) \div 100 + 1

\* _partition_into_waves: never fewer VMs per wave than the percentage asks for,
\* and at least one (a percentage from the environment may be zero or negative).
WaveSize(n) ==
  LET share == UpTo(n * settings.percentage, 100) IN IF share > 1 THEN share ELSE 1

\* Faulty variant: a last, shorter wave is forgotten.
FaultyPartition(s) ==
  LET size == WaveSize(Len(s)) IN
  IF s = <<>> THEN <<>>
  ELSE [i \in 1..(Len(s) \div size) |-> SubSeq(s, (i - 1) * size + 1, i * size)]

Partition(s) ==
  LET size == WaveSize(Len(s))
      end(i) == IF i * size < Len(s) THEN i * size ELSE Len(s)
  IN  IF s = <<>> THEN <<>>
      ELSE [i \in 1..UpTo(Len(s), size) |-> SubSeq(s, (i - 1) * size + 1, end(i))]

\* Faulty variant: the canary is only checked more strictly.
FaultyPrepareWaves ==
  /\ Goes("prepare_waves", "dispatch_wave")
  /\ waves' = Partition(healthy)
  /\ current' = 0 /\ aborted' = FALSE
  /\ UNCHANGED <<inputVars, planVars, approved, error, checks, vmVars, status>>

\* prepare_waves_node: a canary goes alone, before the waves of the others.
PrepareWaves ==
  /\ Goes("prepare_waves", "dispatch_wave")
  /\ waves' = IF settings.canary /\ Len(healthy) > 1
                THEN <<<<Head(healthy)>>>> \o Partition(Tail(healthy))
                ELSE Partition(healthy)
  /\ current' = 0 /\ aborted' = FALSE
  /\ UNCHANGED <<inputVars, planVars, approved, error, checks, vmVars, status>>

Wave(i) == Listed(waves[i])

\* dispatch_current_wave sends every VM of the wave to run_vm.
DispatchWave ==
  /\ Goes("dispatch_wave", "run_vm")
  /\ vm' = [v \in Vms |-> IF v \in Wave(current + 1) THEN "running" ELSE vm[v]]
  /\ UNCHANGED <<inputVars, planVars, approved, error, waveVars, worked, status>>

\* A live VM outside the approved plan starts with an error and no action.
MayWork(v) == dryRun \/ v \in plan

\* run_vm_node: the actions of the VM ran, or none did because the lock was
\* refused, the VM had drifted, the plan was empty, ...; an exception in the
\* VM graph is turned into a failed result.
RunVm(v) ==
  /\ stage = "run_vm" /\ vm[v] = "running"
  /\ \/ /\ MayWork(v)
        /\ \E r \in {"good", "failed"} : vm' = [vm EXCEPT ![v] = r]
        /\ worked' = worked \cup {v}
     \/ /\ \E r \in {"none", "failed"} : vm' = [vm EXCEPT ![v] = r]
        /\ UNCHANGED worked
  /\ UNCHANGED <<stage, inputVars, planVars, approved, error, waveVars, status>>

\* The canary tolerates no failure, another wave a share of its VMs.
Failed(i, sick) ==
  IF settings.canary /\ i = 1 THEN sick # {}
  ELSE 100 * Cardinality(sick) > settings.tolerance * Cardinality(Wave(i))

\* Faulty variants: the rollout goes on after a failed check; a first canary
\* check does not count its wave; a failed VM run never joins.
FaultyGoesOn(failed) == current + 1 < Len(waves)

GoesOn(failed) == ~failed /\ current + 1 < Len(waves)

FaultyCounted == IF settings.canary /\ current = 0 /\ checks = <<>> THEN 0 ELSE current + 1

Counted == current + 1

FaultyJoined == \A v \in Wave(current + 1) : vm[v] \in {"none", "good"}

Joined == \A v \in Wave(current + 1) : vm[v] \in Finished

\* check_wave_health_node runs once every VM of the wave is back, and asks
\* each for its health, not for its results; route_after_wave_health.
CheckWaveHealth ==
  /\ stage = "run_vm" /\ Joined
  /\ \E sick \in SUBSET Wave(current + 1) :
       LET failed == Failed(current + 1, sick) IN
       /\ checks' = Append(checks, sick)
       /\ aborted' = failed
       /\ stage' = IF GoesOn(failed) THEN "dispatch_wave" ELSE "generate_report"
  /\ current' = Counted
  /\ UNCHANGED <<inputVars, planVars, approved, error, waves, vmVars, status>>

-----------------------------------------------------------------------------
(* The end *)

\* Faulty variant: the batch is given an action's status.
FaultyVerdict ==
  IF error \/ approved = "no" THEN "aborted"
  ELSE IF \E v \in Vms : vm[v] = "failed" THEN "failed"
  ELSE "completed"

\* The status generate_report_node gives the batch.
Verdict ==
  IF error \/ approved = "no" THEN "aborted"
  ELSE IF \E v \in Vms : vm[v] = "failed" THEN "completed_with_failures"
  ELSE "completed"

\* collect_results_node passes on to generate_report_node.
GenerateReport ==
  /\ Goes("generate_report", "reported")
  /\ status' = Verdict
  /\ UNCHANGED <<inputVars, planVars, approved, error, waveVars, vmVars>>

\* The process dies, or an exception (a strict audit write, a database error)
\* escapes a node and with it the graph; no code resumes a checkpoint.
Crash ==
  /\ stage \notin Ended
  /\ stage' = "crashed"
  /\ UNCHANGED <<inputVars, planVars, approved, error, waveVars, vmVars, status>>

Step ==
  \/ InitBatch \/ ValidateWindow \/ ValidateTargets \/ CheckFleet
  \/ PlanVms \/ GeneratePlanArtifact \/ LoadDeferredArtifact
  \/ GatePasses \/ GateAnswers \/ VerifyPlanHash
  \/ PrepareWaves \/ DispatchWave \/ (\E v \in Vms : RunVm(v)) \/ CheckWaveHealth
  \/ GenerateReport

Next == Step \/ Crash

Spec == Init /\ [][Next]_vars

\* The event loop runs a node that is due, every SSH command has a timeout,
\* and an approval is decided or times out.
FairSpec == Spec /\ WF_vars(Step)

-----------------------------------------------------------------------------
(* Properties *)

\* A wave that fails its health check is the last one: no VM of a later wave
\* is dispatched, in whatever order the VMs of the waves came back
\* (check_wave_health_node, route_after_wave_health).
FailedWaveIsLast ==
  \A i \in 1..Len(checks) : Failed(i, checks[i]) =>
    \A j \in (i + 1)..Len(waves) : \A v \in Wave(j) : vm[v] = "idle"

\* With a canary, no other VM is dispatched before the canary is back and has
\* been found healthy (prepare_waves_node, check_wave_health_node).
CanaryGoesFirst ==
  settings.canary /\ healthy # <<>> =>
    \A v \in Vms \ {healthy[1]} : vm[v] # "idle" =>
      /\ vm[healthy[1]] \in Finished
      /\ checks # <<>> /\ checks[1] = {}

\* No more VMs are worked on at once than the rolling percentage allows,
\* rounded up to a whole VM, or else one (_partition_into_waves).
RollingShare ==
  LET busy == Cardinality({v \in Vms : vm[v] = "running"}) IN
    busy <= 1 \/ 100 * busy < settings.percentage * Len(healthy) + 100

\* Live actions run only on healthy VMs of the plan that was approved: the
\* one whose hash the approver was shown, or whose hash was stored with the
\* approval that a replay carries forward (load_deferred_artifact_node,
\* verify_plan_hash_node, dispatch_current_wave).
ApprovedPlanOnly ==
  worked # {} /\ ~dryRun =>
    /\ approved = "yes"
    /\ worked \subseteq (UNION planHash) \cap Listed(healthy)
    /\ Replay => preloaded.dated /\ planHash = preloaded.hash

\* A batch that is aborted, or whose fleet failed the pre-flight check, has
\* dispatched no VM (check_fleet_health_node, generate_report_node).
AbortMeansUntouched ==
  (\E v \in Vms : vm[v] # "idle") =>
    /\ status # "aborted"
    /\ 100 * (Len(targets) - Len(healthy)) <= settings.fleetTolerance * Len(targets)

\* A batch that is reported completed had no failed result and, unless a
\* failed wave cut it short, came to every healthy VM (generate_report_node,
\* _partition_into_waves, route_after_wave_health).
CompletedMeansVisited ==
  /\ status = "completed" => \A v \in Vms : vm[v] # "failed"
  /\ status \in {"completed", "completed_with_failures"} /\ ~aborted =>
       \A v \in Listed(healthy) : vm[v] \in Finished

\* A VM is dispatched at most once per batch (prepare_waves_node,
\* check_wave_health_node).
VisitedOnce ==
  [][\A v \in Vms : vm[v] \in Finished => vm'[v] = vm[v]]_vars

\* Every batch is reported, deferred or dead in the end; a failed VM run does
\* not hold up the others (run_vm_node).
BatchEnds == <>(stage \in Ended)
=============================================================================
