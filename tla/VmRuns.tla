------------------------------- MODULE VmRuns -------------------------------
(***************************************************************************)
(* The runs that work on one VM: the VM graphs of errander/agent/          *)
(* vm_graph.py, one per batch that dispatched this VM, and the two places  *)
(* in main.py that run an action subgraph directly, `--restart-service`    *)
(* (a process of its own) and the proposal reconciler (in the agent).      *)
(* Every node of the graph is a step, and so is every file operation of    *)
(* FileLocker; between two steps any other run may proceed.                *)
(*                                                                         *)
(* An action is known by its kind and a subgraph by its outcome.  A plan   *)
(* is a short sequence of kinds; the order of kinds is the planner's.      *)
(***************************************************************************)
EXTENDS Naturals, Sequences, FileLocker

CONSTANTS
  Plans,          \* the action sequences a plan may have
  Overruns,       \* runs that may outlast the TTL of their lock
  StrictAudit,    \* audit_mode = "strict": a failed audit write raises
  MaxFaults       \* bound on deaths, escaping exceptions and lost audit rows

Kinds == {"disk_cleanup", "patching", "backup_verify"}

ASSUME VmAssumption ==
  /\ <<>> \in Plans /\ Plans \subseteq Seq(Kinds)
  /\ Overruns \subseteq Runs
  /\ StrictAudit \in BOOLEAN
  /\ MaxFaults \in Nat

VARIABLES
  stage,          \* stage[r]: the node that r is in
  live,           \* live[r]: not dry_run
  given,          \* given[r]: the actions the batch handed over
  approved,       \* approved[r]: pre_approved_plan_set
  plan,           \* plan[r]: planned_actions
  index,          \* index[r]: current_action_index
  results,        \* results[r]: one record per action
  logged,         \* logged[r]: per result tried, whether its row is in the trail
  locked,         \* locked[r]: r was granted the lock and has not released it
  error,          \* error[r]: the error field of the state is set
  faults

runVars  == <<live, given, approved>>
workVars == <<plan, index, results>>
vars == <<lockVars, stage, runVars, workVars, logged, locked, error, faults>>

GraphRuns == Runs \ DirectRuns

OnVm   == {"discover", "drift", "planning", "preflight", "dispatch", "acting", "gate"}
Active == OnVm \cup {"lock", "locking", "audit", "release", "releasing"}
Ended  == {"done", "crashed"}

\* A result says whether the subgraph ran; what it achieved is not told apart.
Outcome == [action : Kinds, ran : BOOLEAN]

TypeOK ==
  /\ LockTypeOK
  /\ stage \in [Runs -> {"new"} \cup Active \cup Ended]
  /\ live \in [Runs -> BOOLEAN]
  /\ given \in [Runs -> Plans]
  /\ approved \in [Runs -> BOOLEAN]
  /\ plan \in [Runs -> Plans]
  /\ index \in [Runs -> Nat]
  /\ results \in [Runs -> Seq(Outcome)]
  /\ logged \in [Runs -> Seq(BOOLEAN)]
  /\ locked \in [Runs -> BOOLEAN]
  /\ error \in [Runs -> BOOLEAN]
  /\ faults \in 0..MaxFaults

Init ==
  /\ LockInit
  /\ stage = [r \in Runs |-> "new"]
  /\ live = [r \in Runs |-> FALSE]
  /\ given = [r \in Runs |-> <<>>]
  /\ approved = [r \in Runs |-> FALSE]
  /\ plan = [r \in Runs |-> <<>>]
  /\ index = [r \in Runs |-> 0]
  /\ results = [r \in Runs |-> <<>>]
  /\ logged = [r \in Runs |-> <<>>]
  /\ locked = [r \in Runs |-> FALSE]
  /\ error = [r \in Runs |-> FALSE]
  /\ faults = 0

Moves(r, from, to) ==
  /\ stage[r] = from
  /\ LoopFree(r)
  /\ stage' = [stage EXCEPT ![r] = to]

\* Faulty variant: the index steps back.
FaultyYields(r, ran) ==
  /\ results' = [results EXCEPT
       ![r] = Append(@, [action |-> plan[r][index[r] + 1], ran |-> ran])]
  /\ index' = [index EXCEPT ![r] = @ - 1]
  /\ UNCHANGED plan

\* One more result; the index passes the action it is about.
Yields(r, ran) ==
  /\ results' = [results EXCEPT
       ![r] = Append(@, [action |-> plan[r][index[r] + 1], ran |-> ran])]
  /\ index' = [index EXCEPT ![r] = @ + 1]
  /\ UNCHANGED plan

-----------------------------------------------------------------------------
(* Start and lock *)

\* dispatch_current_wave: a VM in the plan runs its actions; a live run of a
\* VM that is not is sent out with an error; a dry run of one plans for itself.
Dispatch(r) ==
  /\ r \in GraphRuns
  /\ Moves(r, "new", "lock")
  /\ \E l, known \in BOOLEAN, p \in Plans :
       /\ known \/ p = <<>>
       /\ live' = [live EXCEPT ![r] = l]
       /\ given' = [given EXCEPT ![r] = p]
       /\ plan' = [plan EXCEPT ![r] = p]
       /\ approved' = [approved EXCEPT ![r] = known \/ l]
       /\ error' = [error EXCEPT ![r] = l /\ ~known]
  /\ UNCHANGED <<lockVars, index, results, logged, locked, faults>>

\* An approved restart reaches this VM; a tick of the proposal reconciler
\* reaches an approved proposal.
Begin(r) ==
  /\ r \in DirectRuns
  /\ Moves(r, "new", "lock")
  /\ live' = [live EXCEPT ![r] = TRUE]
  /\ UNCHANGED <<lockVars, given, approved, workVars, logged, locked, error, faults>>

AskForLock(r) ==
  /\ Moves(r, "lock", "locking")
  /\ StartCall(r, "acquire")
  /\ UNCHANGED <<runVars, workVars, logged, locked, error, faults>>

Granted(r) ==
  /\ At(r, "granted")
  /\ Moves(r, "locking", IF r \in DirectRuns THEN "acting" ELSE "discover")
  /\ locked' = [locked EXCEPT ![r] = TRUE]
  /\ call' = [call EXCEPT ![r] = Idle]
  /\ UNCHANGED <<file, tmp, runVars, workVars, logged, error, faults>>

\* Faulty variant: a refused VM graph goes on to discovery.
FaultyRefused(r) ==
  /\ At(r, "refused")
  /\ Moves(r, "locking", "discover")
  /\ locked' = [locked EXCEPT ![r] = TRUE]
  /\ call' = [call EXCEPT ![r] = Idle]
  /\ UNCHANGED <<file, tmp, runVars, workVars, logged, error, faults>>

\* A VM graph goes to the audit with an error, a restart skips the VM, a
\* proposal waits for the next tick.
Refused(r) ==
  /\ At(r, "refused")
  /\ Moves(r, "locking", IF r \in GraphRuns THEN "audit"
                         ELSE IF r \in AgentRuns THEN "new" ELSE "done")
  /\ error' = [error EXCEPT ![r] = r \in GraphRuns]
  /\ call' = [call EXCEPT ![r] = Idle]
  /\ UNCHANGED <<file, tmp, runVars, workVars, logged, locked, faults>>

\* acquire raised: the VM graph or the restart command is through; the tick of
\* the reconciler is, and the proposal, still unclaimed, waits for the next.
LockRaised(r) ==
  /\ At(r, "raised")
  /\ Moves(r, "locking", IF r \in DirectRuns \cap AgentRuns THEN "new" ELSE "crashed")
  /\ call' = [call EXCEPT ![r] = Idle]
  /\ UNCHANGED <<file, tmp, runVars, workVars, logged, locked, error, faults>>

-----------------------------------------------------------------------------
(* The nodes of the VM graph *)

\* discover_node and the read-only snapshots that follow it.
Discover(r) ==
  \E fails \in BOOLEAN :
    /\ error' = [error EXCEPT ![r] = @ \/ fails]
    /\ Moves(r, "discover", IF error'[r] THEN "audit" ELSE "drift")
    /\ UNCHANGED <<lockVars, runVars, workVars, logged, locked, faults>>

\* Faulty variant: an empty approved plan is taken for no plan.
FaultyAfterDrift(r) == IF plan[r] # <<>> THEN "dispatch" ELSE "planning"

\* route_after_drift_check: an approved plan is never planned again.
AfterDrift(r) ==
  IF ~approved[r] THEN "planning" ELSE IF plan[r] = <<>> THEN "audit" ELSE "dispatch"

\* drift_check_node, with drift_abort_on_detection or without.
CheckDrift(r) ==
  \E aborts \in BOOLEAN :
    /\ Moves(r, "drift", IF aborts THEN "audit" ELSE AfterDrift(r))
    /\ error' = [error EXCEPT ![r] = aborts]
    /\ UNCHANGED <<lockVars, runVars, workVars, logged, locked, faults>>

PlanActions(r) ==
  /\ Moves(r, "planning", "preflight")
  /\ \E p \in Plans : plan' = [plan EXCEPT ![r] = p]
  /\ index' = [index EXCEPT ![r] = 0]
  /\ UNCHANGED <<lockVars, runVars, results, logged, locked, error, faults>>

\* sudo_preflight_node checks nothing in a dry run.
Preflight(r) ==
  \E fails \in IF live[r] THEN BOOLEAN ELSE {FALSE} :
    /\ Moves(r, "preflight", IF fails THEN "audit" ELSE "dispatch")
    /\ error' = [error EXCEPT ![r] = fails]
    /\ UNCHANGED <<lockVars, runVars, workVars, logged, locked, faults>>

\* dispatch_action_node calls the subgraph ...
StartAction(r) ==
  /\ index[r] < Len(plan[r])
  /\ Moves(r, "dispatch", "acting")
  /\ UNCHANGED <<lockVars, runVars, workVars, logged, locked, error, faults>>

\* ... unless validate_action blocks the action, or there is none.
SkipAction(r) ==
  /\ Moves(r, "dispatch", "gate")
  /\ IF index[r] < Len(plan[r]) THEN Yields(r, FALSE) ELSE UNCHANGED workVars
  /\ UNCHANGED <<lockVars, runVars, logged, locked, error, faults>>

\* The subgraph returns, or raises inside dispatch_action_node's wrapper.
EndAction(r) ==
  /\ Moves(r, "acting", "gate")
  /\ Yields(r, TRUE)
  /\ UNCHANGED <<lockVars, runVars, logged, locked, error, faults>>

\* Faulty variant: the skipped action's index is not passed.
FaultyDiskGateSkips(r) ==
  /\ results' = [results EXCEPT ![r] = Append(@, [action |-> "patching", ran |-> FALSE])]
  /\ UNCHANGED <<plan, index>>

\* post_cleanup_disk_gate_node finds the disk still full.
DiskGateSkips(r) == Yields(r, FALSE)

\* Faulty variant: the loop runs while the index does not exceed the plan.
FaultyGate(r) ==
  /\ Moves(r, "gate", IF index[r] <= Len(plan[r]) THEN "dispatch" ELSE "audit")
  /\ UNCHANGED <<lockVars, runVars, workVars, logged, locked, error, faults>>

\* The gate looks only after a cleanup and before patching; check_more_actions.
Gate(r) ==
  /\ \/ UNCHANGED workVars
     \/ /\ results[r] # <<>> /\ results[r][Len(results[r])].action = "disk_cleanup"
        /\ index[r] < Len(plan[r]) /\ plan[r][index[r] + 1] = "patching"
        /\ DiskGateSkips(r)
  /\ Moves(r, "gate", IF index'[r] < Len(plan[r]) THEN "dispatch" ELSE "audit")
  /\ UNCHANGED <<lockVars, runVars, logged, locked, error, faults>>

\* audit_results_node logs one result after the other.
LogResult(r) ==
  /\ Len(logged[r]) < Len(results[r])
  /\ Moves(r, "audit", "audit")
  /\ logged' = [logged EXCEPT ![r] = Append(@, TRUE)]
  /\ UNCHANGED <<lockVars, runVars, workVars, locked, error, faults>>

EndAudit(r) ==
  /\ Len(logged[r]) = Len(results[r])
  /\ Moves(r, "audit", "release")
  /\ UNCHANGED <<lockVars, runVars, workVars, logged, locked, error, faults>>

-----------------------------------------------------------------------------
(* The end *)

\* The subgraph of a restart or of a proposal returns or raises.
EndDirect(r) ==
  /\ Moves(r, "acting", "release")
  /\ UNCHANGED <<lockVars, runVars, workVars, logged, locked, error, faults>>

\* Faulty variant: a run with an error ends without giving its lock back.
FaultyRelease(r) ==
  /\ locked[r]
  /\ IF error[r]
       THEN Moves(r, "release", "done") /\ UNCHANGED lockVars
       ELSE Moves(r, "release", "releasing") /\ StartCall(r, "release")
  /\ UNCHANGED <<runVars, workVars, logged, locked, error, faults>>

\* release_lock_node, or the finally clause of a direct run.
Release(r) ==
  /\ locked[r]
  /\ Moves(r, "release", "releasing")
  /\ StartCall(r, "release")
  /\ UNCHANGED <<runVars, workVars, logged, locked, error, faults>>

NothingToRelease(r) ==
  /\ ~locked[r]
  /\ Moves(r, "release", "done")
  /\ UNCHANGED <<lockVars, runVars, workVars, logged, locked, error, faults>>

Released(r) ==
  /\ call[r].at \in {"closed", "raised"}
  /\ Moves(r, "releasing", IF At(r, "closed") THEN "done" ELSE "crashed")
  /\ locked' = [locked EXCEPT ![r] = FALSE]
  /\ call' = [call EXCEPT ![r] = Idle]
  /\ UNCHANGED <<file, tmp, runVars, workVars, logged, error, faults>>

GraphStep(r) ==
  \/ Discover(r) \/ CheckDrift(r) \/ PlanActions(r) \/ Preflight(r)
  \/ StartAction(r) \/ SkipAction(r) \/ EndAction(r) \/ Gate(r)
  \/ LogResult(r) \/ EndAudit(r)

RunStep(r) ==
  \/ AskForLock(r) \/ Granted(r) \/ Refused(r) \/ LockRaised(r)
  \/ r \in GraphRuns /\ GraphStep(r)
  \/ r \in DirectRuns /\ EndDirect(r)
  \/ Release(r) \/ NothingToRelease(r) \/ Released(r)
  \/ LockStep(r) /\ UNCHANGED <<stage, runVars, workVars, logged, locked, error, faults>>

-----------------------------------------------------------------------------
(* Faults *)

\* Faulty variant: a strict audit store swallows the error of a write.
FaultyAuditFails(r) ==
  /\ faults < MaxFaults
  /\ Len(logged[r]) < Len(results[r])
  /\ Moves(r, "audit", "audit")
  /\ logged' = [logged EXCEPT ![r] = Append(@, FALSE)]
  /\ faults' = faults + 1
  /\ UNCHANGED <<lockVars, runVars, workVars, locked, error>>

\* Writing the row of a result or of the error fails.  A strict store raises
\* AuditWriteError, which escapes the graph; else the row is lost and the next
\* one is tried.
AuditFails(r) ==
  /\ faults < MaxFaults
  /\ Len(logged[r]) < Len(results[r]) \/ (error[r] /\ StrictAudit)
  /\ Moves(r, "audit", IF StrictAudit THEN "crashed" ELSE "audit")
  /\ logged' = IF StrictAudit THEN logged ELSE [logged EXCEPT ![r] = Append(@, FALSE)]
  /\ faults' = faults + 1
  /\ UNCHANGED <<lockVars, runVars, workVars, locked, error>>

\* An exception escapes another node: the release node is not reached.
Escape(r) ==
  /\ faults < MaxFaults
  /\ r \in GraphRuns
  /\ \E node \in {"discover", "drift", "preflight", "acting", "gate"} :
       Moves(r, node, "crashed")
  /\ faults' = faults + 1
  /\ UNCHANGED <<lockVars, runVars, workVars, logged, locked, error>>

\* The process of r dies, with every run in it.
Die(r) ==
  LET lost == IF r \in AgentRuns THEN AgentRuns ELSE {r} IN
  /\ faults < MaxFaults
  /\ stage[r] \in Active
  /\ stage' = [q \in Runs |-> IF q \in lost /\ stage[q] \in Active THEN "crashed" ELSE stage[q]]
  /\ call' = [q \in Runs |-> IF q \in lost THEN Idle ELSE call[q]]
  /\ faults' = faults + 1
  /\ UNCHANGED <<file, tmp, runVars, workVars, logged, locked, error>>

\* Time passes: the TTL of a lock whose run is over, or outlasts it.
Time(k) ==
  /\ Fresh(k)
  /\ stage[file[k].by] \in Ended \/ file[k].by \in Overruns
  /\ Expire(k)
  /\ UNCHANGED <<stage, runVars, workVars, logged, locked, error, faults>>

Next ==
  \/ \E r \in Runs : Dispatch(r) \/ Begin(r) \/ RunStep(r) \/ AuditFails(r) \/ Escape(r) \/ Die(r)
  \/ \E k \in Keys : Time(k)

Spec == Init /\ [][Next]_vars

\* The event loop serves its ready tasks in turn, so that a task which is ready
\* again and again runs (strong fairness: a call of another run in the process
\* disables it, and a proposal may call again with every tick).  Processes are
\* scheduled, commands have timeouts, time passes.  Nothing has to be dispatched.
FairSpec ==
  /\ Spec
  /\ \A r \in Runs : SF_vars(RunStep(r))
  /\ \A k \in Keys : WF_vars(Time(k))

-----------------------------------------------------------------------------
(* Properties *)

\* A run that works on the VM under the lock.
Working(r) == locked[r] /\ stage[r] \in OnVm

\* Two runs that lock the VM under the same name never work on it at once:
\* whatever died, failed or expired before (locking.py acquire).
LockExcludes ==
  \A r, q \in Runs : Working(r) /\ Working(q) /\ KeyOf(r) = KeyOf(q) => r = q

\* While a run works, the lock file of its name is its own and in force: no
\* other run purged it, replaced it or took it over (locking.py _read_lock,
\* _write_lock_atomic, release).
HoldsOwnLock ==
  \A r \in Runs : Working(r) => file[KeyOf(r)] = [by |-> r, full |-> TRUE, stale |-> FALSE]

\* The state of LockService that the files and calls stand for.
Holder(k) == IF Fresh(k) THEN file[k].by ELSE NoRun

Answer(r) ==
  IF stage[r] # "locking" THEN "none"
  ELSE IF call[r].at \in {"granted", "refused"} THEN call[r].at ELSE "asked"

Service == INSTANCE LockService WITH
  Names  <- Keys, Users <- Runs, NoUser <- NoRun,
  NameOf <- [r \in Runs |-> KeyOf(r)],
  holder <- [k \in Keys |-> Holder(k)],
  answer <- [r \in Runs |-> Answer(r)],
  over   <- {r \in Runs : stage[r] \in Ended}

\* However many file operations a call takes, to the runs of one process it is a
\* lock that is taken or found taken at one moment, and that lapses only under a run
\* which is over (locking.py acquire, release, is_expired).
LocksAreAtomic == Service!Spec

\* A run that has come to its regular end, with an error or not, has left no
\* lock behind: the next batch is not refused on its account (release_lock_node,
\* the finally clause of the proposal reconciler).
DoneLeavesNoLock ==
  \A r \in Runs : stage[r] = "done" => file[KeyOf(r)] = NoFile \/ file[KeyOf(r)].by # r

\* The lock file of a VM follows the runs that use it: owned and in force while one
\* works, not left to the next batch's harm by one that ended regularly.
LocksFollowRuns == HoldsOwnLock /\ DoneLeavesNoLock

\* The results stand in the order of the plan, one per action and none twice,
\* whatever was skipped by validation or by the disk gate; and what a live VM
\* graph works off is what the operator approved, never a plan made afterwards
\* (dispatch_action_node, post_cleanup_disk_gate_node, route_after_drift_check).
ResultsFollowPlan ==
  \A r \in GraphRuns :
    /\ index[r] = Len(results[r]) /\ index[r] <= Len(plan[r])
    /\ \A i \in 1..index[r] : results[r][i].action = plan[r][i]
    /\ live[r] => plan[r] = given[r]

\* With a strict audit store a run that reports its results to the batch has a
\* row for every one of them (audit.py log_event, audit_results_node).
StrictTrailIsComplete ==
  StrictAudit => \A r \in Runs : stage[r] = "done" => logged[r] = [i \in 1..Len(results[r]) |-> TRUE]

\* No two runs of any kind work on the VM at once: "Before any operation on a
\* VM, the agent acquires a file-based lock" (docs/SPEC.md).
OneRunPerVm ==
  \A r, q \in Runs : Working(r) /\ Working(q) => r = q

\* Every run that set out ends, and a refused proposal waits for its next tick (no
\* run stays active for good): no interleaving of lock calls leaves one stuck.
RunsEnd ==
  \A r \in Runs : []<>(stage[r] \notin Active)

\* No lock bars the VM for good: not even one whose run died or whose graph an
\* exception escaped (locking.py is_expired).
LocksEnd == \A k \in Keys : []<>~Fresh(k)
=============================================================================
