# Verification of Errander-AI

TLA+ models of Errander-AI (`errander/`), the agent that plans maintenance of a
fleet of VMs, asks people for approval and carries it out over SSH. This
directory holds the models, the configurations TLC checks them with, and proofs
that TLAPS checks. Paths below are relative to `errander/` unless they say
otherwise.

## 1. The system

One long-running *agent* process (`main.py`, APScheduler on one asyncio loop)
runs jobs; a separate *web UI* process records decisions; operators start
one-shot processes (`--run-now`, `--restart-service`). They share a PostgreSQL
database, in which every store method is one transaction, and a directory of
lock files on the agent VM. Slack only notifies.

| Part | State it keeps | Operations | Interacts with |
|---|---|---|---|
| Batch graph (`agent/graph.py`) | one LangGraph state per run, in memory: targets, plans, approval, waves, results | init, window check, target validation, fleet check, planning, enrichment, plan artifact, approval gate, hash check, waves, health checks, report | all stores, VM graphs |
| VM graph (`agent/vm_graph.py`) | one state per VM and batch: plan, index, results, lock flag, error | lock, discover, drift check, (re)plan, sudo preflight, dispatch, disk gate, audit, release | lock files, action subgraphs, audit store |
| Action subgraphs (`agent/subgraphs/`, `safety/rollback.py`) | one state per action | assess, snapshot, execute, verify, roll back | the VM over SSH, which others change too |
| Observations (`safety/baselines.py`, `drift_checks/`, `disk_history.py`, `execution/disk_trend.py`, `failed_logins.py`) | a baseline per VM and scope, a window of disk readings | compare and save, compare usage, count logins | VM graph and probe, audit, report |
| Approval requests (`safety/approval_store.py`) | one row per live batch: status, deadline, selection, claim | create, decide, mark_timeout, expire_overdue, mark_execution_started | gate, UI, reconciler |
| Deferred executions (`safety/deferred.py`) | one row per approved batch that waits for a window | save, get_pending, mark_executing, mark_done, expire_old | gate, reconciler, window opener |
| Batches (`safety/batches.py`) | one row per batch: RUNNING or how it ended | insert, update_status | batch graph, UI |
| Scheduler jobs (`main.py`, `scheduling/`) | what a job read and is working on, in memory | maintenance batch, window opener, approval reconciler, proposal reconciler, probe | everything |
| VM locks (`safety/locking.py`) | a JSON file per lock key | acquire, release | VM graphs, `--restart-service`, proposal reconciler |
| Hygiene approvals (`safety/hygiene_*.py`) | a row per batch and VM: status, assessment shown, items ticked, hash | create, decide, mark_timeout, expire_overdue | docker hygiene, UI, approval reconciler |
| Remove wrapper (`scripts/install-docker-wrappers-v2.sh`, on the VM) | a process of root per call | look at each object once more, remove it | docker hygiene |
| Proposals (`safety/proposal_store.py`, `agent/proposal_detector.py`, `investigation_trigger.py`) | a row per proposal | file, enrich, approve, reject, snooze, wake, expire, claim, record outcome | probe, assistant, UI, reconciler |
| Agent lease (`safety/agent_lease.py`) | one row | acquire, release (heartbeat has no caller) | agent start and stop |
| Inventory (`config/schema.py`, `safety/overrides.py`, `agent/decisions.py`) | a YAML file, the table `inventory_overrides` | check and inherit action settings, toggle, add and delete VMs, list the targets of a batch, plan actions | UI, batch graph, VM graphs |
| Settings (`config/settings.py`, `safety/overrides.py`) | environment, the table `settings_overrides`, `settings.yaml` | load, post and reset on the settings page | every process at its start |
| Audit (`safety/audit.py`) | append-only rows | log_event (strict or best effort) | everything |
| Investigation, LLM (`agent/investigation_*.py`, `integrations/llm.py`) | nothing that execution reads | advisory text | UI, CLI |

### What is hard about it

* *Two executors, one approval.* The gate that waits for a decision, the
  reconciler that adopts requests whose gate is gone, and the window opener that
  replays deferred batches can all reach for the same approved batch; one
  conditional `UPDATE` decides.
* *Every `await` is a place where everything else may happen*: the decision, the
  timeout, the end of the window, another job, the death of the process.
* *Crashes.* What a coroutine holds is lost, what the tables and the lock files
  hold is not; some of it is picked up again and some is not.
* *Stale reads.* The reconciler reads the time once per tick, the opener its list
  once per window; lock files outlive the run that wrote them.
* *Values that mean two things*: an empty selection and no selection; a VM name
  with and without its environment; a command that failed and one that had nothing
  to say.
* *One value from several places*: a setting may be written in the environment, in a
  table, in a file or in the code, and each process reads other ones of these; a VM
  may be in the file, in a table, or in both.
* *The VM is not ours alone*: operators and unattended upgrades change packages,
  containers and files between assessment, approval and execution; a command may
  go on after the session that started it is lost.

### What makes each part correct

* Approvals: nothing runs without a recorded approval; an approval is executed
  at most once, by whoever claims it; a decision is final; what was selected is
  what runs; every request is decided and no approval is forgotten.
* VM graph and locks: at most one run works on a VM; only the approved actions
  run, in order; every result reaches the audit trail; a lock does not outlive
  its run for ever.
* Batch graph: a failed wave is the last one, the canary goes first and alone, a
  VM is dispatched at most once per batch, an aborted batch touches nothing.
* Subgraphs: what a run reports of the VM is so; only the objects an operator
  approved, and as he saw them, are removed; what was taken away is accounted for;
  nothing is changed by a run that was refused, skipped or dry.
* Observations: what changed since the last look is reported, once, and not lost
  between store, trail and report.
* Inventory and settings: what is planned for a VM was switched on for it; the page
  shows what the next batch works on; what was posted is what is read, and within the
  ranges the file insists on.
* Proposals and lease: one execution per proposal, no approval lost without a
  disturbance, no rejected proposal nagging, settled things stay settled.

## 2. Modules

| Module | Models | Uses |
|---|---|---|
| `ApprovalStore` | the table `approval_requests` and its conditional updates | |
| `DeferredStore` | the table `deferred_executions` | `ApprovalStore` |
| `ApprovalPipeline` | gate, web decision, approval reconciler, window opener, crashes and restarts | both stores |
| `Windows` | the calendar of a maintenance window: what is inside, the next opening, the opener's cron trigger, the window of the inventory | |
| `ApprovalContract` | abstract: what the approval machinery promises | refined by `ApprovalPipeline` |
| `FileLocker` | `FileLocker` of `locking.py`, one step per file operation | |
| `LockService` | abstract: the lock that the files are to one process | refined by `VmRuns` |
| `VmRuns` | the runs that reach for one VM: VM graphs, restart commands, proposals | `FileLocker` |
| `BatchGraph` | the orchestrator graph of one batch, its waves, its replay | |
| `ProposalStore` | the table `agent_proposals` and its conditional updates | |
| `AgentLease` | the row of `agent_lease`, acquired in one transaction of two statements | |
| `Proposals` | filers, assistant, operators, and the proposal reconciler of several agents | `ProposalStore`, `AgentLease` |
| `SubGraph` | what all action graphs share: nodes, routes, the runner that turns an exception into `FAILED`, changes by others | |
| `Patching` | `patching.py` with `rollback.py` and its runner | `SubGraph` |
| `HygieneStore` | the row of `hygiene_approval_requests` | |
| `DockerHygiene` | `docker_hygiene.py`, its two passes, the form, the gates, the remove wrapper | `SubGraph`, `HygieneStore` |
| `Housekeeping` | disk cleanup, log rotation, backup verification, service restart | `SubGraph` |
| `Observation` | baselines and drift checks, disk growth, failed logins | `SubGraph` |
| `ActionRuns` | one run of any of these on a VM in any condition | the four above |
| `Inventory` | the checks and inheritance of action settings, the overrides table and its page, the targets of a batch, the planner: operators only | |
| `AppSettings` | where each field of `Settings` comes from, the settings page: operators only | |
| `MCApprovalPipeline`, `MCVmRuns`, `MCBatchGraph`, `MCProposals`, `MCActionRuns` | instances for TLC; `MCBatchGraph` also evaluates `Inventory` and `AppSettings` on samples | |
| `ApprovalPipelineProofs`, `ApprovalCustodyProofs` | theorems about `ApprovalPipeline`, `ApprovalContract` and `Windows` | |
| `VmRunsProofs`, `VmLockProofs` | theorems about `VmRuns` | |
| `BatchGraphProofs`, `ProposalsProofs`, `ActionRunsProofs` | theorems about `BatchGraph`, `Proposals`, `ActionRuns` | |
| `ConfigurationProofs` | theorems about `Inventory` and `AppSettings` | |

The parts meet at few seams. `BatchGraph` keeps of the approval gate only
its answer (`GateAnswers`), which `ApprovalPipeline` explains; and of a VM run
only whether actions ran and whether a result was bad (`RunVm`), which `VmRuns`
explains. `Launch` of `ApprovalPipeline` is the moment a batch reaches
`DispatchWave`. `StartAction` and `EndAction` of `VmRuns`, and `execute` of a
proposal, are the beginning and the end of a run of `ActionRuns`; the VM's lock is
held in between, which is why `ActionRuns` has one run and many outsiders. `BatchGraph`
takes its fleet and its `Settings` as given: `Inventory` says when a fleet lists each
VM once, `AppSettings` which numbers a setting may be.

Operators named `Faulty...` are plausible bugs, each written next to the
operation it would spoil: no specification uses them. Putting one in the place
of its original makes a property fail, which shows that the property watches
that code.

### Correspondence

`PROJECT.json` names the lines of every definition; in outline:

*`ApprovalPipeline`.* A row's columns are `status`, `items` (the package
selection), `claimed` (`execution_started_at`), and facts about time: whether
`expires_at` has passed and whether the row is older than the reconciler's
120 s grace. `gate[b]` is where the coroutine that runs the batch stands: its
stages are the `await`s of `approval_gate_node`. `rec[a]` and `opn[a]` are what
one tick of `_approval_reconciler` and one run of `_window_opener` hold in local
variables, among them the time read once (`open`, `ripe`) and the list read once
(`queue`). Between two steps of one coroutine every other coroutine, process or
fault may act. `Crash` empties an agent's memory and leaves the tables;
`GateDies`, `RecDies` and `OpnDies` are exceptions that escape one coroutine.
A batch of `CliBatches` is a `--restart-service` request, with no plan artifact.
A batch of `Unlisted` belongs to an environment that is in the inventory of the
process that started it and not in the agent's (the file was edited before a restart):
the reconciler passes it over and no opener is registered for it.
Of the calendar it keeps `windowOpen` and the moments the opener's trigger fires:
with the start of the window when the trigger reads its hour in the window's zone
(`CronAligned`), at any time otherwise; an overnight window also opens at midnight,
with no trigger (`OpensAtMidnight`).

*`Windows`.* Instants are whole hours, since the code looks at nothing finer, and a
zone is its distance from UTC. `Candidates` is the loop of `next_window_open`; `Built`
is `_build_maintenance_window`, whose "no window" is the empty set, so that `Passes`
quantifies over the window there is. TLC evaluates the operators on samples
(`MCApprovalPipeline`), TLAPS proves what should hold of them for all.

*`FileLocker`, `VmRuns`.* A lock file is its owner, whether its text is written
(`full`) and whether its TTL has passed (`stale`). A call advances one file
operation at a time (`Look`, `Read`, `Purge`, `Open`, `Write`, `Stage`,
`Replace`, `Unlink`); tasks of one process do not interleave inside a call,
since `locking.py` never awaits, while processes do. `stage[r]` is the node of
the VM graph; `plan`, `index`, `results`, `logged` are the fields of its state.
`DirectRuns` are restart commands and proposals: they lock under the bare name,
do one action, and release in a `finally`.

*`BatchGraph`.* `stage` is the node that runs next. A plan is the set of VMs it
covers and a hash the plan it commits to, so that equal hashes mean equal plans.
`waves` is computed as in `_partition_into_waves`, rounding included; percentages
are compared by multiplication as exact fractions. `checks` remembers for each
finished wave which VMs its health check found unhealthy. The VMs of a wave run
side by side; `CheckWaveHealth` is the join.

*`ProposalStore`, `AgentLease`, `Proposals`.* A row is its status, whether it is
claimed, its outcome, whether the rejection is recent and whether a snooze or the
expiry is due; when they are due is left open. An id is a fresh UUID, so ids are
set aside per key. `filer[f]` and `agent[a]` hold what a probe or the assistant,
and a tick of `_proposal_reconciler`, carry from one transaction to the next:
`get_open`, `is_suppressed` and the upsert are three steps, and so are listing,
locking, the drift gate, the claim, the subgraph and the outcome. The VM lock is
held by a proposal and ends by release or after its 300 s. A second agent may start
while the row of the lease is stale, or beside the first one from an empty table.
The windows are folded into `List`: an approved proposal whose environment is outside
its window stays for a later tick.

*`SubGraph` and the action modules.* `node` is the node that runs next, `status`
the status of the state. A command is answered, exits nonzero or raises; each way
is an action or a disjunct of its own. `Begin...` chooses the kind of run, its
inputs and the condition of the VM.
Package versions are *old*, *target* or *other*; an exit code of the install is
not believed (`AfterInstall`). Docker objects are *clean*, *recent*, *dirty*
(its state changed), *busy* (in use) or *gone*. The wrapper takes one object at a
time, looks and removes as two steps, may be killed and may outlive a lost
session. A hygiene row has one status; the waiter, the form and the reconciler
write to it with the same guarded `UPDATE`. Disk cleanup is followed down to the
packages `autoremove` takes, its simulation and its execution being two steps; log
rotation down to the lines of one file (archived, present, written since).
In `Observation` a scope is one baseline; contents are the canonical forms the
parsers produce, and a scope that may not be read gives the empty text, since the
commands end in `|| true`. One `compare_and_save` is a step, its audit row another,
so that a crash or an exception fits between. The probe calls the same nodes as a
live run outside any lock; its loss on an exception is the same.

*`Inventory`.* One environment: its block of action settings, its targets with a name
and a block of their own, and the rows of the table, one per name. Of an action's
settings those are kept that a check or a router looks at. `Accepted` is what
`schema.py` lets pass, `Expanded` and `Resolved` are its inheritance. An entry of a
batch is `at` a place in the file, or at 0 when a row added it. `Toggle`, `Add` and
`Delete` are the forms. There are no steps: every operation is one transaction on one
row, and what a batch makes of table and file it makes at one moment.

*`AppSettings`.* A setting is written as a text, which is here what the reader of its
field makes of it: a value, or nothing (`good` is `FALSE`). The fields are sorted by the
places they are read from. `ValueOf` is the precedence; the agent, the web process and
the one-shot commands are the same function with other places empty. `Saved` says which
fields of a form reach the table before something is refused or raises.

## 3. What is checked

| Run | Instance | Shows |
|---|---|---|
| `approval_safety` | a maintenance batch of two packages and a restart request of an environment the agent does not know, one agent, a gate that may be slow before it posts and before it claims, an opener that fires at any time, one fault | `AtMostOnce`, `OneOwner`, `StartedOnlyIfApproved`, `SelectionSurvives`, `DecisionsAreFinal`, and that every step is one `ApprovalContract` allows |
| `approval_fair` | the same without packages, gates within the grace, an opener that fires with its window, one fault | `AbortedMeansNotStarted`; `RequestsAreDecided`, `ApprovalsAreClaimed`, `ApprovedBatchesEnd` |
| `vm_agent` | two VM graphs and a proposal in one process, one fault, strict audit | `LocksFollowRuns`, that every step of the locker is one `LockService` allows (`LocksAreAtomic`), `ResultsFollowPlan`, `StrictTrailIsComplete` |
| `vm_processes` | a scheduled and a `--run-now` batch in two processes, one may outlast its lock, one fault | `RunsEnd`, `LocksEnd` |
| `batch_rollout` | no, one or four VMs; all at once, halves, a canary, one by one (a percentage of 0, which the environment may set); fresh, dry, replayed from a sound, altered or undated artifact | `FailedWaveIsLast`, `CanaryGoesFirst`, `RollingShare`, `ApprovedPlanOnly`, `AbortMeansUntouched`, `CompletedMeansVisited`, `VisitedOnce`, `BatchEnds` |
| `proposals` | two proposals for one action of one VM, one filer, two agents that start live, live without the action, or dry, one disturbance | `ExecutedOnce`, `ApprovalsAreNotLost`, `DecisionsStand`, `SuppressionHolds`, `ApprovalsAreWorkedOff` |
| `action_runs` | one run of each kind: two packages, three Docker objects (a dangling and an unused image, a stopped container), two orphans, one log, two users and a disk; one change by others | `PatchingTellsTheTruth`, `OnlyApprovedAreRemoved`, `RemovalsAreAccounted`, `HousekeepingHoldsBack`, `ObservationsAreReported`, `RunsEnd` |
| `approval_unchecked`, `approval_window`, `vm_keys`, `vm_create`, `patch_snapshot` | | disagreements, see section 5 |

`approval_safety`, `vm_agent`, `batch_rollout`, `proposals` and `action_runs` also
check the type invariant of their model. The longest runs are `approval_safety` (1.3
million states, the two packages being interchangeable), `vm_agent` (1.4),
`batch_rollout` (1.1),
`proposals` (0.6) and `action_runs` (0.5); each takes one to two minutes with two
workers. `batch_rollout` also evaluates what `Inventory` and `AppSettings` should
satisfy on small files, tables, environments and forms. The runs of
`MCApprovalPipeline` also evaluate `Windows` on windows at both ends of the day,
overnight and of zero length, in three zones, at every hour of a week
(`CalendarOnSamples` and its neighbours).

### Bounds, and why they are enough

* *Two batches, one agent.* The races are between executors of the same batch; a
  second batch is what makes a job busy, its list stale and its clock old.
  `StartedAtMostOnce` and the other theorems lift the safety results to any number of
  batches.
* *One environment outside the agent's inventory* (`Unlisted`), that of the restart
  request in `approval_safety`; in `approval_fair` the agent knows both. The two
  progress properties leave such batches out, as the code does; the safety theorems
  have no restriction on them.
* *Two packages*: one checked, one not. No packages in the fair run, where only
  progress is asked for.
* *One fault* (`MaxFaults`), anywhere. A restart is not a fault and may follow. The
  proofs have no such bound.
* *Three runs at one VM*: a holder, one that waits, one that asks under another name.
  *Two processes* where single file operations interleave.
* *Plans of at most two actions*, with the one kind the disk gate looks at in front of
  another: first, middle and last position of the dispatch loop occur.
* *Two proposals of one key*: one can be rejected and the other come after it, which
  is what suppression, the unique index and waking are about. Proposals of different
  keys meet at the VM's lock alone, and `OtherLocks` stands for those. Only action
  proposals occur in the run; review-only ones (a key outside `ActionKeys`) are
  covered by the proofs. *Two agents*, the second only after the lease of the first
  has lapsed, which counts as the disturbance.
* *One change by others* (`MaxDrift`) to the VM during a run, at any moment; the
  properties say what a second could excuse no further. *Two packages*: one approved
  and one carried along; *three objects*: each class has its own checks, and no object
  bears on another; volumes and the build cache, which the page shows, the hash covers
  and no box ticks, are left to the proofs. *Two orphans*: one seen and one new.
* *One check turned on* (`MaxChecks`) of the drift checks at a time, two users, one
  mount, usage 0 to 1: the checks share nothing but the list they append to.
* *Four VMs*: halves, a share that rounds up, a canary with an odd rest of three
  (waves of two and one), a fleet exactly on its threshold. The theorems lift wave
  order and plan fidelity to any fleet.

### Fairness, and why the code justifies it

* *Approval.* Weak fairness of each gate's, reconciler's and opener's next step (the
  event loop runs what is ready, every SSH command has a timeout), of a dead agent's
  restart (it runs under a supervisor), and of time: requests reach their deadline,
  windows open and close; strong fairness of the opening that comes with the opener's
  trigger, however often an overnight window opens at midnight: whatever clock the
  machine is on, the trigger fires between a deferral and its expiry, while its
  artifact is young enough to be replayed (`DeferralHasAChance`). Nobody has to decide
  anything, and no fault has to happen. `SlowStages` names the gate stages that may
  outlast the 120 s grace; in `approval_fair` none does, in `approval_safety` the
  first and the last (before the poll loop and after it), in `approval_unchecked`
  each. The code does not exclude a slow gate (a post to Slack may hang): it then
  loses its claim and reports `ABORTED` while the winner runs, so that
  `AbortedMeansNotStarted` is asked of prompt gates only.
* *VM runs.* Strong fairness of each run's next step: an `asyncio` loop serves its
  ready tasks in turn, so a task that is ready again and again runs, although calls of
  others in between block the file operations. Weak fairness of time.
* *Proposals.* Weak fairness of an agent's next step, which includes its start (the
  scheduler's 60 s interval, `restart: unless-stopped` in `docker-compose.yml:17`),
  and of time: a lock ends, a lease lapses, a window opens. `ApprovalsAreWorkedOff`
  supposes agents that are not in dry run for ever and a waking pass that does not
  raise for ever: the code gives nothing else (section 5).
* *Action runs.* Weak fairness of the next node of each kind, of the clock that ends
  the wait for an operator, and of the wrapper; nobody has to look at the form.
* *Batch.* Weak fairness of the graph as a whole: some node that is due runs. An
  approval is decided or times out, every command has a timeout. Deadlock checking is
  off where the system really stops (all runs ended, batch reported).

## 4. What is proved

For every value of the constants that satisfies the assumptions the modules name
(`PipelineAssumption`, `LockerAssumption`, `VmAssumption`, `BatchAssumption`,
`StoreAssumption`, `LeaseAssumption`, `SettingsAssumption` and the like: types of the
parameters, and that a batch lists a VM once). Every safety property of the passing
runs has its theorem.

*Types.* `TypeCorrect` of `ApprovalPipelineProofs`, `VmRunsProofs` and
`BatchGraphProofs`, `ProposalsTypeCorrect`, `ActionRunsTypeCorrect`. That of the batch
graph is not free: it needs that `prepare_waves_node` makes at least one wave and that
no node asks for a wave that is not there (`OnCourse`).

*Approved before started* (`StartsAreApproved`). The inductive invariant
`Custody` adds that whatever any executor owns has a claimed approval. It needs
no assumption on the number of agents.

*Started once* (`StartedAtMostOnce`, `OwnedByOne`), under `OneAgent`: `Ownership` says
that a claimed batch that has not started is in at most one of four hands (gate,
deferral row, reconciler, opener), and that a batch in a hand has not started.
`AtMostOnce` alone is not inductive: nothing in it forbids two hands. One agent is
what the agent lease is there for; the claim protects the first start for any number
of agents, the hand-over from the deferral row to the opener is read by one opener
only.

*The selection is kept* (`SelectionIsKept`), for any number of agents: what starts is
claimed, hence approved (`Custody`), and an approved row is not decided again.

*Aborted means not started* (`AbortedIsNotStarted`), under `OneAgent` and for gates that
are prompt in every stage (`PromptGates`). `Grace`: the reconciler neither lists nor
claims a batch whose gate is alive and has not claimed, since such a row has not
settled. So no gate loses its claim, and what is reported as aborted is `Spent`: not
started, and in none of the hands that could start it.

*The calendar*, for every window, zone and instant. `CronOpensTheWindow` and
`OpeningsAreFirings`: in the window's zone the trigger fires exactly when the window
opens, except for the midnight of an overnight window whose day before is not listed.
The other statements are about the opener's real trigger, which reads its hour and its
days on the clock of the agent's machine, and say for which clocks they hold.
`NextOpenIsNext`: the start a deferral is recorded and announced with is the next
firing, at all instants, exactly if the trigger on that clock fires when the window's
own zone says (`TriggerAgrees`, which one week settles; a machine in the window's zone
is enough). `AgeLimitNeverBites`: that no record the opener finds unexpired is over
168 hours old, as the comment at `graph.py:1801` supposes of two limits that count
from different moments, holds exactly if the trigger fires at no other hour than those
(`TriggerWithin`). Elsewhere a firing may find a record that is not expired and that
the replay refuses: with the machine five hours ahead of the window, one that was
deferred as a window of one hour a week closed is found 330 hours later. What remains
on every clock: `DeferralHasAChance`, a firing comes within a week of the deferral,
before its expiry and before its artifact is too old; and `OneChancePerDay`, a record
sees each listed weekday once between its window start and its expiry, so that with
one day in the window that chance is its last. Both reduce the trigger on the
machine's clock to the window one would write for that zone (`WindowOfTheMachine`).

*Decisions are final* (`DecisionsStay`) and *the pipeline implements the
contract* (`PipelineImplementsContract`, under `OneAgent`): rows map to verdicts
(`VerdictOf`), claims to `taken`, starts to `runs`. The steps the contract can
see are isolated first (`StepSeen`); each is then matched with one action, using
`Custody` and `Ownership`.

*Exclusion* (`MutualExclusion`), for runs of one process with locks that outlast
them (`OneProcess`): the invariant `Exclusion` says that a holder's file is its
own, complete and fresh, and that at most one task is inside a lock call. Both
hypotheses are needed: `vm_create` refutes the claim for two processes.
`LocksFollowRuns`, which `vm_agent` checks, implies it: two files of one name are one.

*The locker implements a lock* (`LocksImplementService`, under `OneProcess`): a lock
is in force from the moment the text is in its file to the `unlink` or the end of the
TTL (`Holder`), and every call of `acquire` has an answer that was right at one moment
of the call. `Exclusion` says what a call has seen so far, `Owners` (below) that a run
which asks has no lock of its own left from before.

*What several processes can count on* (`SettledLocksAreKept`), for any number of runs
and processes, any deaths, and runs that end within their TTL. A lock has *settled*
when its run works, the file is its own, and no other run of that name works or is in
a call that has already seen something else (`Committed`). Nobody who asks from then
on is granted the lock, nothing removes, replaces or takes over the file, and so it
stays settled until its run is through. The races between processes are therefore
those of calls that were under way when the file was made, as in `vm_create`; a call
that begins later is no danger. It needs only that no run is in a call outside its two
places (`CallsInPlace`).

*Locks go with their runs* (`LocksGoWithRuns`), under `OneProcess`: `Owners` adds to
`Exclusion` that a file that names a run is held by it, is being written by it, or
belongs to a run that was cut short; one that ended regularly has none.

*The strict trail* (`StrictTrailKept`): under `Trail` the rows follow the results, all
were written, and no run leaves the audit node with a row missing.

*Plans are followed* (`PlansAreFollowed`): with `PlanKept`, results stand in the
order of the plan, and a live plan is the approved one.

*The rollout's numbers.* `percentage` may be any integer in the theorems about
`BatchGraph`: the environment is not checked, and a percentage of nothing or less
makes waves of one VM, which is why `RollingShare` allows one VM whatever the share.
The tolerances are 0 to 100: they are read from the file alone, so that
`RangesAreKept` justifies it.

*Waves* (`FailedWaveStops`, `DispatchedOnce`). First, for lists of any length and
any percentage: waves cut a list of distinct VMs without overlap (`PartitionCuts`,
`CanaryCuts`, from the arithmetic of rounded shares). Then `WaveInv`: whoever was
dispatched entered with a wave all of whose predecessors had passed (`Entered`).
`FailedWaveIsLast` says less, and is not inductive: it does not know that while
the rollout is open all checks have passed.

*Order and ends of a rollout* (`CanaryFirst`, `RollingShareKept`, `AbortedIsUntouched`,
`CompletedIsVisited`). `ShapeInv`: the canary is a wave of its own and the first, later
waves are no wider than their rounded share, and together they are the fleet.
`Returned`: every VM of a wave whose health was checked has come back. `EndInv`: the
row is not reported before the end, no error is left once the rollout opens, and a
report that was not cut short has all waves behind it.

*The approved plan* (`WorksApprovedPlan`): `PlanInv` adds that from the hash check
on the hash is that of the plan (`Cleared`), that a replay has no other hash than
the stored one (`Sealed`) and who may work (`InPlan`).

*Proposals* (`ProposalsExecutedOnce`, `ProposalDecisionsStand`,
`ProposalApprovalsNotLost`, `ProposalSuppressionHolds`), for any keys, ids, filers,
agents and disturbances. The claim is what makes the first one true for any number of
agents: an agent between claim and outcome is the only one with this proposal in hand,
and what it has in hand is claimed, approved, about an action, and has no outcome. For
`ApprovalsAreNotLost` a disturbance is charged with the one claim it can strand, since
an agent has one proposal in hand. For suppression the invariant says what a filer
knew when it looked, and that whoever moves the rows of its key afterwards marks it
(`moved`).

*Action runs* (`PatchingIsTruthful`, `RemovalsAreApproved`, `RemovalsAccounted`,
`HousekeepingRestrained`, `ObservationReported`), for any packages, objects, orphans,
users, contents and any number of changes by others. Each kind of run has an invariant
of its own and leaves the other kinds' state alone (frame lemmas), so a step is
examined for one invariant only. `PatchCourse`, `HouseCourse`, `CleanupCourse` and
`LogCourse` say node by node what has been read, sent and found so far. `DockerInv`
ties row, approval and hash to what was assessed, and the wrapper's list to what both
gates passed; `OutcomeInv` ties the removed objects to the wrapper's lines and the
results. `SightInv` says that what moved since the first look is either reported or
still in hand.

*Inventory* (operators, for every accepted file and every table). `PlannedAsAsked`: a
plan has only actions that are built in, switched on for this VM by whatever
inheritance, and not the operator's to start; the ranks leave no choice of order.
`ModesFollow`: an action that is on never runs in the mode that does nothing, since
`schema.py` refuses a file that would have it so. `PageTellsTheBatch`: page and batch,
which read the table each in their own way, agree on who is in service.
`FreeNamesListedOnce` and `AddedTwice`: what `BatchAssumption` says of fleets holds
when no name is in use twice, and the form for another VM breaks it. `SwitchedOff`,
`SwitchedBack`: what the buttons do to the VM and, for the others, do not.

*Settings* (operators, for every environment, table and file). `PostsAreRead` and
`ResetsAreRead`: after a restart the agent has what was posted, and what a reset
leaves. `SavedAsShown`: saving an untouched page changes nothing, if it shows no
secret. `ProcessesHaveTheSame`: with one environment the agent and the web process
differ in what the page overrides, nothing else. `RangesAreKept`: what the environment
does not set is within the ranges of the file, because of the fields the page writes
one has a range, and the form checks it.

### Only model-checked

Liveness (`RequestsAreDecided`, `ApprovalsAreClaimed`, `ApprovedBatchesEnd`,
`RunsEnd` of `VmRuns` and of `ActionRuns`, `LocksEnd`, `BatchEnds`,
`ApprovalsAreWorkedOff`): fairness is outside the prover's reach.
What the samples of `MCBatchGraph` and `MCApprovalPipeline` evaluate is proved as well.

## 5. Where code and documents disagree

* *No box checked means every package* (`approval_unchecked`). An empty selection
  is taken for none, `README.md:40` of the repository promises approval per
  package.
* *Replays start outside the window* (`approval_window`). The reconciler goes by a
  time it read before its loop, the opener replays its list with `force=True` and
  looks at no window; `README.md:528` says the agent refuses.
* *Two names for one lock* (`vm_keys`). Batches lock `env/name`, restarts and
  proposals `name`; both may work on a VM at once, against `docs/SPEC.md:656`.
* *An empty lock file is taken for corrupt* (`vm_create`). Between `O_EXCL` and
  the write, another process removes the file and locks as well, against
  `locking.py:106`.
* *Packages are installed without a snapshot* (`patch_snapshot`). The property is about
  the install of a patching run alone (`At("patching", "execute")`): the other actions
  take no snapshot of packages. `snapshot_node`
  reports a failure and the unconditional edges lead on to the install, after which a
  rollback has nothing to restore, against `patching.py:295` and `README.md:262`.

Seen on the way and left without a run of their own.

*Approvals, VM graph, batch.* An approval after its
deadline counts until the next expiry pass; a claimed batch whose process dies
before it starts is never resumed; `release_lock_node` "always runs", yet not
after an exception that escapes the graph (only the TTL helps then); the sudo
preflight does not run on the live path; audit rows are written at the end of a VM
graph and not before each action; a
rollout that a failed wave cut short, or whose VMs were all locked, is reported
`COMPLETED`; a replay whose artifact does not match its hash leaves an
`APPROVAL_GRANTED` row although nothing runs.

*Windows.* `window_start_cron` "fires exactly at window open time" (`windows.py:198`),
but `add_maintenance_job` gives the trigger no time zone, so that it fires at that
hour on the agent's clock: the start that was announced may pass without it, it may
replay outside the window, and it may find a record too old for its replay, which is
then marked done (`NextOpenIsNext`, `AgeLimitNeverBites`)
(`docs/learning/10-scheduling.md:188` warns of the like for the environment's own
cron). Minutes of "HH:MM-HH:MM" are dropped; a window that does not parse, ends at
"24:00" or has no days is no window, and everything may run at any time. An overnight
window with one day listed is also open in the early hours of that day, of which
`10-scheduling.md:190-199` says that only the part before midnight matches.

*Proposals and lease.* Waking a snoozed proposal next to a newer pending one of its
key violates the unique index; the exception ends the tick before its execution
pass, and every tick after it, until the newer one is decided. A seven-day snooze
outlives the seven-day `expires_at`. Two filers, or a filer and a rejection, may pass
between the suppression check and the upsert. After a crash behind the claim the
outcome stays `NULL` for ever. A proposal filed by the investigation trigger is not
checked against the actions enabled in the inventory; the inventory the drift gate
compares with is the one loaded at the agent's start. Two agents that acquire the
lease from an empty table at once both get it, and without a heartbeat it lapses
after 90 s under a living agent, against `agent_lease.py:3-5`.

*Patching.* A run refused at execution goes to the rollback, which reinstalls.
Approved packages that lost their target are dropped in the assessment, so that the
run ends as up to date before the check that would refuse it (341-349). An exception
after the install ends the run without a rollback. `kernel` is not matched by
`kernel-*`; a target with an epoch never equals what `rpm -q` prints, so that such
a run always rolls back. `needs_reboot` is never cleared.

*Docker hygiene.* A finding of any classification can be ticked although
`hygiene_approval.py:61-63` names one; the page says "Approved" whether or not the
update matched a row; a dry run without candidates reports `pending`; after a
nonzero exit or a lost session there are no per-object rows for what the wrapper had
removed, against `docker_hygiene.py:715-717`; gate 2 for images greps the id where
`docker ps` prints tags, and `docker rmi` itself is what refuses then; the wrapper
looks at the exit code of one inspection and not at the classification its header
speaks of.

*Housekeeping.* Two simulations that both fail give two empty lists, which agree, and
`autoremove` goes ahead on packages nobody saw. A log assessment that fails ends in
`SUCCESS`. A second rotation finds the `.gz` of the first and fails, leaving its copy;
without compression it overwrites it; lines written between copy and truncation
are lost.

*Inventory.* Adding a VM under a name of the file lists it twice in the next batch,
and brings it back if it had been switched off; names in the file are not checked for
repetition. Switching an ad-hoc VM off replaces the row that added it, so that it is
lost for good. A VM that is switched off is still probed, and approved proposals and
restarts still reach it. The volume settings of a target are not checked (those of the
environment are), and none of them reaches the docker subgraph. A dry run that plans
again in the VM graph asks every built-in action's applicability and not which are
enabled.

*Settings.* Saving the settings page unchanged stores the mask in place of the API
key. Posting a secret without `ERRANDER_SECRETS_KEY` raises after the fields above it
were saved. An override that cannot be read counts as the default and not as the
file's value, a switch as off, and is still labelled as coming from the table. The
environment passes no range check: `ERRANDER_ROLLING_UPDATE_PCT` may be 0 or negative.
The agent reads overrides when it starts, the web process reads none, the commands
neither those nor the file.

*Durability.* Nothing logs `BATCH_STARTED` or `BATCH_COMPLETED`, so the scan for
orphaned batches at the start and `--measure-durability` always find none.

*Observations.* A baseline is saved before its change is audited; an exception later
in the VM graph drops the changes, growth and login summaries of that VM from the
batch's report although the baselines are overwritten, so the next run does not see
them either. An SSH exception in the disk and login nodes is not caught although
they are called best effort. The keys of a deleted user are never compared; a file
that may not be read is stored as empty; growth is also reported for mounts that are
gone.

## 6. Not modelled, and why

`PROJECT.json` lists every component. Left out for good: the SSH layer and command
texts (their outcomes are choices in the models of their callers), pages, sessions and
accounts of the web UI, the syntax of configuration and inventory files and the checks
of single fields that no model depends on, `policies.yaml`, the interactive editors of
the inventory, reports, metrics, network clients, schema migrations, the start-up scan
and durability figures, offline evaluation, blob storage, and the investigation
agents, whose answers no maintenance step reads. In a modelled part: the history
queries of the stores, which only the UI reads; docker hygiene's simulated execution
and its pre-approved plan, which nothing in the program reaches; the opener's branch for
deferred rows without an artifact (`main.py:2756-2786`), which are those of a version
before the columns `plan_json` and `plan_hash`: no `save` of this version makes one, and
the branch starts a new batch with an approval of its own; methods without a
caller (`heartbeat`, `is_locked`, `force_release`, `clear_needs_reboot`). Daylight
saving and anything finer than an hour is left out of the calendar.

Six hazards have no property, with the reason in their notes in `PROJECT.json`. Two are
outside the models: a health check that asks for less than it might, and LangGraph's
recursion limit, which is a number of the library. Four are things the code gives up and
the progress and suppression properties therefore excuse: an approval whose process dies
between claim and execution, a batch row that stays `RUNNING` after a crash, a proposal
filed by a filer with an outdated view of the table, and approved proposals behind a
waking pass that raises.

## 7. Plan

Done, in the order of importance: approvals, VM runs and locks, the batch graph,
proposals with the lease, the six actions, hygiene approvals, observations, the calendar
of the windows, inventory and settings; and the proofs of their safety. What is left:

1. *Takeovers between processes*: what is left of exclusion when two processes find
   the same expired lock.
2. *Sessions and accounts of the web UI* (`user_store.py`), if decisions are to be
   tied to persons.
