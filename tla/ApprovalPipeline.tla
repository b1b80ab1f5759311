------------------------- MODULE ApprovalPipeline -------------------------
(***************************************************************************)
(* The way of a live batch from its approval request to its execution:     *)
(* the approval gate of the batch graph (agent/graph.py), the web UI       *)
(* decision (web/ui.py), and the two scheduler jobs of main.py that        *)
(* execute approved batches a gate did not, the approval reconciler and    *)
(* the window opener, over the durable tables of ApprovalStore and         *)
(* DeferredStore.                                                          *)
(*                                                                         *)
(* Every await of the Python coroutines is a step boundary here: between   *)
(* two steps of one coroutine any other coroutine or process may run, and  *)
(* any process may die, losing what it held in memory and nothing else.    *)
(*                                                                         *)
(* A batch of CliBatches is one `--restart-service` request: its row has   *)
(* no plan artifact and a one-shot process runs it.  Any other batch is a  *)
(* maintenance batch, run by a scheduling agent or by one `--run-now`      *)
(* process.  One environment, one maintenance window; the batches of       *)
(* Unlisted are of an environment, with the same window, that is in the    *)
(* inventory of the process that runs them and of no agent.                *)
(***************************************************************************)
EXTENDS Naturals, DeferredStore

CONSTANTS
  Agents,         \* processes that run the scheduler jobs
  CliBatches,     \* the batches that are --restart-service requests
  Unlisted,       \* the batches whose environment no agent knows
  ForceAllowed,   \* whether runs may be started with --force outside the window
  CronAligned,    \* whether the opener's cron fires where its window starts
  BriskJobs,      \* whether the window stays open during a job's short steps
  SlowStages,     \* gate stages that may outlast the reconciler's 120 s grace
  MaxFaults,      \* bound on crashes and escaping exceptions
  NoAgent,        \* host of a batch that a one-shot process runs
  NoBatch         \* what a job holds when it holds no batch

ASSUME PipelineAssumption ==
  /\ CliBatches \subseteq Batches /\ Unlisted \subseteq Batches
  /\ ForceAllowed \in BOOLEAN
  /\ CronAligned \in BOOLEAN
  /\ BriskJobs \in BOOLEAN
  /\ SlowStages \subseteq {"posting", "waiting", "timingout", "claiming"}
  /\ MaxFaults \in Nat
  /\ NoAgent \notin Agents
  /\ NoBatch \notin Batches

VARIABLES
  windowOpen,     \* is_within_window(now) for the environment's window
  up,             \* up[a]: agent a is running
  gate,           \* gate[b]: where the coroutine that runs b's gate is
  host,           \* host[b]: the agent whose process runs that coroutine, if any
  rec,            \* rec[a]: the approval reconciler job of agent a
  opn,            \* opn[a]: the window opener job of agent a
  outcome,        \* outcome[b]: the status column of the batches table
  dispatched,     \* dispatched[b]: the packages handed to the VM graphs
  starts,         \* starts[b]: how often b's execution was started
  faults          \* crashes and escaping exceptions so far

jobVars  == <<up, rec, opn>>
runVars  == <<outcome, dispatched, starts>>
vars == <<storeVars, deferredVars, windowOpen, gate, host, jobVars, runVars, faults>>

\* The stages of approval_gate_node and of what surrounds it, in order.
\* The gate's coroutine is alive in the stages of LiveGate.
LiveGate == {"planning", "posting", "waiting", "timingout", "claiming",
             "claimed", "saving", "executing"}
EndGate  == {"finished", "deferred", "refused", "dead"}

RecIdle == [pc |-> "idle", open |-> FALSE, ripe |-> {}, queue |-> {}, cur |-> NoBatch]
OpnIdle == [pc |-> "idle", queue |-> {}, cur |-> NoBatch]

TypeOK ==
  /\ StoreTypeOK
  /\ DeferredTypeOK
  /\ windowOpen \in BOOLEAN
  /\ up \in [Agents -> BOOLEAN]
  /\ gate \in [Batches -> {"new"} \cup LiveGate \cup EndGate]
  /\ host \in [Batches -> Agents \cup {NoAgent}]
  /\ rec \in [Agents -> [pc : {"idle", "listing", "looping", "owning", "running"},
                         open : BOOLEAN, ripe : SUBSET Batches,
                         queue : SUBSET Batches, cur : Batches \cup {NoBatch}]]
  /\ opn \in [Agents -> [pc : {"idle", "due", "looping", "owning", "running"},
                         queue : SUBSET Batches, cur : Batches \cup {NoBatch}]]
  /\ outcome \in [Batches -> {"absent", "running", "completed", "aborted"}]
  /\ dispatched \in [Batches -> SUBSET Packages]
  /\ starts \in [Batches -> Nat]
  /\ faults \in 0..MaxFaults

Init ==
  /\ StoreInit
  /\ DeferredInit
  /\ windowOpen \in BOOLEAN
  /\ up = [a \in Agents |-> TRUE]
  /\ gate = [b \in Batches |-> "new"]
  /\ host = [b \in Batches |-> NoAgent]
  /\ rec = [a \in Agents |-> RecIdle]
  /\ opn = [a \in Agents |-> OpnIdle]
  /\ outcome = [b \in Batches |-> "absent"]
  /\ dispatched = [b \in Batches |-> {}]
  /\ starts = [b \in Batches |-> 0]
  /\ faults = 0

-----------------------------------------------------------------------------
(* What several executors do *)

\* dispatch_current_wave with _filter_patching_packages: the plan's packages
\* are cut down to the approved ones, unless the approved list is empty.
Selected(approved) == IF approved = {} THEN Packages ELSE Packages \cap approved

\* A batch graph reaches its first wave with the selection read from the row.
Launch(b) ==
  /\ starts' = [starts EXCEPT ![b] = @ + 1]
  /\ dispatched' = [dispatched EXCEPT
                      ![b] = IF b \in CliBatches THEN {} ELSE Selected(items[b])]
  /\ UNCHANGED outcome

\* generate_report_node: BatchStore.update_status ... WHERE status = 'RUNNING'.
Report(b, result) ==
  /\ outcome' = [outcome EXCEPT ![b] = IF @ = "running" THEN result ELSE @]
  /\ UNCHANGED <<dispatched, starts>>

Advance(b, from, to) ==
  /\ gate[b] = from
  /\ gate' = [gate EXCEPT ![b] = to]
  /\ host' = [host EXCEPT ![b] = IF to \in EndGate THEN NoAgent ELSE @]

\* Faulty variant: the registry keeps the entry of a coroutine that is gone.
FaultyHasWaiter(a, b) == gate[b] \in {"waiting", "timingout", "dead"}

\* ApprovalRequestStore.has_waiter: only coroutines of the same process show.
HasWaiter(a, b) == host[b] = a /\ gate[b] \in {"waiting", "timingout"}

-----------------------------------------------------------------------------
(* The approval gate *)

\* run_env_batch up to the gate: init_batch_node inserts the RUNNING row and
\* validate_window_node lets the batch pass; or run_restart_service up to it.
Begin(b, h) ==
  /\ gate[b] = "new"
  /\ windowOpen \/ ForceAllowed
  /\ IF h = NoAgent THEN TRUE ELSE up[h] /\ b \notin CliBatches \cup Unlisted
  /\ gate' = [gate EXCEPT ![b] = "planning"]
  /\ host' = [host EXCEPT ![b] = h]
  /\ outcome' = [outcome EXCEPT ![b] = IF b \in CliBatches THEN @ ELSE "running"]
  /\ UNCHANGED <<storeVars, deferredVars, windowOpen, jobVars, dispatched, starts, faults>>

\* validate_window_node outside the window: straight to the report.
Blocked(b) ==
  /\ ~windowOpen
  /\ Advance(b, "new", "refused")
  /\ outcome' = [outcome EXCEPT ![b] = IF b \in CliBatches THEN @ ELSE "aborted"]
  /\ UNCHANGED <<storeVars, deferredVars, windowOpen, jobVars, dispatched, starts, faults>>

\* The durable row first ...
PostRequest(b) ==
  /\ Advance(b, "planning", "posting")
  /\ Create(b)
  /\ UNCHANGED <<deferredVars, windowOpen, jobVars, runVars, faults>>

\* ... then Slack, whose failure is swallowed, then wait_for_decision.
Announce(b) ==
  /\ Advance(b, "posting", "waiting")
  /\ UNCHANGED <<storeVars, deferredVars, windowOpen, jobVars, runVars, faults>>

\* The gate catches SlackError; an aiohttp error (Slack unreachable) is none
\* and escapes the graph.  run_restart_service catches every exception.
SlackRaises(b) ==
  /\ b \notin CliBatches
  /\ Advance(b, "posting", "dead")
  /\ UNCHANGED <<storeVars, deferredVars, windowOpen, jobVars, runVars, faults>>

\* A rejected or timed-out batch goes to the report and ends there.
Refuse(b, from) ==
  /\ Advance(b, from, "refused")
  /\ Report(b, "aborted")
  /\ UNCHANGED <<storeVars, deferredVars, windowOpen, jobVars, faults>>

\* wait_for_decision polls a decided row and leaves the waiter registry.
SeeDecision(b) ==
  /\ status[b] \in Decided
  /\ IF status[b] = "approved"
       THEN /\ Advance(b, "waiting", "claiming")
            /\ UNCHANGED <<storeVars, deferredVars, windowOpen, jobVars, runVars, faults>>
       ELSE Refuse(b, "waiting")

\* wait_for_decision polls a pending row past its deadline, which is not
\* before expires_at ...
GiveUpWaiting(b) ==
  /\ overdue[b]
  /\ Advance(b, "waiting", "timingout")
  /\ UNCHANGED <<storeVars, deferredVars, windowOpen, jobVars, runVars, faults>>

\* ... marks it as timed out, unless it was decided meanwhile, and reads the
\* row again.
GateTimesOut(b) ==
  /\ Advance(b, "timingout", "waiting")
  /\ MarkTimeout(b)
  /\ UNCHANGED <<deferredVars, windowOpen, jobVars, runVars, faults>>

\* The claim that precedes every execution path of the gate.
Claim(b) ==
  /\ Claimable(b)
  /\ Advance(b, "claiming", "claimed")
  /\ MarkExecutionStarted(b)
  /\ UNCHANGED <<deferredVars, windowOpen, jobVars, runVars, faults>>

ClaimLost(b) ==
  /\ ~Claimable(b)
  /\ Refuse(b, "claiming")

\* Approved inside the window, or a --restart-service request, which does not
\* look at the window again: verify the plan hash and start the first wave.
StartNow(b) ==
  /\ windowOpen \/ b \in CliBatches
  /\ Advance(b, "claimed", "executing")
  /\ Launch(b)
  /\ UNCHANGED <<storeVars, deferredVars, windowOpen, jobVars, faults>>

\* run_restart_service finds every VM locked by another batch.
SkipLocked(b) ==
  /\ b \in CliBatches
  /\ Advance(b, "claimed", "finished")
  /\ UNCHANGED <<storeVars, deferredVars, windowOpen, jobVars, runVars, faults>>

\* Approved outside the window: decide to defer ...
DecideToDefer(b) ==
  /\ ~windowOpen
  /\ b \notin CliBatches
  /\ Advance(b, "claimed", "saving")
  /\ UNCHANGED <<storeVars, deferredVars, windowOpen, jobVars, runVars, faults>>

\* Faulty variant: the record is not saved.
FaultySaveDeferred(b) ==
  /\ Advance(b, "saving", "deferred")
  /\ UNCHANGED <<storeVars, deferredVars, windowOpen, jobVars, runVars, faults>>

\* ... and save the record; the graph ends without a report, be it by an
\* exception of the Slack alert that follows.
SaveDeferred(b) ==
  /\ Advance(b, "saving", "deferred")
  /\ Save(b)
  /\ UNCHANGED <<storeVars, windowOpen, jobVars, runVars, faults>>

FinishRun(b) ==
  /\ Advance(b, "executing", "finished")
  /\ Report(b, "completed")
  /\ UNCHANGED <<storeVars, deferredVars, windowOpen, jobVars, faults>>

GateStep(b) ==
  \/ PostRequest(b) \/ Announce(b) \/ SlackRaises(b) \/ SeeDecision(b) \/ GiveUpWaiting(b) \/ GateTimesOut(b)
  \/ Claim(b) \/ ClaimLost(b) \/ StartNow(b) \/ SkipLocked(b)
  \/ DecideToDefer(b) \/ SaveDeferred(b) \/ FinishRun(b)

-----------------------------------------------------------------------------
(* The web UI, a process of its own over the same database *)

\* _ui_approval_decide: an approval of a row with a plan carries the checked
\* packages, a rejection and a row without a plan carry none.
Decision(b) ==
  /\ \E verdict \in Verdicts, checked \in SUBSET Packages :
       Decide(b, verdict,
              IF verdict = "approved" /\ b \notin CliBatches THEN checked ELSE {})
  /\ UNCHANGED <<deferredVars, windowOpen, gate, host, jobVars, runVars, faults>>

-----------------------------------------------------------------------------
(* The approval reconciler, every 60 s, never overlapping itself *)

RecGoesTo(a, pc, open, ripe, queue, cur) ==
  rec' = [rec EXCEPT ![a] = [pc |-> pc, open |-> open, ripe |-> ripe,
                             queue |-> queue, cur |-> cur]]

\* `now` is read once, here; then pass 1 expires the overdue rows.
RecTick(a) ==
  /\ up[a] /\ rec[a].pc = "idle"
  /\ RecGoesTo(a, "listing", windowOpen, {b \in Batches : settled[b]}, {}, NoBatch)
  /\ ExpireOverdue
  /\ UNCHANGED <<deferredVars, windowOpen, gate, host, up, opn, runVars, faults>>

\* Faulty variant: without the grace for fresh decisions.
FaultyRecList(a) ==
  /\ rec[a].pc = "listing"
  /\ RecGoesTo(a, "looping", rec[a].open, {}, OrphanedApproved, NoBatch)
  /\ UNCHANGED <<storeVars, deferredVars, windowOpen, gate, host, up, opn, runVars, faults>>

\* Pass 2 begins: of the orphaned approvals, those decided less than the grace
\* before `now` are passed over.
RecList(a) ==
  /\ rec[a].pc = "listing"
  /\ RecGoesTo(a, "looping", rec[a].open, {}, OrphanedApproved \cap rec[a].ripe, NoBatch)
  /\ UNCHANGED <<storeVars, deferredVars, windowOpen, gate, host, up, opn, runVars, faults>>

\* A live gate owns the row, its environment is unknown, or the claim is lost.
RecSkip(a, b) ==
  /\ rec[a].pc = "looping" /\ b \in rec[a].queue
  /\ HasWaiter(a, b) \/ b \in Unlisted \/ ~Claimable(b)
  /\ RecGoesTo(a, "looping", rec[a].open, {}, rec[a].queue \ {b}, NoBatch)
  /\ UNCHANGED <<storeVars, deferredVars, windowOpen, gate, host, up, opn, runVars, faults>>

\* A row without a plan artifact is claimed so that it stops looping; nothing
\* is executed.  Any other row is claimed and handled next.
RecClaim(a, b) ==
  /\ rec[a].pc = "looping" /\ b \in rec[a].queue
  /\ ~HasWaiter(a, b) /\ b \notin Unlisted /\ Claimable(b)
  /\ MarkExecutionStarted(b)
  /\ IF b \in CliBatches
       THEN RecGoesTo(a, "looping", rec[a].open, {}, rec[a].queue \ {b}, NoBatch)
       ELSE RecGoesTo(a, "owning", rec[a].open, {}, rec[a].queue \ {b}, b)
  /\ UNCHANGED <<deferredVars, windowOpen, gate, host, up, opn, runVars, faults>>

\* Outside the window, as of the tick's `now`: hand over to the window opener.
RecHandOver(a) ==
  /\ rec[a].pc = "owning" /\ ~rec[a].open
  /\ Save(rec[a].cur)
  /\ RecGoesTo(a, "looping", rec[a].open, {}, rec[a].queue, NoBatch)
  /\ UNCHANGED <<storeVars, windowOpen, gate, host, up, opn, runVars, faults>>

\* Faulty variant: the replay forgets preloaded_approved_items.
FaultyRecReplay(a) ==
  /\ rec[a].pc = "owning" /\ rec[a].open
  /\ starts' = [starts EXCEPT ![rec[a].cur] = @ + 1]
  /\ dispatched' = [dispatched EXCEPT ![rec[a].cur] = Selected({})]
  /\ RecGoesTo(a, "running", rec[a].open, {}, rec[a].queue, rec[a].cur)
  /\ UNCHANGED <<storeVars, deferredVars, windowOpen, gate, host, up, opn, outcome, faults>>

\* Inside the window, as of the tick's `now`: replay the stored artifact.
RecReplay(a) ==
  /\ rec[a].pc = "owning" /\ rec[a].open
  /\ Launch(rec[a].cur)
  /\ RecGoesTo(a, "running", rec[a].open, {}, rec[a].queue, rec[a].cur)
  /\ UNCHANGED <<storeVars, deferredVars, windowOpen, gate, host, up, opn, faults>>

\* The replay stops before its first wave (no reachable VM, artifact too old),
\* or its waves are through; the report is written either way.
RecFinish(a) ==
  /\ \/ rec[a].pc = "owning" /\ rec[a].open /\ Report(rec[a].cur, "aborted")
     \/ rec[a].pc = "running" /\ Report(rec[a].cur, "completed")
  /\ RecGoesTo(a, "looping", rec[a].open, {}, rec[a].queue, NoBatch)
  /\ UNCHANGED <<storeVars, deferredVars, windowOpen, gate, host, up, opn, faults>>

RecEnd(a) ==
  /\ rec[a].pc = "looping" /\ rec[a].queue = {}
  /\ rec' = [rec EXCEPT ![a] = RecIdle]
  /\ UNCHANGED <<storeVars, deferredVars, windowOpen, gate, host, up, opn, runVars, faults>>

RecStep(a) ==
  \/ RecTick(a) \/ RecList(a)
  \/ \E b \in Batches : RecSkip(a, b) \/ RecClaim(a, b)
  \/ RecHandOver(a) \/ RecReplay(a) \/ RecFinish(a) \/ RecEnd(a)

-----------------------------------------------------------------------------
(* The window opener, a cron job at the start of the window *)

OpnGoesTo(a, pc, queue, cur) ==
  opn' = [opn EXCEPT ![a] = [pc |-> pc, queue |-> queue, cur |-> cur]]

\* expire_old, for every environment, then get_pending, for the opener's own.
OpnTick(a) ==
  /\ opn[a].pc = "due"
  /\ OpnGoesTo(a, "looping", Pending \ Unlisted, NoBatch)
  /\ ExpireOld
  /\ UNCHANGED <<storeVars, windowOpen, gate, host, up, rec, runVars, faults>>

OpnTake(a, b) ==
  /\ opn[a].pc = "looping" /\ b \in opn[a].queue
  /\ MarkExecuting(b)
  /\ OpnGoesTo(a, "owning", opn[a].queue \ {b}, b)
  /\ UNCHANGED <<storeVars, windowOpen, gate, host, up, rec, runVars, faults>>

\* run_env_batch with the stored artifact, force=True: the window is not
\* looked at, whatever the previous records took.  The branch for records
\* without an artifact is left out: both callers of save store one.
OpnReplay(a) ==
  /\ opn[a].pc = "owning"
  /\ Launch(opn[a].cur)
  /\ OpnGoesTo(a, "running", opn[a].queue, opn[a].cur)
  /\ UNCHANGED <<storeVars, deferredVars, windowOpen, gate, host, up, rec, faults>>

OpnFinish(a) ==
  /\ \/ opn[a].pc = "owning" /\ Report(opn[a].cur, "aborted")
     \/ opn[a].pc = "running" /\ Report(opn[a].cur, "completed")
  /\ MarkDone(opn[a].cur)
  /\ OpnGoesTo(a, "looping", opn[a].queue, NoBatch)
  /\ UNCHANGED <<storeVars, windowOpen, gate, host, up, rec, faults>>

OpnEnd(a) ==
  /\ opn[a].pc = "looping" /\ opn[a].queue = {}
  /\ opn' = [opn EXCEPT ![a] = OpnIdle]
  /\ UNCHANGED <<storeVars, deferredVars, windowOpen, gate, host, up, rec, runVars, faults>>

OpnStep(a) ==
  \/ OpnTick(a)
  \/ \E b \in Batches : OpnTake(a, b)
  \/ OpnReplay(a) \/ OpnFinish(a) \/ OpnEnd(a)

-----------------------------------------------------------------------------
(* Time *)

\* The cron trigger of the window opener makes the idle openers due.
CronFiring ==
  opn' = [a \in Agents |-> IF up[a] /\ opn[a].pc = "idle"
                             THEN [OpnIdle EXCEPT !.pc = "due"] ELSE opn[a]]

\* The start hour of a listed day comes.  The cron trigger fires with it when
\* it reads its hour in the window's time zone (Windows!OpeningStarts).
OpensAtStart ==
  /\ ~windowOpen
  /\ windowOpen' = TRUE
  /\ \/ CronAligned /\ CronFiring
     \/ ~CronAligned /\ UNCHANGED opn
  /\ UNCHANGED <<storeVars, deferredVars, gate, host, up, rec, runVars, faults>>

\* The midnight of a listed day opens an overnight window that was not open on
\* the day before; there is no cron trigger for that.
OpensAtMidnight ==
  /\ ~windowOpen
  /\ windowOpen' = TRUE
  /\ UNCHANGED <<storeVars, deferredVars, gate, host, jobVars, runVars, faults>>

\* The trigger reads its hour in the zone of the agent's machine, or the window
\* is of zero length: the openers are due whatever the window says.
FiresElsewhere ==
  /\ ~CronAligned
  /\ CronFiring
  /\ UNCHANGED <<storeVars, deferredVars, windowOpen, gate, host, up, rec, runVars, faults>>

\* A due job is dispatched at once, long before the window closes.  BriskJobs
\* also rules out that it closes between two database calls of a job, and so
\* leaves the hours for which a job runs a batch.
WindowCloses ==
  /\ windowOpen
  /\ \A a \in Agents : opn[a].pc # "due"
  /\ BriskJobs => \A a \in Agents : {rec[a].pc, opn[a].pc} \subseteq {"idle", "running"}
  /\ windowOpen' = FALSE
  /\ UNCHANGED <<storeVars, deferredVars, gate, host, jobVars, runVars, faults>>

\* A gate that is prompt in a stage has left it before the grace is over.
Prompt == {"posting", "waiting", "timingout", "claiming"} \ SlowStages

ApprovalTimePasses(b) ==
  /\ \/ TimeoutElapses(b)
     \/ gate[b] \notin Prompt /\ GraceElapses(b)
  /\ UNCHANGED <<deferredVars, windowOpen, gate, host, jobVars, runVars, faults>>

DeferralTimePasses(b) ==
  /\ DeferralElapses(b)
  /\ UNCHANGED <<storeVars, windowOpen, gate, host, jobVars, runVars, faults>>

-----------------------------------------------------------------------------
(* Faults *)

\* An exception escapes the coroutine of a gate, or its one-shot process dies.
GateDies(b) ==
  /\ faults < MaxFaults
  /\ gate[b] \in LiveGate
  /\ gate' = [gate EXCEPT ![b] = "dead"]
  /\ host' = [host EXCEPT ![b] = NoAgent]
  /\ faults' = faults + 1
  /\ UNCHANGED <<storeVars, deferredVars, windowOpen, jobVars, runVars>>

\* run_env_batch raises out of the reconciler: the tick ends.
RecDies(a) ==
  /\ faults < MaxFaults
  /\ rec[a].pc \in {"owning", "running"}
  /\ rec' = [rec EXCEPT ![a] = RecIdle]
  /\ faults' = faults + 1
  /\ UNCHANGED <<storeVars, deferredVars, windowOpen, gate, host, up, opn, runVars>>

\* An exception before the opener's try block, or out of run_env_batch: only
\* the latter reaches mark_done in the finally clause.
OpnDies(a) ==
  /\ faults < MaxFaults
  /\ \/ opn[a].pc = "owning" /\ UNCHANGED deferredVars
     \/ opn[a].pc \in {"owning", "running"} /\ MarkDone(opn[a].cur)
  /\ opn' = [opn EXCEPT ![a] = OpnIdle]
  /\ faults' = faults + 1
  /\ UNCHANGED <<storeVars, windowOpen, gate, host, up, rec, runVars>>

\* An agent process dies with its jobs and the gates it hosts.
Crash(a) ==
  /\ faults < MaxFaults
  /\ up[a]
  /\ up' = [up EXCEPT ![a] = FALSE]
  /\ gate' = [b \in Batches |-> IF host[b] = a THEN "dead" ELSE gate[b]]
  /\ host' = [b \in Batches |-> IF host[b] = a THEN NoAgent ELSE host[b]]
  /\ rec' = [rec EXCEPT ![a] = RecIdle]
  /\ opn' = [opn EXCEPT ![a] = OpnIdle]
  /\ faults' = faults + 1
  /\ UNCHANGED <<storeVars, deferredVars, windowOpen, runVars>>

Restart(a) ==
  /\ ~up[a]
  /\ up' = [up EXCEPT ![a] = TRUE]
  /\ UNCHANGED <<storeVars, deferredVars, windowOpen, gate, host, rec, opn, runVars, faults>>

-----------------------------------------------------------------------------
Next ==
  \/ \E b \in Batches :
       \/ \E h \in Agents \cup {NoAgent} : Begin(b, h)
       \/ Blocked(b) \/ GateStep(b) \/ Decision(b)
       \/ ApprovalTimePasses(b) \/ DeferralTimePasses(b) \/ GateDies(b)
  \/ \E a \in Agents :
       RecStep(a) \/ OpnStep(a) \/ RecDies(a) \/ OpnDies(a) \/ Crash(a) \/ Restart(a)
  \/ OpensAtStart \/ OpensAtMidnight \/ FiresElsewhere \/ WindowCloses

Spec == Init /\ [][Next]_vars

\* The event loop runs every coroutine that can proceed, the scheduler fires
\* its interval job for ever, a supervisor restarts a dead agent, batches end
\* because every command they run has a timeout, and time passes.  Nobody has
\* to decide a request, to start a batch or to lose an execution.  A week has
\* the start of a listed day, and a firing of the opener whatever clock it is
\* on (Windows!HasAChance), however often an overnight window opens at
\* midnight: strong fairness.
Fairness ==
  /\ SF_vars(OpensAtStart) /\ WF_vars(FiresElsewhere) /\ WF_vars(WindowCloses)
  /\ \A b \in Batches : WF_vars(GateStep(b)) /\ WF_vars(ApprovalTimePasses(b))
  /\ \A a \in Agents : WF_vars(RecStep(a)) /\ WF_vars(OpnStep(a)) /\ WF_vars(Restart(a))

FairSpec == Spec /\ Fairness

-----------------------------------------------------------------------------
(* Properties *)

\* However gate, reconciler, opener, crashes and restarts interleave, an
\* approved batch is started at most once (approval_store.py: "the restart
\* reconciler and a live graph never double-execute one approval").
AtMostOnce == \A b \in Batches : starts[b] <= 1

\* Nothing is started without a recorded approval that its executor claimed:
\* not by a timeout racing an approval, not by a replay after a restart.
StartedOnlyIfApproved ==
  \A b \in Batches : starts[b] > 0 => status[b] = "approved" /\ claimed[b]

\* A recorded decision and its item selection are never altered again, by a
\* second browser tab, a late timeout or a re-created request.
DecisionsAreFinal ==
  [][\A b \in Batches : status[b] \in Decided =>
       status'[b] = status[b] /\ items'[b] = items[b]]_vars

\* The packages an operator checked are the ones that are executed, whether
\* the gate, the reconciler or the window opener executes the batch.
SelectionSurvives ==
  \A b \in Batches \ CliBatches :
    starts[b] > 0 /\ items[b] # {} => dispatched[b] = items[b]

\* The four places from which an approved batch can be started.
GateOwns(b)     == gate[b] \in {"claimed", "saving"}
DeferralOwns(b) == deferred[b] = "pending"
RecOwns(a, b)   == rec[a].pc = "owning" /\ rec[a].cur = b
OpnOwns(a, b)   == opn[a].pc = "owning" /\ opn[a].cur = b

\* A batch in one of these places was claimed, is not started yet, and is in
\* no other of them.
OneOwner ==
  \A b \in Batches :
    /\ GateOwns(b) \/ DeferralOwns(b) \/ (\E a \in Agents : RecOwns(a, b) \/ OpnOwns(a, b))
         => Claimable(b) = FALSE /\ status[b] = "approved" /\ starts[b] = 0
    /\ ~(GateOwns(b) /\ DeferralOwns(b))
    /\ \A a \in Agents :
         /\ RecOwns(a, b) => ~GateOwns(b) /\ ~DeferralOwns(b)
         /\ OpnOwns(a, b) => ~GateOwns(b) /\ ~DeferralOwns(b) /\ ~RecOwns(a, b)

\* The batches table never calls aborted a batch whose actions ran: the gate
\* that lost its claim must not report over the executor that won it.
AbortedMeansNotStarted ==
  \A b \in Batches : outcome[b] = "aborted" => starts[b] = 0

\* Every posted request is decided in the end (no row stays pending for good), by a
\* person or by its timeout, although the process that posted it may be gone.
RequestsAreDecided ==
  \A b \in Batches : []<>(status[b] # "pending")

\* No approval is forgotten (none stays unclaimed for good): somebody claims it,
\* although the gate that waited for it, or an agent, may have died in between.  An
\* approval of an environment that no agent knows is only reported in the log.
ApprovalsAreClaimed ==
  \A b \in Batches \ Unlisted : []<>(status[b] = "approved" => claimed[b])

\* As long as nothing fails, no approved maintenance batch stays without its report
\* for good, be it now or at a later window, unless its deferral expires first.
ApprovedBatchesEnd ==
  \A b \in Batches \ (CliBatches \cup Unlisted) :
    []<>(status[b] = "approved" => \/ outcome[b] \in {"completed", "aborted"}
                                   \/ deferred[b] = "expired"
                                   \/ faults > 0)

\* The verdict of ApprovalContract that a row's status stands for.
VerdictOf(st) ==
  CASE st = "absent" -> "none"
    [] st \in {"pending", "approved"} -> st
    [] OTHER -> "refused"

Contract == INSTANCE ApprovalContract WITH
  verdict <- [b \in Batches |-> VerdictOf(status[b])],
  taken <- claimed,
  runs <- starts

\* Every step of the gate, the jobs, the web UI and the faults is a step that
\* the contract allows, or none that it sees.
ImplementsContract == Contract!Spec

-----------------------------------------------------------------------------
(* What the documents say and the code does not do *)

\* README.md:40 "Every live change is approved against the exact objects it
\* will touch (per-package checkboxes, ...)".
OnlyCheckedPackages ==
  \A b \in Batches \ CliBatches : starts[b] > 0 => dispatched[b] \subseteq items[b]

\* README.md:528 "Agent refuses to run outside defined windows unless --force
\* with a mandatory reason".  The gate of a batch obeys; the reconciler and the
\* window opener replay what they were given.
StartsInsideWindow ==
  [][\A b \in Batches \ CliBatches : starts'[b] > starts[b] => windowOpen]_vars
=============================================================================
