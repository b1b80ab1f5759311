----------------------------- MODULE Proposals -----------------------------
(***************************************************************************)
(* Proposals from end to end: probes and the assistant file them           *)
(* (proposal_detector.py, investigation_trigger.py, main.py), operators    *)
(* decide or snooze them (ui.py), and the proposal reconciler of an agent  *)
(* (_proposal_reconciler in main.py) executes the approved ones.           *)
(*                                                                         *)
(* A step is what happens between two awaits that touch shared state: one  *)
(* transaction, one call of the locker, one run of a sub-graph.  Filers    *)
(* and agents are processes.  The sub-graph is its result.                 *)
(***************************************************************************)
EXTENDS ProposalStore, AgentLease

CONSTANTS
  Vms,
  VmOf,           \* VmOf[k]: the VM of key k, by which the reconciler locks
  Setups,         \* what a start may find: [dry, enabled]
  Filers,         \* probe runs and --ask --agentic runs
  Free,           \* nobody holds the lock
  Elsewhere,      \* the lock is held by a --restart-service run
  MaxTrouble      \* bound: crashes, exceptions, foreign locks, window closings

ASSUME ProposalsAssumption ==
  /\ VmOf \in [Keys -> Vms]
  /\ Free \notin Ids /\ Elsewhere \notin Ids /\ Free # Elsewhere
  /\ Setups \subseteq [dry : BOOLEAN, enabled : SUBSET ActionKeys]
  /\ MaxTrouble \in Nat

VARIABLES
  filer,          \* filer[f]: where it is, the key it files and the id it stored
  agent,          \* agent[a]: where its reconciler is, and what the tick has read
  lock,           \* lock[v]: the proposal whose run holds the VM's lock
  window,         \* the maintenance window is open
  trouble,        \* how many disturbances there have been
  runs,           \* history: runs[i]: how often the sub-graph ran for proposal i
  moved           \* history: filers whose key had a row change its status
                  \* since they last looked at it

proposalVars == <<row, lease, filer, agent, lock, window, trouble, runs, moved>>

FilerAt == {"idle", "check", "write", "investigate"}
InTick  == {"waking", "listing", "working", "refused", "locked", "claimed", "ran"}
AgentAt == {"down", "acquiring", "idle"} \cup InTick

Filer == [at : FilerAt, key : Keys, id : Ids]
Agent == [at      : AgentAt,
          dry     : BOOLEAN,              \* agent_dry_run
          enabled : SUBSET ActionKeys,    \* enabled in the inventory it loaded
          todo    : SUBSET Ids,           \* listed, and not yet looked at
          item    : Ids]                  \* the proposal at hand

TypeOK ==
  /\ row     \in [Ids -> Row]
  /\ lease   \in Lease
  /\ filer   \in [Filers -> Filer]
  /\ agent   \in [Agents -> Agent]
  /\ lock    \in [Vms -> Ids \cup {Free, Elsewhere}]
  /\ window  \in BOOLEAN
  /\ trouble \in 0 .. MaxTrouble
  /\ runs    \in [Ids -> Nat]
  /\ moved   \subseteq Filers

AnyId  == CHOOSE i \in Ids : TRUE
AnyKey == CHOOSE k \in Keys : TRUE

NotFiling == [at |-> "idle", key |-> AnyKey, id |-> AnyId]
NotUp     == [at |-> "down", dry |-> FALSE, enabled |-> {},
              todo |-> {}, item |-> AnyId]

Init ==
  /\ StoreInit /\ LeaseInit
  /\ filer   = [f \in Filers |-> NotFiling]
  /\ agent   = [a \in Agents |-> NotUp]
  /\ lock    = [v \in Vms |-> Free]
  /\ window \in BOOLEAN
  /\ trouble = 0
  /\ runs    = [i \in Ids |-> 0]
  /\ moved   = {}

\* Filers that have looked at a key whose rows this step moves.
Moves == {f \in Filers : /\ filer[f].at \in {"check", "write"}
                         /\ \E i \in Of(filer[f].key) : row'[i].status # row[i].status}

\* What every step on the table that is not a filer's own has in common.
TableStep == moved' = moved \cup Moves

Disturbs == trouble < MaxTrouble /\ trouble' = trouble + 1

-----------------------------------------------------------------------------
(* Filing: file_or_suppress_one, then perhaps an investigation *)

fVars == <<lease, agent, lock, window, trouble, runs>>

FilerGoes(f, to) == filer' = [filer EXCEPT ![f].at = to]

\* The filer takes up a key.  get_open is asked for actions only: a review is
\* never suppressed, and an action with an open proposal is refreshed.
Look(f) ==
  /\ filer[f].at = "idle"
  /\ \E k \in Keys :
       /\ Open(k) # {} \/ \E i \in Of(k) : Fresh(k, i)
       /\ filer' = [filer EXCEPT ![f].key = k,
                                 ![f].at = IF k \in ActionKeys /\ Open(k) = {}
                                             THEN "check" ELSE "write"]
  /\ moved' = moved \ {f}
  /\ UNCHANGED <<row, fVars>>

\* is_suppressed, in a transaction of its own.
Check(f) ==
  /\ filer[f].at = "check"
  /\ IF Suppressed(filer[f].key)
       THEN filer' = [filer EXCEPT ![f] = NotFiling] /\ moved' = moved \ {f}
       ELSE FilerGoes(f, "write") /\ UNCHANGED moved
  /\ UNCHANGED <<row, fVars>>

\* create_or_refresh, and what the caller goes on with is the stored row.
File(f) ==
  LET k == filer[f].key IN
  /\ filer[f].at = "write"
  /\ \E i \in Of(k) :
       /\ IF Open(k) = {} THEN Fresh(k, i) ELSE i \in Open(k)
       /\ Upsert(k, i)
       /\ \/ filer' = [filer EXCEPT ![f] = NotFiling]
          \/ filer' = [filer EXCEPT ![f].at = "investigate", ![f].id = i]
  /\ moved' = (moved \cup Moves) \ {f}
  /\ UNCHANGED fVars

\* Faulty variant: the enriched proposal is given a new id.
FaultyEnrich(f) ==
  LET k == filer[f].key IN
  /\ filer[f].at = "investigate"
  /\ \E i \in Of(k) : Fresh(k, i) /\ Upsert(k, i)
  /\ filer' = [filer EXCEPT ![f] = NotFiling]
  /\ TableStep
  /\ UNCHANGED fVars

\* _enrich_proposal, minutes later: the same upsert with the id it was given.
\* It has no suppression check; an id that was decided meanwhile raises.
Enrich(f) ==
  /\ filer[f].at = "investigate"
  /\ Upsert(filer[f].key, filer[f].id)
  /\ filer' = [filer EXCEPT ![f] = NotFiling]
  /\ TableStep
  /\ UNCHANGED fVars

\* Nothing found, the answer timed out, or the process died.
GiveUp(f) ==
  /\ filer[f].at # "idle"
  /\ filer' = [filer EXCEPT ![f] = NotFiling]
  /\ moved' = moved \ {f}
  /\ UNCHANGED <<row, fVars>>

FilerStep(f) == Look(f) \/ Check(f) \/ File(f) \/ Enrich(f) \/ GiveUp(f)

-----------------------------------------------------------------------------
(* Operators, and time: _ui_proposal_decide may come from a page shown long ago *)

oVars == <<lease, filer, agent, lock, window, trouble, runs>>

OperatorDecides(i) ==
  /\ \E verdict \in {"approved", "rejected"} : Decide(i, verdict)
  /\ TableStep
  /\ UNCHANGED oVars

OperatorSnoozes(i) == Snooze(i) /\ TableStep /\ UNCHANGED oVars

TimePasses(i) ==
  /\ WindowElapses(i)
  /\ UNCHANGED <<oVars, moved>>

LeaseEnds ==
  /\ LeaseLapses
  /\ UNCHANGED <<row, filer, agent, lock, window, trouble, runs, moved>>

-----------------------------------------------------------------------------
(* An agent process: its lease, its start and its end *)

aVars == <<filer, window, runs>>

AgentGoes(a, to) == agent' = [agent EXCEPT ![a].at = to]

Up(a) == agent[a].at \notin {"down", "acquiring"}

\* The inventory is loaded once, at the start.  Bound: an agent that starts
\* beside a running one counts as a disturbance.
Starts(a) ==
  /\ \E s \in Setups :
       agent' = [agent EXCEPT ![a] = [NotUp EXCEPT !.at = "idle", !.dry = s.dry,
                                                  !.enabled = s.enabled]]
  /\ IF \E b \in Agents : Up(b) THEN Disturbs ELSE UNCHANGED trouble

\* With a live lease in the table acquire raises, and the process ends again.
AcquireLease(a) ==
  /\ agent[a].at = "down"
  /\ \/ TakeOver(a) /\ Starts(a)
     \/ FoundEmpty /\ AgentGoes(a, "acquiring") /\ UNCHANGED <<lease, trouble>>
  /\ UNCHANGED <<row, aVars, lock, moved>>

FinishLease(a) ==
  /\ agent[a].at = "acquiring"
  /\ InsertLease(a) /\ Starts(a)
  /\ UNCHANGED <<row, aVars, lock, moved>>

Stop(a) ==
  /\ agent[a].at = "idle"
  /\ Disturbs
  /\ Release(a)
  /\ agent' = [agent EXCEPT ![a] = NotUp]
  /\ UNCHANGED <<row, aVars, lock, moved>>

\* A crash leaves the lease and the lock file behind.
Crash(a) ==
  /\ agent[a].at # "down"
  /\ Disturbs
  /\ agent' = [agent EXCEPT ![a] = NotUp]
  /\ UNCHANGED <<row, lease, aVars, lock, moved>>

-----------------------------------------------------------------------------
(* The reconciler's tick; max_instances=1 keeps a second one away *)

rVars == <<lease, filer, window, trouble>>

VmIs(i) == VmOf[KeyOf[i]]

\* locker.release: by the id of the proposal, whoever's run it belongs to.
Unlocked(i) == IF lock[VmIs(i)] = i THEN [lock EXCEPT ![VmIs(i)] = Free] ELSE lock

Sleeps(a) == agent' = [agent EXCEPT ![a].at = "idle", ![a].todo = {}, ![a].item = AnyId]

\* Back in the loop over the listed proposals.
NextItem(a) == agent' = [agent EXCEPT ![a].at = "working", ![a].item = AnyId]

\* Pass 1: expire_overdue.
Tick(a) ==
  /\ agent[a].at = "idle"
  /\ \E overdue \in SUBSET Pending : ExpireOverdue(overdue)
  /\ AgentGoes(a, "waking")
  /\ TableStep
  /\ UNCHANGED <<rVars, lock, runs>>

\* Pass 2: wake_snoozed.  If it raises the tick is over; so it is in a dry run.
Wake(a) ==
  /\ agent[a].at = "waking"
  /\ \E due \in SUBSET Snoozed :
       IF Collide(due)
         THEN Sleeps(a) /\ UNCHANGED <<row, moved>>
         ELSE /\ WakeSnoozed(due) /\ TableStep
              /\ IF agent[a].dry THEN Sleeps(a) ELSE AgentGoes(a, "listing")
  /\ UNCHANGED <<rVars, lock, runs>>

\* Pass 3: get_approved_unclaimed.  The clock is read once, before it, so what
\* has to wait for the window waits for a later tick.
List(a) ==
  /\ agent[a].at = "listing"
  /\ agent' = [agent EXCEPT ![a].at = "working",
                            ![a].todo = {i \in Ids : /\ Claimable(i)
                                                     /\ window \/ KeyOf[i] \notin agent[a].enabled}]
  /\ UNCHANGED <<row, rVars, lock, runs, moved>>

TakesUp(a, i) == agent[a].at = "working" /\ i \in agent[a].todo

\* Faulty variant: what the inventory no longer enables is passed over.
FaultyRefuse(a, i) ==
  /\ TakesUp(a, i) /\ KeyOf[i] \notin agent[a].enabled
  /\ agent' = [agent EXCEPT ![a].todo = @ \ {i}]
  /\ UNCHANGED <<row, rVars, lock, runs, moved>>

\* Config drift: what the inventory no longer enables is claimed and failed.
Refuse(a, i) ==
  /\ TakesUp(a, i) /\ KeyOf[i] \notin agent[a].enabled
  /\ \E won \in BOOLEAN :
       /\ MarkStarted(i, won)
       /\ agent' = [agent EXCEPT ![a].todo = @ \ {i},
                                 ![a].at = IF won THEN "refused" ELSE @,
                                 ![a].item = IF won THEN i ELSE @]
  /\ UNCHANGED <<rVars, lock, runs, moved>>

RecordRefusal(a) ==
  /\ agent[a].at = "refused"
  /\ SetOutcome(agent[a].item, "failed")
  /\ NextItem(a)
  /\ UNCHANGED <<rVars, lock, runs, moved>>

\* The lock is not free: it waits for a later tick.
Skip(a, i) ==
  /\ TakesUp(a, i) /\ KeyOf[i] \in agent[a].enabled
  /\ lock[VmIs(i)] # Free
  /\ agent' = [agent EXCEPT ![a].todo = @ \ {i}]
  /\ UNCHANGED <<row, rVars, lock, runs, moved>>

\* Faulty variant: it is claimed before the lock is asked for.
FaultyLock(a, i) ==
  /\ TakesUp(a, i) /\ KeyOf[i] \in agent[a].enabled
  /\ \E won \in BOOLEAN : MarkStarted(i, won)
  /\ lock' = [lock EXCEPT ![VmIs(i)] = i]
  /\ agent' = [agent EXCEPT ![a].todo = @ \ {i}, ![a].at = "locked", ![a].item = i]
  /\ UNCHANGED <<rVars, runs, moved>>

\* "Lock before claim so a lost lock leaves the proposal retryable."
Lock(a, i) ==
  /\ TakesUp(a, i) /\ KeyOf[i] \in agent[a].enabled
  /\ lock[VmIs(i)] = Free
  /\ lock' = [lock EXCEPT ![VmIs(i)] = i]
  /\ agent' = [agent EXCEPT ![a].todo = @ \ {i}, ![a].at = "locked", ![a].item = i]
  /\ UNCHANGED <<row, rVars, runs, moved>>

Claim(a) ==
  LET i == agent[a].item IN
  /\ agent[a].at = "locked"
  /\ \E won \in BOOLEAN :
       /\ MarkStarted(i, won)
       /\ IF won THEN AgentGoes(a, "claimed") /\ UNCHANGED lock
                 ELSE NextItem(a) /\ lock' = Unlocked(i)
  /\ UNCHANGED <<rVars, runs, moved>>

\* The sub-graph of the action; an exception it raises is a failed result.
Execute(a) ==
  /\ agent[a].at = "claimed"
  /\ runs' = [runs EXCEPT ![agent[a].item] = @ + 1]
  /\ AgentGoes(a, "ran")
  /\ UNCHANGED <<row, rVars, lock, moved>>

Record(a) ==
  LET i == agent[a].item IN
  /\ agent[a].at = "ran"
  /\ \E o \in {"success", "failed"} : SetOutcome(i, o)
  /\ lock' = Unlocked(i)
  /\ NextItem(a)
  /\ UNCHANGED <<rVars, runs, moved>>

Finish(a) ==
  /\ agent[a].at = "working" /\ agent[a].todo = {}
  /\ Sleeps(a)
  /\ UNCHANGED <<row, rVars, lock, runs, moved>>

\* An audit write in strict mode, or the database, raises: the tick is over, and
\* the finally gives back the lock if it was taken.
Abandon(a) ==
  /\ agent[a].at \in InTick
  /\ Disturbs
  /\ Sleeps(a)
  /\ lock' = IF agent[a].at \in {"locked", "claimed", "ran"}
               THEN Unlocked(agent[a].item) ELSE lock
  /\ UNCHANGED <<row, lease, filer, window, runs, moved>>

AgentStep(a) ==
  \/ AcquireLease(a) \/ FinishLease(a)
  \/ Tick(a) \/ Wake(a) \/ List(a) \/ Finish(a)
  \/ \E i \in Ids : Refuse(a, i) \/ Skip(a, i) \/ Lock(a, i)
  \/ RecordRefusal(a) \/ Claim(a) \/ Execute(a) \/ Record(a)

-----------------------------------------------------------------------------
(* The lock and the window, as the rest of the program moves them *)

sVars == <<row, lease, filer, agent, runs, moved>>

\* A --restart-service run takes the bare VM name, as the reconciler does.
OtherLocks(v) ==
  /\ lock[v] = Free
  /\ Disturbs
  /\ lock' = [lock EXCEPT ![v] = Elsewhere]
  /\ UNCHANGED <<sVars, window>>

\* It is released, or outlives its 300 s and is as good as free for acquire.
LockEnds(v) ==
  /\ lock[v] # Free
  /\ lock' = [lock EXCEPT ![v] = Free]
  /\ UNCHANGED <<sVars, window, trouble>>

WindowOpens ==
  /\ ~window /\ window' = TRUE
  /\ UNCHANGED <<sVars, lock, trouble>>

WindowCloses ==
  /\ window /\ window' = FALSE
  /\ Disturbs
  /\ UNCHANGED <<sVars, lock>>

-----------------------------------------------------------------------------
Next ==
  \/ \E f \in Filers : FilerStep(f)
  \/ \E i \in Ids : OperatorDecides(i) \/ OperatorSnoozes(i) \/ TimePasses(i)
  \/ \E a \in Agents : AgentStep(a) \/ Stop(a) \/ Crash(a) \/ Abandon(a)
  \/ \E v \in Vms : OtherLocks(v) \/ LockEnds(v)
  \/ LeaseEnds \/ WindowOpens \/ WindowCloses

\* The scheduler calls the reconciler every 60 s and a container that has ended
\* is started again; leases, locks and closed windows end by the clock.
Fairness ==
  /\ \A a \in Agents : WF_proposalVars(AgentStep(a))
  /\ \A v \in Vms : WF_proposalVars(LockEnds(v))
  /\ WF_proposalVars(LeaseEnds) /\ WF_proposalVars(WindowOpens)

Spec == Init /\ [][Next]_proposalVars /\ Fairness

-----------------------------------------------------------------------------
(* Properties *)

\* A proposal is executed at most once, by however many agents, crashes and
\* lapsed locks: only after it was approved and claimed, only if it is about an
\* action, and what is recorded as a success did run (the claim of
\* mark_execution_started: "a proposal is never run twice").
ExecutedOnce ==
  \A i \in Ids :
    /\ runs[i] <= 1
    /\ runs[i] = 1 => Is(i, "approved") /\ row[i].claimed /\ KeyOf[i] \in ActionKeys
    /\ row[i].outcome = "success" => runs[i] = 1

\* What an operator or the clock has settled stays settled: no stale page, no
\* expiry pass, no late filer and no second agent reopens a decided proposal,
\* takes a claim back or rewrites a recorded outcome.
DecisionsStand ==
  [][\A i \in Ids :
       /\ row[i].status \in {"approved", "rejected", "expired"} => row'[i].status = row[i].status
       /\ row[i].claimed => row'[i].claimed
       /\ row[i].outcome # "none" => row'[i].outcome = row[i].outcome]_proposalVars

\* A key that the operator has rejected Threshold times of late, and that nobody
\* has an open proposal for, is proposed again only by a filer that looked at
\* the table before its rows moved: get_open, is_suppressed and the upsert are
\* three transactions.
SuppressionHolds ==
  [][\A i \in Ids :
       LET k == KeyOf[i]
           silenced == {j \in Of(k) : Is(j, "rejected")}
       IN  ( /\ Is(i, "absent") /\ row'[i].status # "absent"
             /\ k \in ActionKeys
             /\ Cardinality(silenced) >= Threshold
             /\ \E j \in silenced : row[j].recent )
           => \E f \in moved : filer[f].at = "write" /\ filer[f].key = k
    ]_proposalVars

\* An agent that has claimed proposal i is at work on it.
InHand(i) == \E a \in Agents : agent[a].at \in {"refused", "claimed", "ran"} /\ agent[a].item = i

\* Claimed, without an outcome, and nobody will ever add one.
Stranded == {i \in Ids : row[i].claimed /\ row[i].outcome = "none" /\ ~InHand(i)}

\* A claim without an outcome is the trace of a disturbance, and each disturbance
\* leaves at most one: lost races, held locks, closed windows and changed
\* inventories never cost the operator an approval.
ApprovalsAreNotLost == Cardinality(Stranded) <= trouble

\* As long as agents are not in dry run and the waking of snoozed proposals does
\* not raise, no approved proposal stays unclaimed for good, whatever crashes,
\* held locks and closed windows there have been.
ApprovalsAreWorkedOff ==
  \A i \in Ids :
    []<>~(Claimable(i) /\ ~Collide(Snoozed) /\ \A a \in Agents : ~agent[a].dry)
=============================================================================
