-------------------------- MODULE ProposalsProofs --------------------------
(***************************************************************************)
(* What holds of proposals for any number of them, of filers and of        *)
(* agents, also of agents that run beside each other on lapsed leases.     *)
(***************************************************************************)
EXTENDS Proposals, FiniteSetTheorems, TLAPS

USE DEF proposalVars, fVars, oVars, aVars, rVars, sVars, Is, FilerAt, InTick, AgentAt

\* The constants of an idle filer and of an agent that is down.
LEMMA AnyFacts == AnyId \in Ids /\ AnyKey \in Keys
<1>1. AnyId \in Ids
  BY StoreAssumption, Zenon DEF AnyId
<1>2. AnyKey \in Keys
  BY StoreAssumption, Zenon DEF AnyKey
<1> QED
  BY <1>1, <1>2

-----------------------------------------------------------------------------
(* Type correctness *)

\* Every write of the table leaves a table.
LEMMA StoreTypes ==
  ASSUME row \in [Ids -> Row]
  PROVE  /\ \A k \in Keys, i \in Ids : Upsert(k, i) => row' \in [Ids -> Row]
         /\ \A i \in Ids, v \in {"approved", "rejected"} : Decide(i, v) => row' \in [Ids -> Row]
         /\ \A i \in Ids : Snooze(i) => row' \in [Ids -> Row]
         /\ \A t : ExpireOverdue(t) \/ WakeSnoozed(t) => row' \in [Ids -> Row]
         /\ \A i \in Ids, w \in BOOLEAN : MarkStarted(i, w) => row' \in [Ids -> Row]
         /\ \A i \in Ids, o \in Outcomes : SetOutcome(i, o) => row' \in [Ids -> Row]
         /\ \A i \in Ids : WindowElapses(i) => row' \in [Ids -> Row]
<1> USE DEF Row, Statuses, Outcomes
<1>1. \A k \in Keys, i \in Ids : Upsert(k, i) => row' \in [Ids -> Row]
  BY ZenonT(30) DEF Upsert, NewRow, NoRow
<1>2. ASSUME NEW i \in Ids, NEW v \in {"approved", "rejected"}, Decide(i, v)
      PROVE  row' \in [Ids -> Row]
  <2> DEFINE b == v = "rejected"
  <2>1. b \in BOOLEAN
    OBVIOUS
  <2>2. row' = [row EXCEPT ![i].status = v, ![i].recent = b]
    BY <1>2 DEF Decide
  <2> HIDE DEF b
  <2> QED
    BY <2>1, <2>2, ZenonT(30)
<1>3. \A i \in Ids : Snooze(i) => row' \in [Ids -> Row]
  BY DEF Snooze
<1>4. \A t : ExpireOverdue(t) \/ WakeSnoozed(t) => row' \in [Ids -> Row]
  BY DEF ExpireOverdue, WakeSnoozed, Become
<1>5. \A i \in Ids, w \in BOOLEAN : MarkStarted(i, w) => row' \in [Ids -> Row]
  BY ZenonT(30) DEF MarkStarted
<1>6. \A i \in Ids, o \in Outcomes : SetOutcome(i, o) => row' \in [Ids -> Row]
  BY DEF SetOutcome
<1>7. \A i \in Ids : WindowElapses(i) => row' \in [Ids -> Row]
  BY ZenonT(30) DEF WindowElapses
<1> QED
  BY <1>1, <1>2, <1>3, <1>4, <1>5, <1>6, <1>7

\* The types hold at first.
LEMMA InitTypes == Init => TypeOK
  BY AnyFacts, LeaseAssumption, ProposalsAssumption
  DEF Init, TypeOK, StoreInit, LeaseInit, NoLease, Lease, NotFiling, NotUp, Filer, Agent,
      NoRow, Row, Statuses, Outcomes

\* A disturbance is counted up to the bound.
LEMMA DisturbTypes == TypeOK /\ Disturbs => trouble' \in 0 .. MaxTrouble
  BY ProposalsAssumption DEF TypeOK, Disturbs

\* What happens to the lease leaves a lease.
LEMMA LeaseTypes ==
  ASSUME lease \in Lease, NEW a \in Agents
  PROVE  TakeOver(a) \/ InsertLease(a) \/ Release(a) \/ LeaseLapses => lease' \in Lease
<1>0. [holder |-> a, stale |-> FALSE] \in Lease
  BY DEF Lease
<1>1. TakeOver(a) \/ InsertLease(a) => lease' \in Lease
  BY <1>0, Zenon DEF TakeOver, InsertLease, LeaseTo
<1>2. Release(a) => lease' \in Lease
  BY DEF Release, NoLease, Lease
<1>3. LeaseLapses => lease' \in Lease
  BY DEF LeaseLapses, Lease
<1> QED
  BY <1>1, <1>2, <1>3

\* What an agent's step makes of it is an agent.
LEMMA AgentTypes ==
  ASSUME agent \in [Agents -> Agent], NEW a \in Agents
  PROVE  /\ agent[a].item \in Ids
         /\ Sleeps(a) \/ NextItem(a) => agent' \in [Agents -> Agent]
         /\ \A at \in AgentAt : AgentGoes(a, at) => agent' \in [Agents -> Agent]
         /\ agent' = [agent EXCEPT ![a] = NotUp] => agent' \in [Agents -> Agent]
         /\ \A i \in Ids, at \in AgentAt :
              agent' = [agent EXCEPT ![a].todo = @ \ {i}, ![a].at = at, ![a].item = i]
                => agent' \in [Agents -> Agent]
         /\ \A i \in Ids : agent' = [agent EXCEPT ![a].todo = @ \ {i}]
                => agent' \in [Agents -> Agent]
         /\ Starts(a) => agent' \in [Agents -> Agent]
         /\ List(a) => agent' \in [Agents -> Agent]
<1> USE AnyFacts DEF Agent
<1>1. agent[a].item \in Ids
  OBVIOUS
<1>2. Sleeps(a) \/ NextItem(a) => agent' \in [Agents -> Agent]
  BY DEF Sleeps, NextItem
<1>3. \A at \in AgentAt : AgentGoes(a, at) => agent' \in [Agents -> Agent]
  BY DEF AgentGoes
<1>4. agent' = [agent EXCEPT ![a] = NotUp] => agent' \in [Agents -> Agent]
  BY DEF NotUp
<1>5. \A i \in Ids, at \in AgentAt :
        agent' = [agent EXCEPT ![a].todo = @ \ {i}, ![a].at = at, ![a].item = i]
          => agent' \in [Agents -> Agent]
  <2>1. TAKE i \in Ids, at \in AgentAt
  <2>2. HAVE agent' = [agent EXCEPT ![a].todo = @ \ {i}, ![a].at = at, ![a].item = i]
  <2>3. [agent[a] EXCEPT !.todo = @ \ {i}, !.at = at, !.item = i] \in Agent
    OBVIOUS
  <2>4. agent' = [agent EXCEPT ![a] = [agent[a] EXCEPT !.todo = @ \ {i}, !.at = at, !.item = i]]
    BY <2>2
  <2> QED
    BY <2>3, <2>4
<1>6. \A i \in Ids : agent' = [agent EXCEPT ![a].todo = @ \ {i}] => agent' \in [Agents -> Agent]
  OBVIOUS
<1>7. ASSUME Starts(a)
      PROVE  agent' \in [Agents -> Agent]
  <2>1. PICK s \in Setups :
          agent' = [agent EXCEPT ![a] = [NotUp EXCEPT !.at = "idle", !.dry = s.dry,
                                                     !.enabled = s.enabled]]
    BY <1>7 DEF Starts
  <2>2. s.dry \in BOOLEAN /\ s.enabled \in SUBSET ActionKeys
    BY ProposalsAssumption
  <2>3. [NotUp EXCEPT !.at = "idle", !.dry = s.dry, !.enabled = s.enabled] \in Agent
    BY <2>2 DEF NotUp
  <2> QED
    BY <2>1, <2>3
<1>8. ASSUME List(a)
      PROVE  agent' \in [Agents -> Agent]
  <2>1. PICK listed \in SUBSET Ids :
          agent' = [agent EXCEPT ![a].at = "working", ![a].todo = listed]
    BY <1>8, Zenon DEF List
  <2> QED
    BY <2>1, ZenonT(30)
<1> QED
  BY <1>1, <1>2, <1>3, <1>4, <1>5, <1>6, <1>7, <1>8

\* A filer's step keeps the types.
LEMMA FilerTypes ==
  ASSUME TypeOK, NEW f \in Filers, FilerStep(f)
  PROVE  TypeOK'
<1> USE DEF TypeOK, Filer
<1>1. CASE Look(f)
  BY <1>1 DEF Look
<1>2. CASE Check(f)
  BY <1>2, AnyFacts DEF Check, FilerGoes, NotFiling
<1>3. CASE File(f)
  <2>1. PICK i \in Of(filer[f].key) :
          /\ Upsert(filer[f].key, i)
          /\ \/ filer' = [filer EXCEPT ![f] = NotFiling]
             \/ filer' = [filer EXCEPT ![f].at = "investigate", ![f].id = i]
    BY <1>3 DEF File
  <2>2. i \in Ids /\ filer[f].key \in Keys
    BY DEF Of
  <2>3. row' \in [Ids -> Row]
    BY <2>1, <2>2, StoreTypes
  <2>4. filer' \in [Filers -> Filer]
    BY <2>1, <2>2, AnyFacts DEF NotFiling
  <2> QED
    BY <1>3, <2>3, <2>4 DEF File, Moves
<1>4. CASE Enrich(f)
  <2>1. row' \in [Ids -> Row]
    BY <1>4, StoreTypes DEF Enrich
  <2> QED
    BY <1>4, <2>1, AnyFacts DEF Enrich, NotFiling, TableStep, Moves
<1>5. CASE GiveUp(f)
  BY <1>5, AnyFacts DEF GiveUp, NotFiling
<1> QED
  BY <1>1, <1>2, <1>3, <1>4, <1>5 DEF FilerStep

\* A step of an operator, the clock, the lock's other users or the window keeps them.
LEMMA WorldTypes ==
  ASSUME TypeOK,
         \/ \E i \in Ids : OperatorDecides(i) \/ OperatorSnoozes(i) \/ TimePasses(i)
         \/ \E v \in Vms : OtherLocks(v) \/ LockEnds(v)
         \/ LeaseEnds \/ WindowOpens \/ WindowCloses
  PROVE  TypeOK'
<1> USE DEF TypeOK
<1>1. ASSUME NEW i \in Ids, OperatorDecides(i) \/ OperatorSnoozes(i) \/ TimePasses(i)
      PROVE  TypeOK'
  <2>1. row' \in [Ids -> Row]
    BY <1>1, StoreTypes DEF OperatorDecides, OperatorSnoozes, TimePasses
  <2> QED
    BY <1>1, <2>1 DEF OperatorDecides, OperatorSnoozes, TimePasses, TableStep, Moves
<1>2. ASSUME NEW v \in Vms, OtherLocks(v) \/ LockEnds(v)
      PROVE  TypeOK'
  BY <1>2, DisturbTypes DEF OtherLocks, LockEnds
<1>3. CASE LeaseEnds
  BY <1>3 DEF LeaseEnds, LeaseLapses, Lease
<1>4. CASE WindowOpens \/ WindowCloses
  BY <1>4, DisturbTypes DEF WindowOpens, WindowCloses
<1> QED
  BY <1>1, <1>2, <1>3, <1>4

\* The start and the end of an agent keep them.
LEMMA ProcessTypes ==
  ASSUME TypeOK, NEW a \in Agents,
         AcquireLease(a) \/ FinishLease(a) \/ Stop(a) \/ Crash(a)
  PROVE  TypeOK'
<1> USE DEF TypeOK
<1>1. Starts(a) => trouble' \in 0 .. MaxTrouble
  BY DisturbTypes DEF Starts
<1>2. CASE AcquireLease(a) \/ FinishLease(a)
  <2>1. agent' \in [Agents -> Agent]
    BY <1>2, AgentTypes DEF AcquireLease, FinishLease
  <2>2. lease' \in Lease
    BY <1>2, LeaseTypes DEF AcquireLease, FinishLease
  <2> QED
    BY <1>1, <1>2, <2>1, <2>2 DEF AcquireLease, FinishLease
<1>3. CASE Stop(a) \/ Crash(a)
  <2>1. agent' \in [Agents -> Agent]
    BY <1>3, AgentTypes DEF Stop, Crash
  <2>2. lease' \in Lease
    BY <1>3, LeaseTypes DEF Stop, Crash
  <2> QED
    BY <1>3, <2>1, <2>2, DisturbTypes DEF Stop, Crash
<1> QED
  BY <1>2, <1>3

\* A step of the tick keeps them.
LEMMA TickTypes ==
  ASSUME TypeOK, NEW a \in Agents,
         \/ Tick(a) \/ Wake(a) \/ List(a) \/ Finish(a) \/ Abandon(a)
         \/ \E i \in Ids : Refuse(a, i) \/ Skip(a, i) \/ Lock(a, i)
         \/ RecordRefusal(a) \/ Claim(a) \/ Execute(a) \/ Record(a)
  PROVE  TypeOK'
<1> USE DEF TypeOK
<1>1. \A i \in Ids : Unlocked(i) \in [Vms -> Ids \cup {Free, Elsewhere}]
  BY DEF Unlocked
<1>2. agent[a].item \in Ids
  BY AgentTypes
<1>3. CASE Tick(a)
  <2>1. row' \in [Ids -> Row]
    BY <1>3, StoreTypes DEF Tick
  <2>2. agent' \in [Agents -> Agent]
    BY <1>3, AgentTypes DEF Tick
  <2> QED
    BY <1>3, <2>1, <2>2 DEF Tick, TableStep, Moves
<1>4. CASE Wake(a)
  <2>1. row' \in [Ids -> Row]
    BY <1>4, StoreTypes DEF Wake
  <2>2. agent' \in [Agents -> Agent]
    BY <1>4, AgentTypes DEF Wake
  <2> QED
    BY <1>4, <2>1, <2>2 DEF Wake, TableStep, Moves
<1>5. CASE List(a) \/ Finish(a)
  <2>1. agent' \in [Agents -> Agent]
    BY <1>5, AgentTypes DEF Finish
  <2> QED
    BY <1>5, <2>1 DEF List, Finish
<1>6. CASE Abandon(a)
  <2>1. agent' \in [Agents -> Agent]
    BY <1>6, AgentTypes DEF Abandon
  <2> QED
    BY <1>1, <1>2, <1>6, <2>1, DisturbTypes DEF Abandon
<1>7. ASSUME NEW i \in Ids, Refuse(a, i) \/ Skip(a, i) \/ Lock(a, i)
      PROVE  TypeOK'
  <2>1. CASE Refuse(a, i)
    <3>1. row' \in [Ids -> Row]
      BY <2>1, StoreTypes, ZenonT(30) DEF Refuse
    <3>2. \/ agent' = [agent EXCEPT ![a].todo = @ \ {i}, ![a].at = "refused", ![a].item = i]
          \/ agent' = [agent EXCEPT ![a].todo = @ \ {i}]
      BY <2>1 DEF Refuse
    <3>3. agent' \in [Agents -> Agent]
      BY <3>2, AgentTypes
    <3> QED
      BY <2>1, <3>1, <3>3 DEF Refuse
  <2>2. CASE Skip(a, i)
    BY <2>2, AgentTypes DEF Skip
  <2>3. CASE Lock(a, i)
    <3>1. agent' \in [Agents -> Agent]
      BY <2>3, AgentTypes DEF Lock
    <3> QED
      BY <2>3, <3>1 DEF Lock
  <2> QED
    BY <1>7, <2>1, <2>2, <2>3
<1>8. CASE RecordRefusal(a)
  <2>1. row' \in [Ids -> Row]
    BY <1>2, <1>8, StoreTypes DEF RecordRefusal, Outcomes
  <2>2. agent' \in [Agents -> Agent]
    BY <1>8, AgentTypes DEF RecordRefusal
  <2> QED
    BY <1>8, <2>1, <2>2 DEF RecordRefusal
<1>9. CASE Claim(a)
  <2>1. row' \in [Ids -> Row]
    BY <1>2, <1>9, StoreTypes DEF Claim
  <2>2. lock' \in [Vms -> Ids \cup {Free, Elsewhere}]
    BY <1>1, <1>2, <1>9 DEF Claim
  <2>3. agent' \in [Agents -> Agent]
    BY <1>9, AgentTypes DEF Claim
  <2> QED
    BY <1>9, <2>1, <2>2, <2>3 DEF Claim
<1>10. CASE Execute(a)
  <2>1. agent' \in [Agents -> Agent]
    BY <1>10, AgentTypes DEF Execute
  <2> QED
    BY <1>2, <1>10, <2>1 DEF Execute
<1>11. CASE Record(a)
  <2>1. row' \in [Ids -> Row]
    BY <1>2, <1>11, StoreTypes DEF Record, Outcomes
  <2>2. agent' \in [Agents -> Agent]
    BY <1>11, AgentTypes DEF Record
  <2> QED
    BY <1>1, <1>2, <1>11, <2>1, <2>2 DEF Record
<1> QED
  BY <1>3, <1>4, <1>5, <1>6, <1>7, <1>8, <1>9, <1>10, <1>11

\* Every step keeps the types.
LEMMA StepTypes == TypeOK /\ [Next]_proposalVars => TypeOK'
<1> SUFFICES ASSUME TypeOK, [Next]_proposalVars PROVE TypeOK'
  OBVIOUS
<1>1. CASE UNCHANGED proposalVars
  BY <1>1 DEF TypeOK
<1>2. CASE \E f \in Filers : FilerStep(f)
  BY <1>2, FilerTypes
<1>3. ASSUME NEW a \in Agents, AgentStep(a) \/ Stop(a) \/ Crash(a) \/ Abandon(a)
      PROVE  TypeOK'
  BY <1>3, ProcessTypes, TickTypes DEF AgentStep
<1> QED
  BY <1>1, <1>2, <1>3, WorldTypes DEF Next

\* The type invariant of the proposals.
THEOREM ProposalsTypeCorrect == Spec => []TypeOK
  BY InitTypes, StepTypes, PTL DEF Spec

-----------------------------------------------------------------------------
(* Execution *)

Work == {"refused", "claimed", "ran"}

\* What is claimed was approved; what is not claimed has not run.  An agent at
\* work on a proposal has claimed it, alone, and its outcome is still open.
Custody ==
  /\ \A i \in Ids :
       /\ row[i].claimed => Is(i, "approved") /\ KeyOf[i] \in ActionKeys
       /\ ~row[i].claimed => runs[i] = 0 /\ row[i].outcome = "none"
       /\ runs[i] <= 1
       /\ row[i].outcome = "success" => runs[i] = 1
  /\ \A a \in Agents : agent[a].at \in Work =>
       /\ row[agent[a].item].claimed /\ row[agent[a].item].outcome = "none"
       /\ runs[agent[a].item] = IF agent[a].at = "ran" THEN 1 ELSE 0
  /\ \A a, b \in Agents :
       agent[a].at \in Work /\ agent[b].at \in Work /\ agent[a].item = agent[b].item => a = b

\* A step on the table that neither claims nor records.
Quiet ==
  \A i \in Ids :
    /\ row'[i].claimed = row[i].claimed /\ row'[i].outcome = row[i].outcome
    /\ row[i].status \in {"approved", "rejected", "expired"} => row'[i].status = row[i].status
    /\ row[i].status # "absent" => row'[i].status # "absent"

\* The agents at work stay so; WorkShrinks: or stop.
WorkSame    == \A a \in Agents : /\ agent'[a].at \in Work <=> agent[a].at \in Work
                                 /\ agent[a].at \in Work => /\ agent'[a].at = agent[a].at
                                                            /\ agent'[a].item = agent[a].item
WorkShrinks == \A a \in Agents : agent'[a].at \in Work => /\ agent'[a].at = agent[a].at
                                                          /\ agent'[a].item = agent[a].item

\* How a step leaves its agent; the other agents are left alone.
Leaves(a, at, item) == /\ agent'[a].at = at /\ agent'[a].item = item
                       /\ \A b \in Agents : b # a => agent'[b] = agent[b]

\* Where each kind of step leaves the agent.
LEMMA AgentFrame ==
  ASSUME agent \in [Agents -> Agent], NEW a \in Agents
  PROVE  /\ Sleeps(a) => Leaves(a, "idle", AnyId)
         /\ NextItem(a) => Leaves(a, "working", AnyId)
         /\ \A at : AgentGoes(a, at) => Leaves(a, at, agent[a].item)
         /\ agent' = [agent EXCEPT ![a] = NotUp] => Leaves(a, "down", AnyId)
         /\ Starts(a) => Leaves(a, "idle", AnyId)
         /\ List(a) => Leaves(a, "working", agent[a].item)
         /\ \A i : agent' = [agent EXCEPT ![a].todo = @ \ {i}]
                     => Leaves(a, agent[a].at, agent[a].item)
         /\ \A i, at : agent' = [agent EXCEPT ![a].todo = @ \ {i}, ![a].at = at, ![a].item = i]
                     => Leaves(a, at, i)
<1> USE DEF Leaves, Agent
<1>1. Sleeps(a) => Leaves(a, "idle", AnyId)
  BY DEF Sleeps
<1>2. NextItem(a) => Leaves(a, "working", AnyId)
  BY DEF NextItem
<1>3. \A at : AgentGoes(a, at) => Leaves(a, at, agent[a].item)
  BY DEF AgentGoes
<1>4. agent' = [agent EXCEPT ![a] = NotUp] => Leaves(a, "down", AnyId)
  BY DEF NotUp
<1>5. Starts(a) => Leaves(a, "idle", AnyId)
  BY DEF Starts, NotUp
<1>6. ASSUME List(a)
      PROVE  Leaves(a, "working", agent[a].item)
  <2>1. PICK listed : agent' = [agent EXCEPT ![a].at = "working", ![a].todo = listed]
    BY <1>6, Zenon DEF List
  <2> QED
    BY <2>1
<1>7. \A i : agent' = [agent EXCEPT ![a].todo = @ \ {i}] => Leaves(a, agent[a].at, agent[a].item)
  OBVIOUS
<1>8. \A i, at : agent' = [agent EXCEPT ![a].todo = @ \ {i}, ![a].at = at, ![a].item = i]
        => Leaves(a, at, i)
  OBVIOUS
<1> QED
  BY <1>1, <1>2, <1>3, <1>4, <1>5, <1>6, <1>7, <1>8

\* Every write but the claim and the outcome is quiet.
LEMMA QuietWrites ==
  ASSUME TypeOK, Custody
  PROVE  /\ UNCHANGED row => Quiet
         /\ \A k \in Keys, i \in Ids : Upsert(k, i) => Quiet
         /\ \A i \in Ids, v \in {"approved", "rejected"} : Decide(i, v) => Quiet
         /\ \A i \in Ids : Snooze(i) \/ WindowElapses(i) => Quiet
         /\ \A t \in SUBSET Pending : ExpireOverdue(t) => Quiet
         /\ \A t \in SUBSET Snoozed : WakeSnoozed(t) => Quiet
<1> USE DEF TypeOK, Quiet, Row
<1>1. UNCHANGED row => Quiet
  OBVIOUS
<1>2. \A k \in Keys, i \in Ids : Upsert(k, i) => Quiet
  <2> SUFFICES ASSUME NEW k \in Keys, NEW i \in Ids, Upsert(k, i) PROVE Quiet
    OBVIOUS
  <2>1. CASE row' = [row EXCEPT ![i] = NewRow] /\ row[i].status = "absent"
    <3>1. row[i].claimed = FALSE /\ row[i].outcome = "none"
      BY <2>1 DEF Custody
    <3>2. NewRow.claimed = FALSE /\ NewRow.outcome = "none" /\ NewRow.status = "pending"
      BY DEF NewRow, NoRow
    <3> QED
      BY <2>1, <3>1, <3>2
  <2> QED
    BY <2>1 DEF Upsert
<1>3. ASSUME NEW i \in Ids, NEW v \in {"approved", "rejected"}, Decide(i, v)
      PROVE  Quiet
  <2> DEFINE b == v = "rejected"
  <2>1. row' = [row EXCEPT ![i].status = v, ![i].recent = b] /\ row[i].status = "pending"
    BY <1>3 DEF Decide
  <2> HIDE DEF b
  <2> QED
    BY <2>1
<1>4. \A i \in Ids : Snooze(i) \/ WindowElapses(i) => Quiet
  BY DEF Snooze, WindowElapses
<1>5. \A t \in SUBSET Pending : ExpireOverdue(t) => Quiet
  BY DEF ExpireOverdue, Become, Pending
<1>6. \A t \in SUBSET Snoozed : WakeSnoozed(t) => Quiet
  BY DEF WakeSnoozed, Become, Snoozed
<1> QED
  BY <1>1, <1>2, <1>3, <1>4, <1>5, <1>6

\* The steps that touch neither the execution of a proposal nor an agent at work.
LEMMA QuietSteps ==
  ASSUME TypeOK, Custody,
         \/ UNCHANGED proposalVars
         \/ \E f \in Filers : FilerStep(f)
         \/ \E i \in Ids : OperatorDecides(i) \/ OperatorSnoozes(i) \/ TimePasses(i)
         \/ \E v \in Vms : OtherLocks(v) \/ LockEnds(v)
         \/ LeaseEnds \/ WindowOpens \/ WindowCloses
  PROVE  Quiet /\ UNCHANGED <<runs, agent>> /\ (trouble' = trouble \/ UNCHANGED row)
<1>1. CASE UNCHANGED proposalVars
  BY <1>1, QuietWrites
<1>2. ASSUME NEW f \in Filers, FilerStep(f)
      PROVE  Quiet /\ UNCHANGED <<runs, agent, trouble>>
  <2>1. CASE Look(f) \/ Check(f) \/ GiveUp(f)
    BY <2>1, QuietWrites DEF Look, Check, GiveUp
  <2>2. CASE File(f)
    <3>1. filer[f].key \in Keys /\ \A i \in Of(filer[f].key) : i \in Ids
      BY DEF TypeOK, Filer, Of
    <3> QED
      BY <2>2, <3>1, QuietWrites DEF File
  <2>3. CASE Enrich(f)
    <3>1. filer[f].key \in Keys /\ filer[f].id \in Ids
      BY DEF TypeOK, Filer
    <3> QED
      BY <2>3, <3>1, QuietWrites DEF Enrich
  <2> QED
    BY <1>2, <2>1, <2>2, <2>3 DEF FilerStep
<1>3. ASSUME NEW i \in Ids, OperatorDecides(i) \/ OperatorSnoozes(i) \/ TimePasses(i)
      PROVE  Quiet /\ UNCHANGED <<runs, agent, trouble>>
  BY <1>3, QuietWrites DEF OperatorDecides, OperatorSnoozes, TimePasses
<1>4. ASSUME NEW v \in Vms, OtherLocks(v) \/ LockEnds(v)
      PROVE  Quiet /\ UNCHANGED <<runs, agent, row>>
  BY <1>4, QuietWrites DEF OtherLocks, LockEnds
<1>5. CASE LeaseEnds \/ WindowOpens \/ WindowCloses
  BY <1>5, QuietWrites DEF LeaseEnds, WindowOpens, WindowCloses
<1> QED
  BY <1>1, <1>2, <1>3, <1>4, <1>5

\* The steps of an agent that is not at work.
LEMMA QuietAgentSteps ==
  ASSUME TypeOK, Custody, NEW a \in Agents,
         \/ AcquireLease(a) \/ FinishLease(a) \/ Stop(a)
         \/ Tick(a) \/ Wake(a) \/ List(a) \/ Finish(a)
         \/ \E i \in Ids : Skip(a, i) \/ Lock(a, i)
  PROVE  Quiet /\ UNCHANGED runs /\ WorkSame
<1>0. agent \in [Agents -> Agent]
  BY DEF TypeOK
<1>1. ASSUME agent[a].at \notin Work,
             \E at \in AgentAt \ Work, i \in Ids : Leaves(a, at, i)
      PROVE  WorkSame
  BY <1>1 DEF Leaves, WorkSame
<1>2. CASE AcquireLease(a) \/ FinishLease(a) \/ Stop(a)
  BY <1>0, <1>1, <1>2, AgentFrame, AgentTypes, AnyFacts, QuietWrites
  DEF AcquireLease, FinishLease, Stop, Work
<1>3. CASE Tick(a)
  BY <1>0, <1>1, <1>3, AgentFrame, AgentTypes, QuietWrites DEF Tick, Work
<1>4. CASE Wake(a)
  BY <1>0, <1>1, <1>4, AgentFrame, AgentTypes, AnyFacts, QuietWrites DEF Wake, Work
<1>5. CASE List(a)
  <2>1. agent[a].at = "listing" /\ UNCHANGED <<row, runs>>
    BY <1>5 DEF List
  <2> QED
    BY <1>0, <1>1, <1>5, <2>1, AgentFrame, AgentTypes, QuietWrites DEF Work
<1>6. CASE Finish(a)
  BY <1>0, <1>1, <1>6, AgentFrame, AnyFacts, QuietWrites DEF Finish, Work
<1>7. ASSUME NEW i \in Ids, Skip(a, i) \/ Lock(a, i)
      PROVE  Quiet /\ UNCHANGED runs /\ WorkSame
  <2>1. agent[a].at = "working" /\ UNCHANGED <<row, runs>>
    BY <1>7 DEF Skip, Lock, TakesUp
  <2>2. Leaves(a, "working", agent[a].item) \/ Leaves(a, "locked", i)
    BY <1>0, <1>7, <2>1, AgentFrame DEF Skip, Lock
  <2> QED
    BY <1>0, <1>1, <2>1, <2>2, AgentTypes, QuietWrites DEF Work
<1> QED
  BY <1>2, <1>3, <1>4, <1>5, <1>6, <1>7

\* An agent that dies or gives up changes no row.
LEMMA LeavingSteps ==
  ASSUME TypeOK, NEW a \in Agents, Crash(a) \/ Abandon(a)
  PROVE  /\ UNCHANGED <<row, runs>> /\ WorkShrinks /\ trouble' = trouble + 1
         /\ \A b \in Agents : b # a => agent'[b] = agent[b]
<1>1. agent \in [Agents -> Agent]
  BY DEF TypeOK
<1>2. Leaves(a, "down", AnyId) \/ Leaves(a, "idle", AnyId)
  BY <1>1, AgentFrame DEF Crash, Abandon
<1> QED
  BY <1>2 DEF Leaves, WorkShrinks, Work, Crash, Abandon, Disturbs

-----------------------------------------------------------------------------
\* Nothing has run at first.
LEMMA InitCustody == Init => Custody
  BY DEF Init, StoreInit, NoRow, NotUp, Custody, Work

\* A quiet step keeps custody.
LEMMA QuietCustody ==
  ASSUME TypeOK, Custody, Quiet, UNCHANGED runs, WorkShrinks
  PROVE  Custody'
<1>1. \A a \in Agents : agent[a].item \in Ids
  BY DEF TypeOK, Agent
<1>2. (\A i \in Ids :
         /\ row[i].claimed => Is(i, "approved") /\ KeyOf[i] \in ActionKeys
         /\ ~row[i].claimed => runs[i] = 0 /\ row[i].outcome = "none"
         /\ runs[i] <= 1
         /\ row[i].outcome = "success" => runs[i] = 1)'
  BY DEF Custody, Quiet
<1>3. (\A a \in Agents : agent[a].at \in Work =>
         /\ row[agent[a].item].claimed /\ row[agent[a].item].outcome = "none"
         /\ runs[agent[a].item] = IF agent[a].at = "ran" THEN 1 ELSE 0)'
  BY <1>1 DEF Custody, Quiet, WorkShrinks
<1>4. (\A a, b \in Agents :
        agent[a].at \in Work /\ agent[b].at \in Work /\ agent[a].item = agent[b].item => a = b)'
  BY DEF Custody, WorkShrinks
<1> QED
  BY <1>2, <1>3, <1>4 DEF Custody

\* Claiming, running and recording keep it.
LEMMA WorkCustody ==
  ASSUME TypeOK, Custody, NEW a \in Agents,
         \/ \E i \in Ids : Refuse(a, i)
         \/ RecordRefusal(a) \/ Claim(a) \/ Execute(a) \/ Record(a)
  PROVE  Custody'
<1> USE DEF TypeOK, Work
<1>0. agent[a].item \in Ids /\ \A b \in Agents : agent[b].item \in Ids
  BY DEF Agent
<1>1. ASSUME NEW i \in Ids, MarkStarted(i, TRUE), UNCHANGED runs,
             agent[a].at \notin Work,
             agent'[a].at \in {"refused", "claimed"}, agent'[a].item = i,
             \A b \in Agents : b # a => agent'[b] = agent[b]
      PROVE  Custody'
  <2>1. row' = [row EXCEPT ![i].claimed = TRUE] /\ Claimable(i)
    BY <1>1 DEF MarkStarted
  <2>2. row[i].claimed = FALSE /\ Is(i, "approved") /\ KeyOf[i] \in ActionKeys
    BY <2>1 DEF Claimable, Row
  <2>3. \A j \in Ids : /\ row'[j].status = row[j].status /\ row'[j].outcome = row[j].outcome
                       /\ j # i => row'[j].claimed = row[j].claimed
    BY <2>1 DEF Row
  <2>4. row'[i].claimed
    BY <2>1 DEF Row
  <2>5. runs[i] = 0 /\ row[i].outcome = "none"
    BY <2>2 DEF Custody
  <2>6. \A b \in Agents : agent[b].at \in Work => agent[b].item # i
    BY <2>2 DEF Custody
  <2> QED
    BY <1>0, <1>1, <2>2, <2>3, <2>4, <2>5, <2>6 DEF Custody
<1>2. ASSUME NEW o \in {"success", "failed"}, SetOutcome(agent[a].item, o), NextItem(a), UNCHANGED runs,
             agent[a].at \in Work, o = "success" => agent[a].at = "ran"
      PROVE  Custody'
  <2> DEFINE i == agent[a].item
  <2>1. \A j \in Ids : /\ row'[j].status = row[j].status /\ row'[j].claimed = row[j].claimed
                       /\ j # i => row'[j].outcome = row[j].outcome
    BY <1>2 DEF SetOutcome, Row
  <2>2. row'[i].outcome = o
    BY <1>0, <1>2 DEF SetOutcome, Row
  <2>3. row[i].claimed /\ (o = "success" => runs[i] = 1)
    BY <1>2 DEF Custody
  <2>4. agent'[a].at = "working" /\ \A b \in Agents : b # a => agent'[b] = agent[b]
    BY <1>2 DEF NextItem
  <2>5. \A b \in Agents : b # a /\ agent[b].at \in Work => agent[b].item # i
    BY <1>2 DEF Custody
  <2> HIDE DEF i
  <2>6. i \in Ids
    BY <1>0 DEF i
  <2> QED
    BY <1>0, <1>2, <2>1, <2>2, <2>3, <2>4, <2>5, <2>6 DEF Custody
<1>3. ASSUME NEW i \in Ids, Refuse(a, i)
      PROVE  Custody'
  <2>1. CASE MarkStarted(i, TRUE) /\ agent' = [agent EXCEPT ![a].todo = @ \ {i},
                                        ![a].at = "refused", ![a].item = i]
    <3>1. Leaves(a, "refused", i)
      BY <2>1, AgentFrame
    <3> QED
      BY <1>1, <1>3, <2>1, <3>1 DEF Refuse, TakesUp, Leaves
  <2>2. CASE MarkStarted(i, FALSE) /\ agent' = [agent EXCEPT ![a].todo = @ \ {i}]
    <3>1. UNCHANGED <<row, runs>>
      BY <1>3, <2>2 DEF Refuse, MarkStarted
    <3>2. WorkShrinks
      BY <2>2, AgentFrame DEF WorkShrinks, Leaves
    <3> QED
      BY <3>1, <3>2, QuietCustody, QuietWrites
  <2> QED
    BY <1>3, <2>1, <2>2 DEF Refuse
<1>4. CASE RecordRefusal(a)
  BY <1>2, <1>4 DEF RecordRefusal
<1>5. CASE Claim(a)
  <2>1. CASE MarkStarted(agent[a].item, TRUE) /\ AgentGoes(a, "claimed")
    BY <1>0, <1>1, <1>5, <2>1, AgentFrame DEF Claim, Leaves
  <2>2. CASE MarkStarted(agent[a].item, FALSE) /\ NextItem(a)
    BY <1>5, <2>2, QuietCustody, QuietWrites DEF Claim, NextItem, MarkStarted, WorkShrinks
  <2> QED
    BY <1>5, <2>1, <2>2 DEF Claim
<1>6. CASE Execute(a)
  <2> DEFINE i == agent[a].item
  <2>1. runs' = [runs EXCEPT ![i] = @ + 1] /\ row' = row
    BY <1>6 DEF Execute
  <2>2. agent'[a].at = "ran" /\ agent'[a].item = i /\ \A b \in Agents : b # a => agent'[b] = agent[b]
    BY <1>6 DEF Execute, AgentGoes
  <2>3. row[i].claimed /\ runs[i] = 0 /\ row[i].outcome = "none"
    BY <1>6 DEF Execute, Custody
  <2>4. \A b \in Agents : b # a /\ agent[b].at \in Work => agent[b].item # i
    BY <1>6 DEF Execute, Custody
  <2> HIDE DEF i
  <2>5. i \in Ids /\ agent[a].at \in Work
    BY <1>0, <1>6 DEF i, Execute
  <2>6. runs'[i] = 1 /\ \A j \in Ids : j # i => runs'[j] = runs[j]
    BY <2>1, <2>3, <2>5
  <2> QED
    BY <1>0, <2>1, <2>2, <2>3, <2>4, <2>5, <2>6 DEF Custody
<1>7. CASE Record(a)
  BY <1>2, <1>7 DEF Record
<1> QED
  BY <1>3, <1>4, <1>5, <1>6, <1>7

\* Every step keeps custody.
LEMMA StepCustody == TypeOK /\ Custody /\ [Next]_proposalVars => Custody'
<1> SUFFICES ASSUME TypeOK, Custody, [Next]_proposalVars PROVE Custody'
  OBVIOUS
<1>1. ASSUME Quiet, UNCHANGED <<runs, agent>>
      PROVE  Custody'
  BY <1>1, QuietCustody DEF WorkShrinks
<1>2. ASSUME NEW a \in Agents, AgentStep(a) \/ Stop(a)
      PROVE  Custody'
  <2>1. CASE \/ AcquireLease(a) \/ FinishLease(a) \/ Stop(a)
             \/ Tick(a) \/ Wake(a) \/ List(a) \/ Finish(a)
             \/ \E i \in Ids : Skip(a, i) \/ Lock(a, i)
    <3>1. Quiet /\ UNCHANGED runs /\ WorkSame
      BY <2>1, QuietAgentSteps
    <3> QED
      BY <3>1, QuietCustody DEF WorkSame, WorkShrinks
  <2>2. CASE \/ \E i \in Ids : Refuse(a, i)
             \/ RecordRefusal(a) \/ Claim(a) \/ Execute(a) \/ Record(a)
    BY <2>2, WorkCustody
  <2> QED
    BY <1>2, <2>1, <2>2 DEF AgentStep
<1>3. ASSUME NEW a \in Agents, Crash(a) \/ Abandon(a)
      PROVE  Custody'
  BY <1>3, LeavingSteps, QuietCustody, QuietWrites
<1> QED
  BY <1>1, <1>2, <1>3, QuietSteps DEF Next

\* The inductive invariant of execution.
LEMMA CustodyAlways == Spec => [](TypeOK /\ Custody)
<1>1. Init => TypeOK /\ Custody
  BY InitTypes, InitCustody
<1>2. TypeOK /\ Custody /\ [Next]_proposalVars => (TypeOK /\ Custody)'
  BY StepTypes, StepCustody
<1> QED
  BY <1>1, <1>2, PTL DEF Spec

\* No proposal is executed twice, or without an approval and a claim, and no
\* success is recorded of one that did not run.
THEOREM ProposalsExecutedOnce == Spec => []ExecutedOnce
<1>1. TypeOK /\ Custody => ExecutedOnce
  BY DEF TypeOK, Custody, ExecutedOnce
<1> QED
  BY <1>1, CustodyAlways, PTL

\* What is settled stays settled, step by step.
LEMMA StepDecisions ==
  ASSUME TypeOK, Custody, [Next]_proposalVars
  PROVE  \A i \in Ids :
           /\ row[i].status \in {"approved", "rejected", "expired"} => row'[i].status = row[i].status
           /\ row[i].claimed => row'[i].claimed
           /\ row[i].outcome # "none" => row'[i].outcome = row[i].outcome
<1> DEFINE Stands ==
      \A i \in Ids :
        /\ row[i].status \in {"approved", "rejected", "expired"} => row'[i].status = row[i].status
        /\ row[i].claimed => row'[i].claimed
        /\ row[i].outcome # "none" => row'[i].outcome = row[i].outcome
<1>1. Quiet => Stands
  BY DEF Quiet
<1>2. ASSUME NEW i \in Ids, NEW won \in BOOLEAN, MarkStarted(i, won)
      PROVE  Stands
  BY <1>2 DEF MarkStarted, TypeOK, Row
<1>3. ASSUME NEW a \in Agents, NEW o \in {"success", "failed"},
             SetOutcome(agent[a].item, o), agent[a].at \in Work
      PROVE  Stands
  <2>1. row[agent[a].item].outcome = "none"
    BY <1>3 DEF Custody
  <2> QED
    BY <1>3, <2>1 DEF SetOutcome, TypeOK, Row
<1> HIDE DEF Stands
<1>4. ASSUME NEW a \in Agents, AgentStep(a) \/ Stop(a) \/ Crash(a) \/ Abandon(a)
      PROVE  Stands
  <2>1. CASE \/ AcquireLease(a) \/ FinishLease(a) \/ Stop(a)
             \/ Tick(a) \/ Wake(a) \/ List(a) \/ Finish(a)
             \/ \E i \in Ids : Skip(a, i) \/ Lock(a, i)
    BY <1>1, <2>1, QuietAgentSteps
  <2>2. CASE Crash(a) \/ Abandon(a)
    BY <1>1, <2>2, LeavingSteps, QuietWrites
  <2>3. CASE (\E i \in Ids : Refuse(a, i)) \/ Claim(a)
    <3>1. agent[a].item \in Ids
      BY DEF TypeOK, Agent
    <3> QED
      BY <1>2, <2>3, <3>1 DEF Refuse, Claim
  <2>4. CASE RecordRefusal(a) \/ Record(a)
    BY <1>3, <2>4 DEF RecordRefusal, Record, Work
  <2>5. CASE Execute(a)
    BY <1>1, <2>5, QuietWrites DEF Execute
  <2> QED
    BY <1>4, <2>1, <2>2, <2>3, <2>4, <2>5 DEF AgentStep
<1>5. Stands
  BY <1>1, <1>4, QuietSteps DEF Next
<1> QED
  BY <1>5 DEF Stands

\* A decision, a claim and an outcome are final.
THEOREM ProposalDecisionsStand == Spec => DecisionsStand
<1>1. TypeOK /\ Custody /\ [Next]_proposalVars =>
        [\A i \in Ids :
           /\ row[i].status \in {"approved", "rejected", "expired"} => row'[i].status = row[i].status
           /\ row[i].claimed => row'[i].claimed
           /\ row[i].outcome # "none" => row'[i].outcome = row[i].outcome]_proposalVars
  BY StepDecisions
<1> QED
  BY <1>1, CustodyAlways, PTL DEF Spec, DecisionsStand

-----------------------------------------------------------------------------
(* No approval is lost but to a disturbance *)

\* A step leaves no more proposals stranded than it is a disturbance.
LEMMA StepStranded ==
  ASSUME TypeOK, Custody, [Next]_proposalVars
  PROVE  \/ Stranded' \subseteq Stranded /\ trouble' >= trouble
         \/ \E i \in Ids : Stranded' \subseteq Stranded \cup {i} /\ trouble' = trouble + 1
<1> USE DEF Work
<1>0. /\ \A a \in Agents : agent[a].item \in Ids
      /\ trouble \in Nat
  BY ProposalsAssumption DEF TypeOK, Agent
<1>1. trouble' = trouble \/ trouble' = trouble + 1
  <2>1. CASE UNCHANGED proposalVars
    BY <2>1
  <2>2. ASSUME NEW f \in Filers, FilerStep(f)
        PROVE  trouble' = trouble
    BY <2>2 DEF FilerStep, Look, Check, File, Enrich, GiveUp
  <2>3. ASSUME NEW i \in Ids, OperatorDecides(i) \/ OperatorSnoozes(i) \/ TimePasses(i)
        PROVE  trouble' = trouble
    BY <2>3 DEF OperatorDecides, OperatorSnoozes, TimePasses
  <2>4. ASSUME NEW a \in Agents, AgentStep(a) \/ Stop(a) \/ Crash(a) \/ Abandon(a)
        PROVE  trouble' = trouble \/ trouble' = trouble + 1
    BY <2>4 DEF AgentStep, AcquireLease, FinishLease, Starts, Tick, Wake, List, Finish,
       Refuse, Skip, Lock, RecordRefusal, Claim, Execute, Record, Stop, Crash, Abandon, Disturbs
  <2>5. CASE \/ \E v \in Vms : OtherLocks(v) \/ LockEnds(v)
             \/ LeaseEnds \/ WindowOpens \/ WindowCloses
    BY <2>5 DEF OtherLocks, LockEnds, LeaseEnds, WindowOpens, WindowCloses, Disturbs
  <2> QED
    BY <2>1, <2>2, <2>3, <2>4, <2>5 DEF Next
<1>2. ASSUME Quiet, WorkSame
      PROVE  Stranded' \subseteq Stranded
  BY <1>2 DEF Stranded, InHand, Quiet, WorkSame
<1>3. ASSUME NEW a \in Agents, Crash(a) \/ Abandon(a)
      PROVE  Stranded' \subseteq Stranded \cup {agent[a].item} /\ trouble' = trouble + 1
  BY <1>3, LeavingSteps DEF Stranded, InHand
<1>4. ASSUME NEW a \in Agents, NEW i \in Ids, MarkStarted(i, TRUE),
             agent[a].at \notin Work,
             agent'[a].at \in Work, agent'[a].item = i,
             \A b \in Agents : b # a => agent'[b] = agent[b]
      PROVE  Stranded' \subseteq Stranded
  <2>1. \A j \in Ids : j # i => row'[j] = row[j]
    BY <1>4 DEF MarkStarted, TypeOK
  <2>2. i \notin Stranded'
    BY <1>4 DEF Stranded, InHand
  <2> QED
    BY <1>4, <2>1, <2>2 DEF Stranded, InHand
<1>5. ASSUME NEW a \in Agents, NEW o \in {"success", "failed"},
             SetOutcome(agent[a].item, o), NextItem(a)
      PROVE  Stranded' \subseteq Stranded
  <2> DEFINE i == agent[a].item
  <2>1. row'[i].outcome = o /\ \A j \in Ids : j # i => row'[j] = row[j]
    BY <1>0, <1>5 DEF SetOutcome, TypeOK, Row
  <2>2. Leaves(a, "working", AnyId)
    BY <1>5, AgentFrame DEF TypeOK
  <2> HIDE DEF i
  <2>3. i \notin Stranded'
    BY <2>1 DEF Stranded
  <2>4. \A j \in Ids : j # i /\ InHand(j) => InHand(j)'
    BY <2>2 DEF InHand, Leaves, i
  <2> QED
    BY <2>1, <2>3, <2>4 DEF Stranded
<1>6. ASSUME NEW a \in Agents, AgentStep(a) \/ Stop(a)
      PROVE  Stranded' \subseteq Stranded
  <2>1. CASE \/ AcquireLease(a) \/ FinishLease(a) \/ Stop(a)
             \/ Tick(a) \/ Wake(a) \/ List(a) \/ Finish(a)
             \/ \E i \in Ids : Skip(a, i) \/ Lock(a, i)
    BY <1>2, <2>1, QuietAgentSteps
  <2>2. ASSUME NEW i \in Ids, Refuse(a, i)
        PROVE  Stranded' \subseteq Stranded
    <3>1. CASE MarkStarted(i, TRUE) /\ agent' = [agent EXCEPT ![a].todo = @ \ {i},
                                          ![a].at = "refused", ![a].item = i]
      <4>1. Leaves(a, "refused", i)
        BY <3>1, AgentFrame DEF TypeOK
      <4> QED
        BY <1>4, <2>2, <3>1, <4>1 DEF Refuse, TakesUp, Leaves
    <3>2. CASE MarkStarted(i, FALSE) /\ agent' = [agent EXCEPT ![a].todo = @ \ {i}]
      <4>1. Leaves(a, agent[a].at, agent[a].item)
        BY <3>2, AgentFrame DEF TypeOK
      <4>2. UNCHANGED row
        BY <3>2 DEF MarkStarted
      <4> QED
        BY <1>2, <4>1, <4>2, QuietWrites DEF Leaves, WorkSame
    <3> QED
      BY <2>2, <3>1, <3>2 DEF Refuse
  <2>3. CASE Claim(a)
    <3>1. CASE MarkStarted(agent[a].item, TRUE) /\ AgentGoes(a, "claimed")
      <4>1. Leaves(a, "claimed", agent[a].item)
        BY <3>1, AgentFrame DEF TypeOK
      <4> QED
        BY <1>0, <1>4, <2>3, <3>1, <4>1 DEF Claim, Leaves
    <3>2. CASE MarkStarted(agent[a].item, FALSE) /\ NextItem(a)
      <4>1. Leaves(a, "working", AnyId)
        BY <3>2, AgentFrame DEF TypeOK
      <4>2. UNCHANGED row /\ agent[a].at = "locked"
        BY <2>3, <3>2 DEF Claim, MarkStarted
      <4> QED
        BY <1>2, <4>1, <4>2, QuietWrites DEF Leaves, WorkSame
    <3> QED
      BY <2>3, <3>1, <3>2 DEF Claim
  <2>4. CASE RecordRefusal(a) \/ Record(a)
    BY <1>5, <2>4 DEF RecordRefusal, Record
  <2>5. CASE Execute(a)
    <3>1. Leaves(a, "ran", agent[a].item)
      BY <2>5, AgentFrame DEF Execute, TypeOK
    <3>2. UNCHANGED row /\ agent[a].at = "claimed"
      BY <2>5 DEF Execute
    <3> QED
      BY <3>1, <3>2 DEF Stranded, InHand, Leaves
  <2> QED
    BY <1>6, <2>1, <2>2, <2>3, <2>4, <2>5 DEF AgentStep
<1>7. ASSUME Quiet, UNCHANGED agent
      PROVE  Stranded' \subseteq Stranded
  BY <1>2, <1>7 DEF WorkSame
<1> QED
  BY <1>0, <1>1, <1>3, <1>6, <1>7, QuietSteps DEF Next

\* The count of stranded proposals stays within the disturbances.
LEMMA StepNotLost ==
  ASSUME TypeOK, Custody, ApprovalsAreNotLost, [Next]_proposalVars
  PROVE  ApprovalsAreNotLost'
<1>1. IsFiniteSet(Stranded) /\ Cardinality(Stranded) \in Nat
  BY StoreAssumption, FS_Subset, FS_CardinalityType DEF Stranded
<1>2. trouble \in Nat /\ trouble' \in Nat
  BY StepTypes, ProposalsAssumption DEF TypeOK
<1>3. CASE Stranded' \subseteq Stranded /\ trouble' >= trouble
  <2>1. Cardinality(Stranded') <= Cardinality(Stranded) /\ Cardinality(Stranded') \in Nat
    BY <1>1, <1>3, FS_Subset, FS_CardinalityType
  <2> QED
    BY <1>1, <1>2, <1>3, <2>1 DEF ApprovalsAreNotLost
<1>4. ASSUME NEW i \in Ids, Stranded' \subseteq Stranded \cup {i}, trouble' = trouble + 1
      PROVE  ApprovalsAreNotLost'
  <2>1. /\ IsFiniteSet(Stranded \cup {i})
        /\ Cardinality(Stranded \cup {i}) <= Cardinality(Stranded) + 1
        /\ Cardinality(Stranded \cup {i}) \in Nat
    BY <1>1, FS_AddElement, FS_CardinalityType
  <2>2. Cardinality(Stranded') <= Cardinality(Stranded \cup {i}) /\ Cardinality(Stranded') \in Nat
    BY <1>4, <2>1, FS_Subset, FS_CardinalityType
  <2> QED
    BY <1>1, <1>2, <1>4, <2>1, <2>2 DEF ApprovalsAreNotLost
<1> QED
  BY <1>3, <1>4, StepStranded

\* An approval is lost only to a crash or an exception, and to each at most one.
THEOREM ProposalApprovalsNotLost == Spec => []ApprovalsAreNotLost
<1>1. Init => ApprovalsAreNotLost
  <2> SUFFICES ASSUME Init PROVE ApprovalsAreNotLost
    OBVIOUS
  <2>1. Stranded = {}
    BY DEF Init, StoreInit, NoRow, Stranded
  <2> QED
    BY <2>1, FS_EmptySet DEF Init, ApprovalsAreNotLost
<1>2. TypeOK /\ Custody /\ ApprovalsAreNotLost /\ [Next]_proposalVars => ApprovalsAreNotLost'
  BY StepNotLost
<1> QED
  BY <1>1, <1>2, CustodyAlways, PTL DEF Spec

-----------------------------------------------------------------------------
(* Suppression *)

\* There is an open row to refresh, or no suppression.
MayFile(k) == Open(k) # {} \/ ~Suppressed(k)

\* A filer about to write has an open row to refresh or a key that is not
\* silenced, if nothing moved since it looked; one that investigates holds the
\* id of a row.
Watch ==
  /\ \A f \in Filers :
       filer[f].at = "write" /\ f \notin moved /\ filer[f].key \in ActionKeys
         => MayFile(filer[f].key)
  /\ \A f \in Filers : filer[f].at = "investigate" => ~Is(filer[f].id, "absent")

\* Rows stay, appear only in a filing, and a rejection is recent from the start.
Ages  == \A i \in Ids : /\ row'[i].status = row[i].status /\ row'[i].recent => row[i].recent
                        /\ ~Is(i, "absent") => row'[i].status # "absent"
NoNew == \A i \in Ids : Is(i, "absent") => row'[i].status = "absent"

\* The step does not move a row that filer g has looked at.
Spared(g) == g \notin Moves \/ \A i \in Ids : row'[i].status = row[i].status

\* Every write but an insert.
LEMMA AgingWrites ==
  ASSUME TypeOK
  PROVE  /\ UNCHANGED row => Ages /\ NoNew
         /\ \A i \in Ids, v \in {"approved", "rejected"} : Decide(i, v) => Ages /\ NoNew
         /\ \A i \in Ids : Snooze(i) \/ WindowElapses(i) => Ages /\ NoNew
         /\ \A t \in SUBSET Pending : ExpireOverdue(t) => Ages /\ NoNew
         /\ \A t \in SUBSET Snoozed : WakeSnoozed(t) => Ages /\ NoNew
         /\ \A i \in Ids, w \in BOOLEAN : MarkStarted(i, w) => Ages /\ NoNew
         /\ \A i \in Ids, o \in Outcomes : SetOutcome(i, o) => Ages /\ NoNew
<1> USE DEF TypeOK, Row, Ages, NoNew
<1>1. UNCHANGED row => Ages /\ NoNew
  OBVIOUS
<1>2. ASSUME NEW i \in Ids, NEW v \in {"approved", "rejected"}, Decide(i, v)
      PROVE  Ages /\ NoNew
  <2> DEFINE b == v = "rejected"
  <2>1. row' = [row EXCEPT ![i].status = v, ![i].recent = b] /\ row[i].status = "pending"
    BY <1>2 DEF Decide
  <2> HIDE DEF b
  <2> QED
    BY <2>1
<1>3. \A i \in Ids : Snooze(i) \/ WindowElapses(i) => Ages /\ NoNew
  BY DEF Snooze, WindowElapses
<1>4. \A t \in SUBSET Pending : ExpireOverdue(t) => Ages /\ NoNew
  BY DEF ExpireOverdue, Become, Pending
<1>5. \A t \in SUBSET Snoozed : WakeSnoozed(t) => Ages /\ NoNew
  BY DEF WakeSnoozed, Become, Snoozed
<1>6. \A i \in Ids, w \in BOOLEAN : MarkStarted(i, w) => Ages /\ NoNew
  BY DEF MarkStarted
<1>7. \A i \in Ids, o \in Outcomes : SetOutcome(i, o) => Ages /\ NoNew
  BY DEF SetOutcome
<1> QED
  BY <1>1, <1>2, <1>3, <1>4, <1>5, <1>6, <1>7

\* A step that is no filer's: filers keep their places, and those at "write" are
\* marked if their rows move.
LEMMA OtherSteps ==
  ASSUME TypeOK, [Next]_proposalVars, ~\E f \in Filers : FilerStep(f)
  PROVE  /\ Ages /\ NoNew /\ UNCHANGED filer
         /\ moved' = moved \cup Moves \/ (moved' = moved /\ \A i \in Ids : row'[i].status = row[i].status)
<1> DEFINE Goal == /\ Ages /\ NoNew /\ UNCHANGED filer
                   /\ \/ moved' = moved \cup Moves
                      \/ moved' = moved /\ \A i \in Ids : row'[i].status = row[i].status
<1>0. \A a \in Agents : agent[a].item \in Ids
  BY DEF TypeOK, Agent
<1>1. CASE UNCHANGED proposalVars
  BY <1>1, AgingWrites
<1>2. ASSUME NEW i \in Ids, OperatorDecides(i) \/ OperatorSnoozes(i)
      PROVE  Goal
  BY <1>2, AgingWrites DEF OperatorDecides, OperatorSnoozes, TableStep
<1>3. ASSUME NEW i \in Ids, TimePasses(i)
      PROVE  Goal
  BY <1>3, AgingWrites DEF TimePasses, WindowElapses, TypeOK, Row
<1>4. CASE \/ \E v \in Vms : OtherLocks(v) \/ LockEnds(v)
           \/ LeaseEnds \/ WindowOpens \/ WindowCloses
  BY <1>4, AgingWrites DEF OtherLocks, LockEnds, LeaseEnds, WindowOpens, WindowCloses
<1>5. ASSUME NEW a \in Agents, AgentStep(a) \/ Stop(a) \/ Crash(a) \/ Abandon(a)
      PROVE  Goal
  <2>1. CASE \/ AcquireLease(a) \/ FinishLease(a) \/ Stop(a) \/ Crash(a) \/ Abandon(a)
             \/ List(a) \/ Finish(a) \/ Execute(a) \/ \E i \in Ids : Skip(a, i) \/ Lock(a, i)
    BY <2>1, AgingWrites
    DEF AcquireLease, FinishLease, Stop, Crash, Abandon, List, Finish, Execute, Skip, Lock
  <2>2. CASE Tick(a)
    BY <2>2, AgingWrites DEF Tick, TableStep
  <2>3. CASE Wake(a)
    BY <2>3, AgingWrites DEF Wake, TableStep
  <2>4. ASSUME NEW i \in Ids, NEW w \in BOOLEAN, MarkStarted(i, w), UNCHANGED <<filer, moved>>
        PROVE  Goal
    BY <2>4, AgingWrites DEF MarkStarted, TypeOK, Row
  <2>5. ASSUME NEW i \in Ids, NEW o \in {"success", "failed"}, SetOutcome(i, o), UNCHANGED <<filer, moved>>
        PROVE  Goal
    BY <2>5, AgingWrites DEF SetOutcome, TypeOK, Row, Outcomes
  <2> HIDE DEF Goal
  <2>6. CASE (\E i \in Ids : Refuse(a, i)) \/ Claim(a)
    BY <1>0, <2>4, <2>6 DEF Refuse, Claim
  <2>7. CASE RecordRefusal(a) \/ Record(a)
    BY <1>0, <2>5, <2>7 DEF RecordRefusal, Record
  <2>8. \/ AcquireLease(a) \/ FinishLease(a) \/ Stop(a) \/ Crash(a) \/ Abandon(a)
        \/ List(a) \/ Finish(a) \/ Execute(a) \/ Tick(a) \/ Wake(a)
        \/ RecordRefusal(a) \/ Claim(a) \/ Record(a)
        \/ \E i \in Ids : Refuse(a, i) \/ Skip(a, i) \/ Lock(a, i)
    BY <1>5 DEF AgentStep
  <2> QED
    BY <2>1, <2>2, <2>3, <2>6, <2>7, <2>8 DEF Goal
<1> QED
  BY <1>1, <1>2, <1>3, <1>4, <1>5 DEF Next

\* A filer's step, seen from the table and from the other filers.
LEMMA FilingSteps ==
  ASSUME TypeOK, Watch, NEW f \in Filers, FilerStep(f)
  PROVE  /\ Ages
         /\ NoNew \/ (File(f) /\ Open(filer[f].key) = {})
         /\ \A g \in Filers : g # f => filer'[g] = filer[g]
         /\ \A g \in Filers : g # f /\ g \notin moved'
              => g \notin moved /\ Spared(g)
<1> USE DEF Is
<1>1. CASE Look(f) \/ Check(f) \/ GiveUp(f)
  BY <1>1, AgingWrites DEF Look, Check, GiveUp, FilerGoes, TypeOK, Spared
<1>2. CASE File(f)
  <2>1. PICK i \in Of(filer[f].key) : Upsert(filer[f].key, i)
    BY <1>2 DEF File
  <2>2. i \in Ids
    BY DEF Of
  <2>3. Ages
    BY <2>1, <2>2, AgingWrites DEF Upsert, Ages, TypeOK, Row, NewRow, NoRow
  <2>4. NoNew \/ Open(filer[f].key) = {}
    BY <2>1, AgingWrites DEF Upsert
  <2> QED
    BY <1>2, <2>3, <2>4 DEF File, TypeOK, Spared
<1>3. CASE Enrich(f)
  <2>1. UNCHANGED row
    BY <1>3 DEF Enrich, Upsert, Watch
  <2> QED
    BY <1>3, <2>1, AgingWrites DEF Enrich, TableStep, TypeOK, Spared
<1> QED
  BY <1>1, <1>2, <1>3 DEF FilerStep

\* Where no row of a key moves and no rejection gets younger, the key stays open
\* or unsilenced.
LEMMA KeyStays ==
  ASSUME TypeOK, NEW k \in Keys, Ages,
         \A i \in Of(k) : row'[i].status = row[i].status,
         MayFile(k)
  PROVE  MayFile(k)'
<1>1. Open(k)' = Open(k)
  BY DEF Open, Of
<1>2. Rejections(k)' = Rejections(k)
  BY DEF Rejections, Of
<1>3. Suppressed(k)' => Suppressed(k)
  BY <1>2 DEF Suppressed, Ages, Rejections, Of
<1> QED
  BY <1>1, <1>3 DEF MayFile

\* Nobody files at first.
LEMMA InitWatch == Init => Watch
  BY DEF Init, NotFiling, Watch

\* A filer that stays where it is keeps its part of the watch.
LEMMA FilerStays ==
  ASSUME TypeOK, Watch, NEW g \in Filers, filer'[g] = filer[g], Ages,
         g \notin moved' => g \notin moved /\ Spared(g)
  PROVE  /\ filer'[g].at = "write" /\ g \notin moved' /\ filer'[g].key \in ActionKeys
              => MayFile(filer[g].key)'
         /\ filer'[g].at = "investigate" => row'[filer'[g].id].status # "absent"
<1>0. filer[g].key \in Keys /\ filer[g].id \in Ids
  BY DEF TypeOK, Filer
<1>1. ASSUME filer'[g].at = "write", g \notin moved', filer'[g].key \in ActionKeys
      PROVE  MayFile(filer[g].key)'
  <2>1. PICK k \in Keys : k = filer[g].key
    BY <1>0
  <2>2. MayFile(k)
    BY <1>1, <2>1 DEF Watch
  <2>3. \A i \in Of(k) : row'[i].status = row[i].status
    BY <1>1, <2>1 DEF Spared, Moves, Of
  <2>4. MayFile(k)'
    BY <2>2, <2>3, KeyStays
  <2>5. filer'[g].key = k
    BY <2>1
  <2> QED
    BY <2>4, <2>5 DEF MayFile, Open, Suppressed, Rejections, Of
<1>2. filer'[g].at = "investigate" => row'[filer'[g].id].status # "absent"
  BY <1>0 DEF Watch, Ages
<1> QED
  BY <1>1, <1>2

\* A filer that goes on takes up its part of the watch.
LEMMA FilerGoesOn ==
  ASSUME TypeOK, Watch, NEW f \in Filers, FilerStep(f)
  PROVE  /\ filer'[f].at = "write" /\ f \notin moved' /\ filer'[f].key \in ActionKeys
              => MayFile(filer[f].key)'
         /\ filer'[f].at = "investigate" => row'[filer'[f].id].status # "absent"
<1> USE DEF TypeOK, Filer
<1>1. CASE Look(f)
  <2>1. PICK k \in Keys : filer' = [filer EXCEPT ![f].key = k,
                             ![f].at = IF k \in ActionKeys /\ Open(k) = {} THEN "check" ELSE "write"]
    BY <1>1 DEF Look
  <2>2. /\ filer'[f].key = k /\ row' = row /\ filer'[f].at # "investigate"
        /\ filer'[f].at = "write" /\ k \in ActionKeys => Open(k) # {}
    BY <1>1, <2>1 DEF Look
  <2> QED
    BY <2>2 DEF MayFile, Open, Of
<1>2. CASE Check(f)
  <2>1. /\ row' = row /\ filer'[f].at # "investigate"
        /\ filer'[f].at = "write" => ~Suppressed(filer[f].key) /\ filer'[f].key = filer[f].key
    BY <1>2 DEF Check, FilerGoes, NotFiling
  <2> QED
    BY <2>1 DEF MayFile, Suppressed, Rejections, Of
<1>3. CASE File(f)
  <2>1. PICK i \in Of(filer[f].key) :
          /\ IF Open(filer[f].key) = {} THEN Fresh(filer[f].key, i) ELSE i \in Open(filer[f].key)
          /\ Upsert(filer[f].key, i)
          /\ \/ filer' = [filer EXCEPT ![f] = NotFiling]
             \/ filer' = [filer EXCEPT ![f].at = "investigate", ![f].id = i]
    BY <1>3 DEF File
  <2>2. i \in Ids
    BY DEF Of
  <2>3. row'[i].status # "absent"
    BY <2>1, <2>2 DEF Upsert, Fresh, Open, NewRow, NoRow
  <2>4. filer'[f].at # "write" /\ (filer'[f].at = "investigate" => filer'[f].id = i)
    BY <2>1 DEF NotFiling
  <2> QED
    BY <2>3, <2>4
<1>4. CASE Enrich(f) \/ GiveUp(f)
  BY <1>4 DEF Enrich, GiveUp, NotFiling
<1> QED
  BY <1>1, <1>2, <1>3, <1>4 DEF FilerStep

\* Every step keeps the watch.
LEMMA StepWatch == TypeOK /\ Watch /\ [Next]_proposalVars => Watch'
<1> SUFFICES ASSUME TypeOK, Watch, [Next]_proposalVars, NEW g \in Filers
             PROVE  /\ filer'[g].at = "write" /\ g \notin moved' /\ filer'[g].key \in ActionKeys
                         => MayFile(filer[g].key)'
                    /\ filer'[g].at = "investigate" => row'[filer'[g].id].status # "absent"
  BY DEF Watch
<1>1. CASE ~\E f \in Filers : FilerStep(f)
  <2>1. /\ Ages /\ filer' = filer
        /\ moved' = moved \cup Moves \/ (moved' = moved /\ \A i \in Ids : row'[i].status = row[i].status)
    BY <1>1, OtherSteps
  <2>2. g \notin moved' => g \notin moved /\ Spared(g)
    BY <2>1 DEF Spared
  <2>3. filer'[g] = filer[g]
    BY <2>1
  <2> QED
    BY <2>1, <2>2, <2>3, FilerStays
<1>2. ASSUME NEW f \in Filers, FilerStep(f), g # f
      PROVE  /\ filer'[g].at = "write" /\ g \notin moved' /\ filer'[g].key \in ActionKeys
                  => MayFile(filer[g].key)'
             /\ filer'[g].at = "investigate" => row'[filer'[g].id].status # "absent"
  <2>1. /\ Ages /\ filer'[g] = filer[g]
        /\ g \notin moved' => g \notin moved /\ Spared(g)
    BY <1>2, FilingSteps
  <2> QED
    BY <2>1, FilerStays
<1>3. CASE FilerStep(g)
  BY <1>3, FilerGoesOn
<1> QED
  BY <1>1, <1>2, <1>3

\* A row for a silenced key comes from a filer whose rows moved under it.
LEMMA StepSuppression ==
  ASSUME TypeOK, Watch, [Next]_proposalVars, NEW i \in Ids,
         Is(i, "absent"), row'[i].status # "absent", KeyOf[i] \in ActionKeys,
         Cardinality({j \in Of(KeyOf[i]) : Is(j, "rejected")}) >= Threshold,
         \E j \in {j \in Of(KeyOf[i]) : Is(j, "rejected")} : row[j].recent
  PROVE  \E f \in moved : filer[f].at = "write" /\ filer[f].key = KeyOf[i]
<1>1. PICK f \in Filers : FilerStep(f)
  BY OtherSteps DEF NoNew
<1>2. File(f) /\ Open(filer[f].key) = {}
  BY <1>1, FilingSteps DEF NoNew
<1>3. filer[f].at = "write" /\ filer[f].key = KeyOf[i]
  <2>1. PICK j \in Of(filer[f].key) : Upsert(filer[f].key, j)
    BY <1>2 DEF File
  <2>2. i = j
    BY <2>1 DEF Upsert, TypeOK
  <2> QED
    BY <1>2, <2>1, <2>2 DEF File, Of
<1>4. Suppressed(KeyOf[i])
  BY DEF Suppressed, Rejections
<1>5. f \in moved
  BY <1>2, <1>3, <1>4 DEF Watch, MayFile
<1> QED
  BY <1>3, <1>5

\* A silenced key is proposed again only through the race of get_open,
\* is_suppressed and the upsert; an investigation never does it.
THEOREM ProposalSuppressionHolds == Spec => SuppressionHolds
<1>1. Init => TypeOK /\ Watch
  BY InitTypes, InitWatch
<1>2. TypeOK /\ Watch /\ [Next]_proposalVars => (TypeOK /\ Watch)'
  BY StepTypes, StepWatch
<1>3. TypeOK /\ Watch /\ [Next]_proposalVars =>
        [\A i \in Ids :
           LET k == KeyOf[i]
               silenced == {j \in Of(k) : Is(j, "rejected")}
           IN  ( /\ Is(i, "absent") /\ row'[i].status # "absent"
                 /\ k \in ActionKeys
                 /\ Cardinality(silenced) >= Threshold
                 /\ \E j \in silenced : row[j].recent )
               => \E f \in moved : filer[f].at = "write" /\ filer[f].key = k]_proposalVars
  BY StepSuppression
<1> QED
  BY <1>1, <1>2, <1>3, PTL DEF Spec, SuppressionHolds
=============================================================================
