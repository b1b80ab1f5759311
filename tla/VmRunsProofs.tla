---------------------------- MODULE VmRunsProofs ----------------------------
(***************************************************************************)
(* Theorems about VmRuns for any runs, processes, plans, overruns and      *)
(* number of faults: its types, and what a VM graph makes of its plan.     *)
(***************************************************************************)
EXTENDS VmRuns, TLAPS

\* The sets of stages and calls and the tuples that nearly every step needs.
USE DEF lockVars, runVars, workVars, OnVm, Active, Ended, GraphRuns,
        Ops, MidCall, Results, Moves, At

-----------------------------------------------------------------------------
(* The lock calls *)

\* A file operation of a lock call keeps the types of files and calls.
LEMMA LockStepType ==
  ASSUME LockTypeOK, NEW r \in Runs, LockStep(r)
  PROVE  LockTypeOK'
<1> USE LockerAssumption DEF LockTypeOK, LockFile
<1>0. KeyOf(r) \in Keys
  BY DEF KeyOf, Keys
<1> DEFINE f == file[KeyOf(r)]
<1>1. ASSUME NEW s \in MidCall \cup Results, GoesTo(r, s)
      PROVE  call' \in [Runs -> [op : Ops, at : MidCall \cup Results \cup {"idle"}]]
  BY <1>1 DEF GoesTo
<1>2. WithoutLock(r) \in MidCall \cup Results
  <2>1. call[r].op \in Ops
    OBVIOUS
  <2> QED
    BY <2>1 DEF WithoutLock
<1>3. WithLock(r, f) \in MidCall \cup Results
  BY DEF WithLock
<1>4. CASE Look(r)
  BY <1>0, <1>1, <1>2, <1>4 DEF Look
<1>5. CASE Read(r)
  BY <1>0, <1>1, <1>3, <1>5 DEF Read
<1>6. CASE Purge(r)
  BY <1>0, <1>1, <1>2, <1>6 DEF Purge
<1>7. CASE Open(r)
  <2>1. CASE f = NoFile
    <3>1. [by |-> r, full |-> FALSE, stale |-> FALSE] \in LockFile
      OBVIOUS
    <3>2. file' = [file EXCEPT ![KeyOf(r)] = [by |-> r, full |-> FALSE, stale |-> FALSE]]
      BY <1>7, <2>1 DEF Open
    <3>3. GoesTo(r, "write") /\ UNCHANGED tmp
      BY <1>7, <2>1 DEF Open
    <3> QED
      BY <1>0, <1>1, <3>1, <3>2, <3>3
  <2>2. CASE f # NoFile
    BY <1>7, <2>2 DEF Open
  <2> QED
    BY <2>1, <2>2
<1>8. CASE Write(r)
  <2>1. GoesTo(r, "granted") /\ UNCHANGED tmp
    BY <1>8 DEF Write
  <2>2. CASE f # NoFile /\ f.by = r
    <3>1. f \in LockFile
      BY <1>0, <2>2
    <3>2. [f EXCEPT !.full = TRUE] \in LockFile
      BY <3>1
    <3>3. file' = [file EXCEPT ![KeyOf(r)] = [f EXCEPT !.full = TRUE]]
      BY <1>8, <2>2 DEF Write
    <3> QED
      BY <1>0, <1>1, <2>1, <3>2, <3>3
  <2>3. CASE ~(f # NoFile /\ f.by = r)
    BY <1>1, <1>8, <2>1, <2>3 DEF Write
  <2> QED
    BY <2>2, <2>3
<1>9. CASE Stage(r)
  BY <1>0, <1>1, <1>9 DEF Stage
<1>10. CASE Replace(r)
  <2>1. CASE tmp[KeyOf(r)] = NoRun
    BY <1>1, <1>10, <2>1 DEF Replace
  <2>2. CASE tmp[KeyOf(r)] # NoRun
    <3> DEFINE g == [by |-> tmp[KeyOf(r)], full |-> TRUE, stale |-> FALSE]
    <3>1. g \in LockFile
      BY <1>0, <2>2
    <3>2. file' = [file EXCEPT ![KeyOf(r)] = g]
      BY <1>10, <2>2 DEF Replace
    <3>3. GoesTo(r, "granted") /\ tmp' = [tmp EXCEPT ![KeyOf(r)] = NoRun]
      BY <1>10, <2>2 DEF Replace
    <3> QED
      BY <1>0, <1>1, <3>1, <3>2, <3>3
  <2> QED
    BY <2>1, <2>2
<1>11. CASE Unlink(r)
  BY <1>0, <1>1, <1>11 DEF Unlink
<1> QED
  BY <1>4, <1>5, <1>6, <1>7, <1>8, <1>9, <1>10, <1>11 DEF LockStep

-----------------------------------------------------------------------------
(* The plan of a VM graph *)

\* ResultsFollowPlan and why it is kept up: an action under way is one of the
\* plan, nothing was done before the plan was settled, and only a dry run that
\* was handed no plan comes to plan_actions.
PlanKept ==
  \A r \in GraphRuns :
    /\ index[r] = Len(results[r]) /\ index[r] <= Len(plan[r])
    /\ \A i \in 1..index[r] : results[r][i].action = plan[r][i]
    /\ live[r] => approved[r] /\ plan[r] = given[r]
    /\ stage[r] = "acting" => index[r] < Len(plan[r])
    /\ stage[r] \in {"new", "lock", "locking", "discover", "drift", "planning"} => index[r] = 0
    /\ stage[r] \in {"planning", "preflight"} => ~approved[r]

\* The types of what is not the locker's.
RunTypeOK ==
  /\ stage \in [Runs -> {"new"} \cup Active \cup Ended]
  /\ live \in [Runs -> BOOLEAN]
  /\ given \in [Runs -> Plans]
  /\ approved \in [Runs -> BOOLEAN]
  /\ plan \in [Runs -> Plans]
  /\ index \in [Runs -> Nat]
  /\ results \in [Runs -> Seq(Outcome)]
  /\ logged \in [Runs -> Seq(BOOLEAN)]
  /\ locked \in [Runs -> BOOLEAN]
  /\ error \in [Runs -> BOOLEAN]
  /\ faults \in 0..MaxFaults

\* The first state is well typed and no plan has been touched.
LEMMA InitKept == Init => TypeOK /\ PlanKept
<1> SUFFICES ASSUME Init PROVE TypeOK /\ PlanKept
  OBVIOUS
<1> USE LockerAssumption, VmAssumption DEF Init
<1>1. LockTypeOK
  BY DEF LockInit, LockTypeOK, Idle
<1>2. RunTypeOK
  <2>1. <<>> \in Seq(Outcome) /\ <<>> \in Seq(BOOLEAN)
    OBVIOUS
  <2>2. results \in [Runs -> Seq(Outcome)] /\ logged \in [Runs -> Seq(BOOLEAN)]
    BY <2>1
  <2> QED
    BY <2>2 DEF RunTypeOK
<1>3. PlanKept
  <2>1. \A r \in Runs : /\ index[r] = 0 /\ ~live[r] /\ ~approved[r] /\ stage[r] = "new"
                       /\ results[r] = <<>> /\ plan[r] = <<>>
    OBVIOUS
  <2>2. Len(<<>>) = 0 /\ 1..0 = {}
    OBVIOUS
  <2>3. ASSUME NEW r \in GraphRuns
        PROVE  /\ index[r] = Len(results[r]) /\ index[r] <= Len(plan[r])
               /\ \A i \in 1..index[r] : results[r][i].action = plan[r][i]
               /\ ~live[r] /\ stage[r] = "new" /\ index[r] = 0
    <3>1. index[r] = 0 /\ results[r] = <<>> /\ plan[r] = <<>>
      BY <2>1
    <3>2. ~live[r] /\ stage[r] = "new"
      BY <2>1
    <3> HIDE DEF Init
    <3> QED
      BY <2>2, <3>1, <3>2
  <2> HIDE DEF Init
  <2> QED
    BY <2>3 DEF PlanKept
<1> QED
  BY <1>1, <1>2, <1>3 DEF TypeOK, RunTypeOK

\* A result for the next action of the plan keeps results and plan in step.
LEMMA YieldsKept ==
  ASSUME RunTypeOK, PlanKept, NEW r \in Runs, NEW ran \in BOOLEAN,
         index[r] < Len(plan[r]), r \in GraphRuns, Yields(r, ran)
  PROVE  /\ results' \in [Runs -> Seq(Outcome)] /\ index' \in [Runs -> Nat] /\ plan' = plan
         /\ \A q \in Runs : q # r => results'[q] = results[q] /\ index'[q] = index[q]
         /\ index'[r] = Len(results'[r]) /\ index'[r] <= Len(plan[r])
         /\ \A i \in 1..index'[r] : results'[r][i].action = plan[r][i]
<1> USE VmAssumption DEF RunTypeOK, Yields
<1> DEFINE new == [action |-> plan[r][index[r] + 1], ran |-> ran]
<1>1. /\ index[r] \in Nat /\ plan[r] \in Seq(Kinds) /\ results[r] \in Seq(Outcome)
      /\ index[r] = Len(results[r])
      /\ \A i \in 1..index[r] : results[r][i].action = plan[r][i]
  BY DEF PlanKept
<1>2. new \in Outcome
  <2>1. plan[r][index[r] + 1] \in Kinds
    BY <1>1
  <2> QED
    BY <2>1 DEF Outcome
<1>3. /\ results' = [results EXCEPT ![r] = Append(results[r], new)]
      /\ index' = [index EXCEPT ![r] = index[r] + 1]
  OBVIOUS
<1>4. Append(results[r], new) \in Seq(Outcome)
  BY <1>1, <1>2
<1>5. /\ Len(Append(results[r], new)) = index[r] + 1
      /\ Append(results[r], new)[index[r] + 1] = new
      /\ \A i \in 1..index[r] : Append(results[r], new)[i] = results[r][i]
  BY <1>1, <1>2
<1>6. results'[r] = Append(results[r], new) /\ index'[r] = index[r] + 1
  BY <1>3
<1>7. \A i \in 1..index'[r] : results'[r][i].action = plan[r][i]
  <2> SUFFICES ASSUME NEW i \in 1..(index[r] + 1) PROVE results'[r][i].action = plan[r][i]
    BY <1>6
  <2>1. CASE i = index[r] + 1
    BY <2>1, <1>5, <1>6
  <2>2. CASE i # index[r] + 1
    <3>1. i \in 1..index[r]
      BY <2>2, <1>1
    <3> QED
      BY <3>1, <1>1, <1>5, <1>6
  <2> QED
    BY <2>1, <2>2
<1> QED
  BY <1>1, <1>3, <1>4, <1>5, <1>6, <1>7

\* A lock call changes nothing of a run.
LEMMA LockStepKept ==
  ASSUME RunTypeOK, PlanKept,
         UNCHANGED <<stage, runVars, workVars, logged, locked, error, faults>>
  PROVE  RunTypeOK' /\ PlanKept'
  BY DEF RunTypeOK, PlanKept

\* A run moves on, its plan and its results left alone.
LEMMA MovesKept ==
  ASSUME RunTypeOK, PlanKept, NEW r \in Runs, NEW from,
         NEW to \in {"new"} \cup Active \cup Ended,
         Moves(r, from, to), UNCHANGED <<runVars, workVars, logged>>,
         to \in {"new", "lock", "locking", "discover", "drift", "planning"} =>
           from \in {"new", "lock", "locking", "discover", "drift", "planning"},
         r \in GraphRuns /\ to = "acting" => index[r] < Len(plan[r]),
         to \in {"planning", "preflight"} => ~approved[r]
  PROVE  /\ stage' \in [Runs -> {"new"} \cup Active \cup Ended]
         /\ PlanKept'
  BY DEF RunTypeOK, PlanKept

\* Starting a run gives it its plan.
LEMMA StartKept ==
  ASSUME RunTypeOK, PlanKept, NEW r \in Runs, Dispatch(r) \/ Begin(r)
  PROVE  RunTypeOK' /\ PlanKept'
<1> USE VmAssumption
<1>1. CASE Begin(r)
  <2>1. live' = [live EXCEPT ![r] = TRUE] /\ r \notin GraphRuns
    BY <1>1 DEF Begin
  <2>2. /\ stage' = [stage EXCEPT ![r] = "lock"]
        /\ UNCHANGED <<given, approved, workVars, logged, locked, error, faults>>
    BY <1>1 DEF Begin
  <2>3. RunTypeOK'
    BY <2>1, <2>2 DEF RunTypeOK
  <2>4. UNCHANGED <<given, approved, plan, index, results>>
    BY <2>2
  <2>5. \A q \in GraphRuns : q # r /\ stage'[q] = stage[q] /\ live'[q] = live[q]
    BY <2>1, <2>2 DEF RunTypeOK
  <2>6. PlanKept'
    BY <2>4, <2>5 DEF PlanKept
  <2> QED
    BY <2>3, <2>6
<1>2. CASE Dispatch(r)
  <2>1. PICK l \in BOOLEAN, known \in BOOLEAN, p \in Plans :
          /\ live' = [live EXCEPT ![r] = l]
          /\ given' = [given EXCEPT ![r] = p]
          /\ plan' = [plan EXCEPT ![r] = p]
          /\ approved' = [approved EXCEPT ![r] = known \/ l]
          /\ error' = [error EXCEPT ![r] = l /\ ~known]
    BY <1>2 DEF Dispatch
  <2>2. PICK a \in BOOLEAN, e \in BOOLEAN : a = (known \/ l) /\ e = (l /\ ~known)
    OBVIOUS
  <2>3. approved' = [approved EXCEPT ![r] = a] /\ error' = [error EXCEPT ![r] = e]
    BY <2>1, <2>2
  <2>4. /\ r \in GraphRuns /\ stage[r] = "new" /\ stage' = [stage EXCEPT ![r] = "lock"]
        /\ UNCHANGED <<index, results, logged, locked, faults>>
    BY <1>2 DEF Dispatch
  <2>5. RunTypeOK'
    BY <2>1, <2>3, <2>4 DEF RunTypeOK
  <2>6. ASSUME NEW q \in GraphRuns, q # r
        PROVE  /\ live'[q] = live[q] /\ given'[q] = given[q] /\ plan'[q] = plan[q]
               /\ approved'[q] = approved[q] /\ stage'[q] = stage[q]
               /\ index'[q] = index[q] /\ results'[q] = results[q]
    BY <2>1, <2>3, <2>4, <2>6 DEF RunTypeOK
  <2>7. /\ index'[r] = 0 /\ results'[r] = results[r] /\ Len(results[r]) = 0
        /\ live'[r] => approved'[r]
        /\ given'[r] = p /\ plan'[r] = p /\ stage'[r] = "lock"
    BY <2>1, <2>2, <2>3, <2>4 DEF RunTypeOK, PlanKept
  <2>8. Len(p) \in Nat
    OBVIOUS
  <2> QED
    BY <2>4, <2>5, <2>6, <2>7, <2>8 DEF PlanKept
<1> QED
  BY <1>1, <1>2
\* Taking or missing the lock touches no plan.
LEMMA LockingKept ==
  ASSUME RunTypeOK, PlanKept, NEW r \in Runs,
         AskForLock(r) \/ Granted(r) \/ Refused(r) \/ LockRaised(r)
  PROVE  RunTypeOK' /\ PlanKept'
<1>1. CASE AskForLock(r)
  BY <1>1, MovesKept DEF AskForLock, RunTypeOK
<1>2. CASE Granted(r)
  <2>1. /\ locked' = [locked EXCEPT ![r] = TRUE]
        /\ UNCHANGED <<runVars, workVars, logged, error, faults>>
    BY <1>2 DEF Granted
  <2>2. PICK to \in {"acting", "discover"} :
          Moves(r, "locking", to) /\ (to = "acting" => r \notin GraphRuns)
    BY <1>2 DEF Granted
  <2>3. stage' \in [Runs -> {"new"} \cup Active \cup Ended] /\ PlanKept'
    BY <2>1, <2>2, MovesKept
  <2> QED
    BY <2>1, <2>3 DEF RunTypeOK
<1>3. CASE Refused(r)
  <2>1. UNCHANGED <<runVars, workVars, logged, locked, faults>>
    BY <1>3 DEF Refused
  <2>2. PICK e \in BOOLEAN : error' = [error EXCEPT ![r] = e]
    <3>1. error' = [error EXCEPT ![r] = r \in GraphRuns]
      BY <1>3 DEF Refused
    <3>2. (r \in GraphRuns) \in BOOLEAN
      OBVIOUS
    <3> HIDE DEF GraphRuns
    <3> QED
      BY <3>1, <3>2, Zenon
  <2>3. PICK to \in {"audit", "new", "done"} : Moves(r, "locking", to)
    BY <1>3 DEF Refused
  <2>4. stage' \in [Runs -> {"new"} \cup Active \cup Ended] /\ PlanKept'
    BY <2>1, <2>3, MovesKept
  <2> QED
    BY <2>1, <2>2, <2>4 DEF RunTypeOK
<1>4. CASE LockRaised(r)
  <2>1. UNCHANGED <<runVars, workVars, logged, locked, error, faults>>
    BY <1>4 DEF LockRaised
  <2>2. PICK to \in {"new", "crashed"} : Moves(r, "locking", to)
    BY <1>4 DEF LockRaised
  <2>3. stage' \in [Runs -> {"new"} \cup Active \cup Ended] /\ PlanKept'
    BY <2>1, <2>2, MovesKept
  <2> QED
    BY <2>1, <2>3 DEF RunTypeOK
<1> QED
  BY <1>1, <1>2, <1>3, <1>4

\* The nodes before the dispatch loop.
LEMMA PrepareKept ==
  ASSUME RunTypeOK, PlanKept, NEW r \in GraphRuns,
         Discover(r) \/ CheckDrift(r) \/ PlanActions(r) \/ Preflight(r)
  PROVE  RunTypeOK' /\ PlanKept'
<1> USE VmAssumption
<1>1. CASE Discover(r)
  <2>1. UNCHANGED <<runVars, workVars, logged, locked, faults>>
    BY <1>1 DEF Discover
  <2>2. PICK e \in BOOLEAN : error' = [error EXCEPT ![r] = e]
    <3>1. PICK fails \in BOOLEAN : error' = [error EXCEPT ![r] = error[r] \/ fails]
      BY <1>1 DEF Discover
    <3>2. (error[r] \/ fails) \in BOOLEAN
      BY DEF RunTypeOK
    <3> QED
      BY <3>1, <3>2
  <2>3. PICK to \in {"audit", "drift"} : Moves(r, "discover", to)
    BY <1>1 DEF Discover
  <2>4. stage' \in [Runs -> {"new"} \cup Active \cup Ended] /\ PlanKept'
    BY <2>1, <2>3, MovesKept
  <2> QED
    BY <2>1, <2>2, <2>4 DEF RunTypeOK
<1>2. CASE CheckDrift(r)
  <2>1. UNCHANGED <<runVars, workVars, logged, locked, faults>>
    BY <1>2 DEF CheckDrift
  <2>2. PICK e \in BOOLEAN : error' = [error EXCEPT ![r] = e]
    BY <1>2 DEF CheckDrift
  <2>3. PICK to \in {"audit", "planning", "dispatch"} :
          Moves(r, "drift", to) /\ (to = "planning" => ~approved[r])
    BY <1>2 DEF CheckDrift, AfterDrift
  <2>4. stage' \in [Runs -> {"new"} \cup Active \cup Ended] /\ PlanKept'
    BY <2>1, <2>3, MovesKept
  <2> QED
    BY <2>1, <2>2, <2>4 DEF RunTypeOK
<1>3. CASE PlanActions(r)
  <2>1. PICK p \in Plans : plan' = [plan EXCEPT ![r] = p]
    BY <1>3 DEF PlanActions
  <2>2. /\ stage[r] = "planning" /\ stage' = [stage EXCEPT ![r] = "preflight"]
        /\ index' = [index EXCEPT ![r] = 0]
        /\ UNCHANGED <<runVars, results, logged, locked, error, faults>>
    BY <1>3 DEF PlanActions
  <2>3. RunTypeOK'
    BY <2>1, <2>2 DEF RunTypeOK
  <2>4. \A q \in GraphRuns : q # r => /\ plan'[q] = plan[q] /\ stage'[q] = stage[q]
                                     /\ index'[q] = index[q] /\ results'[q] = results[q]
    BY <2>1, <2>2 DEF RunTypeOK
  <2>5. /\ index[r] = 0 /\ index'[r] = 0 /\ Len(results[r]) = 0 /\ results'[r] = results[r]
        /\ ~approved[r] /\ ~live[r] /\ stage'[r] = "preflight" /\ plan'[r] = p /\ Len(p) \in Nat
    BY <2>1, <2>2, VmAssumption DEF RunTypeOK, PlanKept
  <2> QED
    BY <2>2, <2>3, <2>4, <2>5 DEF PlanKept
<1>4. CASE Preflight(r)
  <2>1. UNCHANGED <<runVars, workVars, logged, locked, faults>>
    BY <1>4 DEF Preflight
  <2>2. PICK e \in BOOLEAN : error' = [error EXCEPT ![r] = e]
    BY <1>4 DEF Preflight
  <2>3. PICK to \in {"audit", "dispatch"} : Moves(r, "preflight", to)
    BY <1>4 DEF Preflight
  <2>4. stage' \in [Runs -> {"new"} \cup Active \cup Ended] /\ PlanKept'
    BY <2>1, <2>3, MovesKept
  <2> QED
    BY <2>1, <2>2, <2>4 DEF RunTypeOK
<1> QED
  BY <1>1, <1>2, <1>3, <1>4

\* A step of the dispatch loop that yields a result or none.
LEMMA LoopKept ==
  ASSUME RunTypeOK, PlanKept, NEW r \in GraphRuns, NEW ran \in BOOLEAN,
         NEW from, NEW to \in {"gate", "dispatch", "audit"}, Moves(r, from, to),
         UNCHANGED workVars \/ (index[r] < Len(plan[r]) /\ Yields(r, ran)),
         UNCHANGED <<runVars, logged, locked, error, faults>>
  PROVE  RunTypeOK' /\ PlanKept'
<1> USE VmAssumption
<1>0. r \in Runs
  OBVIOUS
<1>1. CASE UNCHANGED workVars
  <2>1. stage' \in [Runs -> {"new"} \cup Active \cup Ended] /\ PlanKept'
    BY <1>0, <1>1, MovesKept
  <2> QED
    BY <1>1, <2>1 DEF RunTypeOK
<1>2. CASE index[r] < Len(plan[r]) /\ Yields(r, ran)
  <2>1. /\ results' \in [Runs -> Seq(Outcome)] /\ index' \in [Runs -> Nat] /\ plan' = plan
        /\ \A q \in Runs : q # r => results'[q] = results[q] /\ index'[q] = index[q]
        /\ index'[r] = Len(results'[r]) /\ index'[r] <= Len(plan[r])
        /\ \A i \in 1..index'[r] : results'[r][i].action = plan[r][i]
    BY <1>0, <1>2, YieldsKept
  <2>2. RunTypeOK'
    BY <2>1 DEF RunTypeOK
  <2>3. stage' = [stage EXCEPT ![r] = to] /\ UNCHANGED runVars
    OBVIOUS
  <2>4. \A q \in GraphRuns : q # r => stage'[q] = stage[q]
    BY <2>3 DEF RunTypeOK
  <2>5. stage'[r] \in {"gate", "dispatch", "audit"}
    BY <1>0, <2>3 DEF RunTypeOK
  <2> QED
    BY <2>1, <2>2, <2>3, <2>4, <2>5 DEF PlanKept
<1> QED
  BY <1>1, <1>2
\* Dispatching an action appends the result that is due.
LEMMA DispatchKept ==
  ASSUME RunTypeOK, PlanKept, NEW r \in GraphRuns,
         StartAction(r) \/ SkipAction(r) \/ EndAction(r) \/ Gate(r)
  PROVE  RunTypeOK' /\ PlanKept'
<1> USE VmAssumption
<1>0. r \in Runs
  OBVIOUS
<1>1. CASE StartAction(r)
  <2>1. UNCHANGED <<runVars, workVars, logged, locked, error, faults>>
    BY <1>1 DEF StartAction
  <2>2. Moves(r, "dispatch", "acting") /\ index[r] < Len(plan[r])
    BY <1>1 DEF StartAction
  <2>3. RunTypeOK'
    BY <1>0, <2>1, <2>2 DEF RunTypeOK
  <2> QED
    BY <2>1, <2>2, <2>3 DEF RunTypeOK, PlanKept
<1>2. CASE SkipAction(r)
  <2>1. /\ Moves(r, "dispatch", "gate")
        /\ UNCHANGED workVars \/ (index[r] < Len(plan[r]) /\ Yields(r, FALSE))
        /\ UNCHANGED <<runVars, logged, locked, error, faults>>
    BY <1>2 DEF SkipAction
  <2> QED
    BY <2>1, LoopKept
<1>3. CASE EndAction(r)
  <2>1. /\ Moves(r, "acting", "gate") /\ Yields(r, TRUE)
        /\ UNCHANGED <<runVars, logged, locked, error, faults>>
    BY <1>3 DEF EndAction
  <2>2. index[r] < Len(plan[r])
    BY <2>1 DEF PlanKept
  <2> QED
    BY <2>1, <2>2, LoopKept
<1>4. CASE Gate(r)
  <2>1. PICK to \in {"gate", "dispatch", "audit"} : Moves(r, "gate", to)
    BY <1>4 DEF Gate
  <2>2. /\ UNCHANGED workVars \/ (index[r] < Len(plan[r]) /\ Yields(r, FALSE))
        /\ UNCHANGED <<runVars, logged, locked, error, faults>>
    BY <1>4 DEF Gate, DiskGateSkips
  <2> QED
    BY <2>1, <2>2, LoopKept
<1> QED
  BY <1>1, <1>2, <1>3, <1>4

\* The audit and the end of a run.
LEMMA EndKept ==
  ASSUME RunTypeOK, PlanKept, NEW r \in Runs,
         \/ LogResult(r) \/ EndAudit(r) \/ EndDirect(r) \/ Release(r)
         \/ NothingToRelease(r) \/ Released(r) \/ AuditFails(r) \/ Escape(r)
  PROVE  RunTypeOK' /\ PlanKept'
<1> USE VmAssumption
<1>1. PICK from \in {"audit", "acting", "release", "releasing", "discover", "drift", "preflight", "gate"},
           to \in {"audit", "release", "releasing", "done", "crashed"} :
        Moves(r, from, to)
  BY DEF LogResult, EndAudit, EndDirect, Release, NothingToRelease, Released, AuditFails, Escape
<1>2. UNCHANGED <<runVars, workVars, error>>
  BY DEF LogResult, EndAudit, EndDirect, Release, NothingToRelease, Released, AuditFails, Escape
<1>3. locked' \in [Runs -> BOOLEAN]
  BY DEF LogResult, EndAudit, EndDirect, Release, NothingToRelease, Released, AuditFails, Escape, RunTypeOK
<1>4. logged' \in [Runs -> Seq(BOOLEAN)]
  <2>1. \/ UNCHANGED logged
        \/ logged' = [logged EXCEPT ![r] = Append(@, TRUE)]
        \/ logged' = [logged EXCEPT ![r] = Append(@, FALSE)]
    BY DEF LogResult, EndAudit, EndDirect, Release, NothingToRelease, Released, AuditFails, Escape
  <2>2. Append(logged[r], TRUE) \in Seq(BOOLEAN) /\ Append(logged[r], FALSE) \in Seq(BOOLEAN)
    BY DEF RunTypeOK
  <2> QED
    BY <2>1, <2>2 DEF RunTypeOK
<1>5. faults' \in 0..MaxFaults
  <2>1. UNCHANGED faults \/ (faults < MaxFaults /\ faults' = faults + 1)
    BY DEF LogResult, EndAudit, EndDirect, Release, NothingToRelease, Released, AuditFails, Escape
  <2> QED
    BY <2>1, VmAssumption DEF RunTypeOK
<1>6. stage' = [stage EXCEPT ![r] = to]
  BY <1>1
<1>7. PlanKept'
  BY <1>2, <1>6 DEF PlanKept, RunTypeOK
<1> QED
  BY <1>2, <1>3, <1>4, <1>5, <1>6, <1>7 DEF RunTypeOK

\* A dead process takes its runs along and changes nothing else.
LEMMA DieKept ==
  ASSUME RunTypeOK, PlanKept, NEW r \in Runs, Die(r)
  PROVE  RunTypeOK' /\ PlanKept'
<1> USE VmAssumption
<1>1. /\ UNCHANGED <<runVars, workVars, logged, locked, error>>
      /\ \A q \in Runs : stage'[q] = stage[q] \/ stage'[q] = "crashed"
      /\ stage' \in [Runs -> {"new"} \cup Active \cup Ended]
  BY DEF Die, RunTypeOK
<1>2. faults' \in 0..MaxFaults
  BY VmAssumption DEF Die, RunTypeOK
<1> QED
  BY <1>1, <1>2 DEF RunTypeOK, PlanKept
-----------------------------------------------------------------------------
(* The theorems *)

\* Entering a lock call keeps the types of files and calls.
LEMMA StartCallType ==
  ASSUME LockTypeOK, NEW r \in Runs, NEW op \in Ops, StartCall(r, op)
  PROVE  LockTypeOK'
  BY DEF LockTypeOK, StartCall

\* What a step of the runs does to the lock files and calls.
LEMMA StepLockType ==
  ASSUME LockTypeOK, RunTypeOK, [Next]_vars
  PROVE  LockTypeOK'
<1> USE LockerAssumption
<1>1. ASSUME NEW r \in Runs, UNCHANGED <<file, tmp>>, UNCHANGED call \/ call' = [call EXCEPT ![r] = Idle]
      PROVE  LockTypeOK'
  BY <1>1 DEF LockTypeOK, Idle
<1>2. ASSUME NEW r \in Runs, Dispatch(r) \/ Begin(r) PROVE LockTypeOK'
  BY <1>1, <1>2 DEF Dispatch, Begin
<1>3. ASSUME NEW r \in Runs, RunStep(r) PROVE LockTypeOK'
  <2>1. CASE AskForLock(r) \/ Release(r)
    BY <2>1, StartCallType DEF AskForLock, Release
  <2>2. CASE Granted(r) \/ Refused(r) \/ LockRaised(r) \/ Released(r)
    BY <1>1, <2>2 DEF Granted, Refused, LockRaised, Released
  <2>3. CASE Discover(r) \/ CheckDrift(r) \/ PlanActions(r) \/ Preflight(r)
    BY <1>1, <2>3 DEF Discover, CheckDrift, PlanActions, Preflight
  <2>4. CASE StartAction(r) \/ SkipAction(r) \/ EndAction(r) \/ Gate(r)
    BY <1>1, <2>4 DEF StartAction, SkipAction, EndAction, Gate
  <2>5. CASE LogResult(r) \/ EndAudit(r) \/ EndDirect(r) \/ NothingToRelease(r)
    BY <1>1, <2>5 DEF LogResult, EndAudit, EndDirect, NothingToRelease
  <2>6. CASE LockStep(r)
    BY <2>6, LockStepType
  <2> QED
    BY <1>3, <2>1, <2>2, <2>3, <2>4, <2>5, <2>6 DEF RunStep, GraphStep
<1>4. ASSUME NEW r \in Runs, AuditFails(r) \/ Escape(r) PROVE LockTypeOK'
  BY <1>1, <1>4 DEF AuditFails, Escape
<1>5. ASSUME NEW r \in Runs, Die(r) PROVE LockTypeOK'
  BY <1>5 DEF Die, LockTypeOK, Idle
<1>6. ASSUME NEW k \in Keys, Time(k) PROVE LockTypeOK'
  <2>1. file[k] \in LockFile /\ file' = [file EXCEPT ![k] = [file[k] EXCEPT !.stale = TRUE]]
    BY <1>6 DEF Time, Expire, Fresh, LockTypeOK
  <2>2. [file[k] EXCEPT !.stale = TRUE] \in LockFile
    BY <2>1 DEF LockFile
  <2>3. UNCHANGED <<tmp, call>>
    BY <1>6 DEF Time, Expire
  <2> QED
    BY <2>1, <2>2, <2>3 DEF LockTypeOK
<1>7. CASE UNCHANGED vars
  BY <1>7 DEF vars, LockTypeOK
<1> QED
  BY <1>2, <1>3, <1>4, <1>5, <1>6, <1>7 DEF Next

\* Every step keeps types and plans.
LEMMA StepKept ==
  ASSUME RunTypeOK, PlanKept, [Next]_vars
  PROVE  RunTypeOK' /\ PlanKept'
<1> USE VmAssumption
<1>1. ASSUME NEW r \in Runs, Dispatch(r) \/ Begin(r) PROVE RunTypeOK' /\ PlanKept'
  BY <1>1, StartKept
<1>2. ASSUME NEW r \in Runs, RunStep(r) PROVE RunTypeOK' /\ PlanKept'
  <2>1. CASE AskForLock(r) \/ Granted(r) \/ Refused(r) \/ LockRaised(r)
    BY <2>1, LockingKept
  <2>2. CASE r \in GraphRuns /\ (Discover(r) \/ CheckDrift(r) \/ PlanActions(r) \/ Preflight(r))
    BY <2>2, PrepareKept
  <2>3. CASE r \in GraphRuns /\ (StartAction(r) \/ SkipAction(r) \/ EndAction(r) \/ Gate(r))
    BY <2>3, DispatchKept
  <2>4. CASE LogResult(r) \/ EndAudit(r) \/ EndDirect(r) \/ Release(r) \/ NothingToRelease(r) \/ Released(r)
    BY <2>4, EndKept
  <2>5. CASE LockStep(r) /\ UNCHANGED <<stage, runVars, workVars, logged, locked, error, faults>>
    BY <2>5, LockStepKept
  <2> QED
    BY <1>2, <2>1, <2>2, <2>3, <2>4, <2>5 DEF RunStep, GraphStep
<1>3. ASSUME NEW r \in Runs, AuditFails(r) \/ Escape(r) PROVE RunTypeOK' /\ PlanKept'
  BY <1>3, EndKept
<1>4. ASSUME NEW r \in Runs, Die(r) PROVE RunTypeOK' /\ PlanKept'
  BY <1>4, DieKept
<1>5. ASSUME NEW k \in Keys, Time(k) PROVE RunTypeOK' /\ PlanKept'
  BY <1>5, LockStepKept DEF Time
<1>6. CASE UNCHANGED vars
  BY <1>6, LockStepKept DEF vars
<1> QED
  BY <1>1, <1>2, <1>3, <1>4, <1>5, <1>6 DEF Next
\* Types and plans hold in every reachable state.
LEMMA VmInvariant == Spec => [](LockTypeOK /\ RunTypeOK /\ PlanKept)
<1>1. Init => LockTypeOK /\ RunTypeOK /\ PlanKept
  BY InitKept DEF TypeOK, RunTypeOK
<1>2. LockTypeOK /\ RunTypeOK /\ PlanKept /\ [Next]_vars => (LockTypeOK /\ RunTypeOK /\ PlanKept)'
  BY StepLockType, StepKept
<1> QED
  BY <1>1, <1>2, PTL DEF Spec

\* Every reachable state has the types that the lock files and the graph state
\* of the code give it.
THEOREM TypeCorrect == Spec => []TypeOK
<1>1. LockTypeOK /\ RunTypeOK /\ PlanKept => TypeOK
  BY DEF TypeOK, RunTypeOK
<1> QED
  BY <1>1, VmInvariant, PTL

\* A VM graph works off its plan in order, one result per action, and a live
\* one never plans again: for any plans, any processes and any faults
\* (dispatch_action_node, post_cleanup_disk_gate_node, route_after_drift_check).
THEOREM PlansAreFollowed == Spec => []ResultsFollowPlan
<1>1. LockTypeOK /\ RunTypeOK /\ PlanKept => ResultsFollowPlan
  BY DEF PlanKept, ResultsFollowPlan
<1> QED
  BY <1>1, VmInvariant, PTL

-----------------------------------------------------------------------------
(* The trail of a strict audit store *)

\* StrictTrailIsComplete and why it is kept up: the rows follow the results, none of
\* them was lost, and a run leaves the audit node with a row for every result.  A
\* direct run has no results of its own.
Trail(r) ==
  /\ Len(logged[r]) <= Len(results[r])
  /\ \A i \in 1..Len(logged[r]) : logged[r][i] = TRUE
  /\ stage[r] \in {"release", "releasing", "done"} => Len(logged[r]) = Len(results[r])
  /\ r \in DirectRuns => Len(results[r]) = 0

TrailKept == \A r \in Runs : Trail(r)

\* What appending does to a sequence.
LEMMA AppendFacts ==
  ASSUME NEW S, NEW s \in Seq(S), NEW e \in S
  PROVE  /\ Len(Append(s, e)) = Len(s) + 1
         /\ Append(s, e)[Len(s) + 1] = e
         /\ \A i \in 1..Len(s) : Append(s, e)[i] = s[i]
  OBVIOUS

\* What one more row does to the rows of a run.
LEMMA AppendRow ==
  ASSUME NEW s \in Seq(BOOLEAN)
  PROVE  /\ Len(Append(s, TRUE)) = Len(s) + 1
         /\ Append(s, TRUE)[Len(s) + 1] = TRUE
         /\ \A i \in 1..Len(s) : Append(s, TRUE)[i] = s[i]
<1> DEFINE e == TRUE
           B == BOOLEAN
<1>1. e \in B /\ s \in Seq(B)
  OBVIOUS
<1> HIDE DEF e, B
<1>2. /\ Len(Append(s, e)) = Len(s) + 1
      /\ Append(s, e)[Len(s) + 1] = e
      /\ \A i \in 1..Len(s) : Append(s, e)[i] = s[i]
  BY <1>1, AppendFacts
<1> QED
  BY <1>2, Zenon DEF e

\* A run moves on; results and rows stay as they are.
LEMMA QuietTrail ==
  ASSUME RunTypeOK, TrailKept, NEW r \in Runs, NEW from, NEW to,
         Moves(r, from, to), UNCHANGED <<results, logged>>,
         to \in {"release", "releasing", "done"} =>
           from \in {"release", "releasing"} \/ Len(logged[r]) = Len(results[r])
  PROVE  TrailKept'
<1>1. /\ stage[r] = from /\ stage'[r] = to
      /\ \A q \in Runs : q # r => stage'[q] = stage[q]
  BY DEF RunTypeOK
<1> QED
  BY <1>1 DEF TrailKept, Trail

\* A VM graph in its dispatch loop adds a result.
LEMMA ResultTrail ==
  ASSUME RunTypeOK, PlanKept, TrailKept, NEW r \in GraphRuns, NEW ran \in BOOLEAN,
         NEW from, NEW to \in {"gate", "dispatch", "audit"}, Moves(r, from, to),
         index[r] < Len(plan[r]), Yields(r, ran), UNCHANGED logged
  PROVE  TrailKept'
<1>1. /\ \A q \in Runs : q # r => results'[q] = results[q] /\ stage'[q] = stage[q]
      /\ stage'[r] = to
  BY YieldsKept DEF RunTypeOK
<1>2. results' = [results EXCEPT
        ![r] = Append(results[r], [action |-> plan[r][index[r] + 1], ran |-> ran])]
  BY DEF Yields
<1>3. results'[r] = Append(results[r], [action |-> plan[r][index[r] + 1], ran |-> ran])
  BY <1>2 DEF RunTypeOK
<1>4. Len(results'[r]) = Len(results[r]) + 1 /\ Len(results[r]) \in Nat /\ Len(logged[r]) \in Nat
  <2>1. results[r] \in Seq(Outcome) /\ logged[r] \in Seq(BOOLEAN)
    BY DEF RunTypeOK
  <2> QED
    BY <1>3, <2>1
<1>5. Trail(r)'
  BY <1>1, <1>4 DEF TrailKept, Trail
<1>6. ASSUME NEW q \in Runs, q # r PROVE Trail(q)'
  BY <1>1, <1>6 DEF TrailKept, Trail
<1> QED
  BY <1>5, <1>6 DEF TrailKept

\* The audit node writes one more row.
LEMMA RowTrail ==
  ASSUME RunTypeOK, TrailKept, NEW r \in GraphRuns, LogResult(r)
  PROVE  TrailKept'
<1>1. /\ logged' = [logged EXCEPT ![r] = Append(logged[r], TRUE)] /\ UNCHANGED results
      /\ stage' = [stage EXCEPT ![r] = "audit"] /\ Len(logged[r]) < Len(results[r])
  BY DEF LogResult
<1>2. logged[r] \in Seq(BOOLEAN) /\ Len(logged[r]) \in Nat /\ Len(results[r]) \in Nat
  BY DEF RunTypeOK
<1>3. /\ Len(Append(logged[r], TRUE)) = Len(logged[r]) + 1
      /\ Append(logged[r], TRUE)[Len(logged[r]) + 1] = TRUE
      /\ \A i \in 1..Len(logged[r]) : Append(logged[r], TRUE)[i] = logged[r][i]
  BY <1>2, AppendRow
<1>4. logged'[r] = Append(logged[r], TRUE) /\ stage'[r] = "audit"
  BY <1>1 DEF RunTypeOK
<1>5. \A q \in Runs : q # r => logged'[q] = logged[q] /\ stage'[q] = stage[q]
  BY <1>1 DEF RunTypeOK
<1>6. \A i \in 1..Len(logged'[r]) : logged'[r][i] = TRUE
  <2> SUFFICES ASSUME NEW i \in 1..(Len(logged[r]) + 1) PROVE Append(logged[r], TRUE)[i] = TRUE
    BY <1>3, <1>4
  <2>1. CASE i = Len(logged[r]) + 1
    BY <1>3, <2>1
  <2>2. CASE i # Len(logged[r]) + 1
    <3>1. i \in 1..Len(logged[r])
      BY <1>2, <2>2
    <3> QED
      BY <1>3, <3>1 DEF TrailKept, Trail
  <2> QED
    BY <2>1, <2>2
<1>7. Trail(r)'
  BY <1>1, <1>2, <1>3, <1>4, <1>6 DEF TrailKept, Trail
<1>8. ASSUME NEW q \in Runs, q # r PROVE Trail(q)'
  BY <1>1, <1>5, <1>8 DEF TrailKept, Trail
<1> QED
  BY <1>7, <1>8 DEF TrailKept

\* Under a strict store every step keeps the trail.
LEMMA TrailStep ==
  ASSUME StrictAudit, RunTypeOK, PlanKept, TrailKept, [Next]_vars
  PROVE  TrailKept'
<1>1. ASSUME NEW r \in Runs, Dispatch(r) \/ Begin(r) PROVE TrailKept'
  BY <1>1, QuietTrail DEF Dispatch, Begin
<1>2. ASSUME NEW r \in Runs, RunStep(r) PROVE TrailKept'
  <2>1. CASE AskForLock(r) \/ Granted(r)
    <3>1. PICK from, to \in {"lock", "locking", "acting", "discover"} :
            Moves(r, from, to) /\ UNCHANGED <<results, logged>>
      BY <2>1 DEF AskForLock, Granted
    <3> QED
      BY <3>1, QuietTrail
  <2>2. CASE Refused(r)
    <3>1. PICK to \in {"audit", "new", "done"} :
            /\ Moves(r, "locking", to) /\ UNCHANGED <<results, logged>>
            /\ to = "done" => r \in DirectRuns
      BY <2>2 DEF Refused
    <3>2. r \in DirectRuns => Len(logged[r]) = Len(results[r])
      <4>1. logged[r] \in Seq(BOOLEAN)
        BY DEF RunTypeOK
      <4> QED
        BY <4>1 DEF TrailKept, Trail
    <3> QED
      BY <3>1, <3>2, QuietTrail
  <2>3. CASE LockRaised(r)
    <3>1. PICK to \in {"new", "crashed"} : Moves(r, "locking", to) /\ UNCHANGED <<results, logged>>
      BY <2>3 DEF LockRaised
    <3> QED
      BY <3>1, QuietTrail
  <2>4. CASE Discover(r) \/ CheckDrift(r) \/ Preflight(r) \/ StartAction(r)
    <3>1. PICK from, to \in OnVm \cup {"audit"} :
            Moves(r, from, to) /\ UNCHANGED <<results, logged>>
      BY <2>4 DEF Discover, CheckDrift, AfterDrift, Preflight, StartAction
    <3>2. to \notin {"release", "releasing", "done"}
      BY <3>1
    <3> QED
      BY <3>1, <3>2, QuietTrail
  <2>5. CASE r \in GraphRuns /\ PlanActions(r)
    <3>1. PICK from, to \in {"planning", "preflight"} :
            Moves(r, from, to) /\ UNCHANGED <<results, logged>>
      BY <2>5 DEF PlanActions
    <3>2. to \notin {"release", "releasing", "done"}
      BY <3>1
    <3> QED
      BY <3>1, <3>2, QuietTrail
  <2>6. CASE r \in GraphRuns /\ (SkipAction(r) \/ EndAction(r) \/ Gate(r))
    <3>1. PICK from \in {"dispatch", "acting", "gate"}, to \in {"gate", "dispatch", "audit"} :
            Moves(r, from, to) /\ UNCHANGED logged
      BY <2>6 DEF SkipAction, EndAction, Gate
    <3>2. UNCHANGED workVars \/ \E ran \in BOOLEAN : index[r] < Len(plan[r]) /\ Yields(r, ran)
      <4>1. CASE SkipAction(r)
        BY <4>1 DEF SkipAction
      <4>2. CASE EndAction(r)
        BY <2>6, <4>2 DEF EndAction, PlanKept
      <4>3. CASE Gate(r)
        BY <4>3 DEF Gate, DiskGateSkips
      <4> QED
        BY <2>6, <4>1, <4>2, <4>3
    <3>3. CASE UNCHANGED workVars
      BY <3>1, <3>3, QuietTrail
    <3>4. CASE \E ran \in BOOLEAN : index[r] < Len(plan[r]) /\ Yields(r, ran)
      BY <2>6, <3>1, <3>4, ResultTrail
    <3> QED
      BY <3>2, <3>3, <3>4
  <2>7. CASE r \in GraphRuns /\ LogResult(r)
    BY <2>7, RowTrail
  <2>8. CASE EndAudit(r)
    BY <2>8, QuietTrail DEF EndAudit
  <2>9. CASE r \in DirectRuns /\ EndDirect(r)
    <3>1. Len(logged[r]) = Len(results[r])
      <4>1. logged[r] \in Seq(BOOLEAN)
        BY DEF RunTypeOK
      <4> QED
        BY <2>9, <4>1 DEF TrailKept, Trail
    <3> QED
      BY <2>9, <3>1, QuietTrail DEF EndDirect
  <2>10. CASE Release(r) \/ NothingToRelease(r)
    BY <2>10, QuietTrail DEF Release, NothingToRelease
  <2>11. CASE Released(r)
    <3>1. PICK to \in {"done", "crashed"} : Moves(r, "releasing", to) /\ UNCHANGED <<results, logged>>
      BY <2>11 DEF Released
    <3> QED
      BY <3>1, QuietTrail
  <2>12. CASE LockStep(r) /\ UNCHANGED <<stage, runVars, workVars, logged, locked, error, faults>>
    BY <2>12 DEF TrailKept, Trail
  <2> QED
    BY <1>2, <2>1, <2>2, <2>3, <2>4, <2>5, <2>6, <2>7, <2>8, <2>9, <2>10, <2>11, <2>12
    DEF RunStep, GraphStep
<1>3. ASSUME NEW r \in Runs, AuditFails(r) \/ Escape(r) PROVE TrailKept'
  <2>1. PICK from, to \in OnVm \cup {"audit", "crashed"} :
          Moves(r, from, to) /\ UNCHANGED <<results, logged>>
    BY <1>3 DEF AuditFails, Escape
  <2>2. to \notin {"release", "releasing", "done"}
    BY <2>1
  <2> QED
    BY <2>1, <2>2, QuietTrail
<1>4. ASSUME NEW r \in Runs, Die(r) PROVE TrailKept'
  <2>1. /\ UNCHANGED <<results, logged>>
        /\ \A q \in Runs : stage'[q] = stage[q] \/ stage'[q] = "crashed"
    BY <1>4 DEF Die, RunTypeOK
  <2> QED
    BY <2>1 DEF TrailKept, Trail
<1>5. ASSUME NEW k \in Keys, Time(k) PROVE TrailKept'
  BY <1>5 DEF Time, TrailKept, Trail
<1>6. CASE UNCHANGED vars
  BY <1>6 DEF vars, TrailKept, Trail
<1> QED
  BY <1>1, <1>2, <1>3, <1>4, <1>5, <1>6 DEF Next

\* With a strict audit store a run that ends regularly has a row for each of its
\* results, for any plans and whatever fails or dies on the way: a row that could not
\* be written ends the run instead (audit.py log_event, audit_results_node).
THEOREM StrictTrailKept == Spec => []StrictTrailIsComplete
<1>1. CASE StrictAudit = TRUE
  <2>1. Init => TrailKept
    <3> SUFFICES ASSUME Init, NEW r \in Runs PROVE Trail(r)
      BY DEF TrailKept
    <3>1. logged[r] = <<>> /\ results[r] = <<>> /\ stage[r] = "new"
      BY DEF Init
    <3>2. Len(<<>>) = 0 /\ 1..0 = {}
      OBVIOUS
    <3> QED
      BY <3>1, <3>2 DEF Trail
  <2>2. LockTypeOK /\ RunTypeOK /\ PlanKept /\ TrailKept /\ [Next]_vars => TrailKept'
    BY <1>1, TrailStep
  <2>3. RunTypeOK /\ TrailKept => StrictTrailIsComplete
    <3> SUFFICES ASSUME RunTypeOK, TrailKept, NEW r \in Runs, stage[r] = "done"
                 PROVE  logged[r] = [i \in 1..Len(results[r]) |-> TRUE]
      BY DEF StrictTrailIsComplete
    <3>1. logged[r] \in Seq(BOOLEAN) /\ Len(logged[r]) = Len(results[r])
      BY DEF RunTypeOK, TrailKept, Trail
    <3>2. \A i \in 1..Len(logged[r]) : logged[r][i] = TRUE
      BY DEF TrailKept, Trail
    <3>3. logged[r] = [i \in 1..Len(logged[r]) |-> logged[r][i]]
      BY <3>1
    <3> QED
      BY <3>1, <3>2, <3>3
  <2> QED
    BY <2>1, <2>2, <2>3, VmInvariant, PTL DEF Spec
<1>2. CASE StrictAudit # TRUE
  <2>1. TRUE => StrictTrailIsComplete
    BY <1>2, VmAssumption DEF StrictTrailIsComplete
  <2> QED
    BY <2>1, PTL
<1> QED
  BY <1>1, <1>2
=============================================================================
