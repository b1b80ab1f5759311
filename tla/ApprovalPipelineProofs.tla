----------------------- MODULE ApprovalPipelineProofs -----------------------
(***************************************************************************)
(* Theorems about ApprovalPipeline, for any sets of batches, packages and  *)
(* agents, any gate delays and any number of faults, and about the         *)
(* calendar of its window, for any window and any instant.                 *)
(***************************************************************************)
EXTENDS ApprovalPipeline, Windows, TLAPS

\* The tuples of variables and the sets of stages that nearly every step needs.
USE DEF storeVars, deferredVars, jobVars, runVars, LiveGate, EndGate, Decided, Verdicts,
        RecGoesTo, OpnGoesTo

-----------------------------------------------------------------------------
(* Types *)

\* The first state is well typed.
LEMMA InitType == Init => TypeOK
  BY PipelineAssumption
  DEF Init, TypeOK, StoreInit, StoreTypeOK, DeferredInit, DeferredTypeOK, RecIdle, OpnIdle

\* What Launch and Report do to runVars, whatever batch they are called with.
RunTypeOK ==
  /\ outcome \in [Batches -> {"absent", "running", "completed", "aborted"}]
  /\ dispatched \in [Batches -> SUBSET Packages]
  /\ starts \in [Batches -> Nat]

\* Starting an execution keeps the types of the runs.
LEMMA LaunchType ==
  ASSUME TypeOK, NEW b, Launch(b)
  PROVE  RunTypeOK'
<1> USE DEF TypeOK, StoreTypeOK, RunTypeOK, Launch
<1>1. CASE b \in Batches
  BY <1>1 DEF Selected
<1>2. CASE b \notin Batches
  BY <1>2
<1> QED
  BY <1>1, <1>2

\* So does reporting one.
LEMMA ReportType ==
  ASSUME TypeOK, NEW b, NEW result \in {"completed", "aborted"}, Report(b, result)
  PROVE  RunTypeOK'
  BY DEF TypeOK, RunTypeOK, Report

\* Steps of a gate keep the types.
LEMMA GateType ==
  ASSUME TypeOK, NEW b \in Batches, GateStep(b)
  PROVE  TypeOK'
<1> USE PipelineAssumption DEF TypeOK, StoreTypeOK, DeferredTypeOK, Advance
<1>1. CASE PostRequest(b)
  BY <1>1 DEF PostRequest, Create
<1>2. CASE Announce(b)
  BY <1>2 DEF Announce
<1>3. CASE SlackRaises(b)
  BY <1>3 DEF SlackRaises
<1>4. CASE SeeDecision(b)
  <2>1. PICK to \in {"claiming", "refused"} : Advance(b, "waiting", to)
    BY <1>4 DEF SeeDecision, Refuse
  <2>2. RunTypeOK'
    BY <1>4, ReportType DEF SeeDecision, Refuse, RunTypeOK
  <2>3. UNCHANGED <<storeVars, deferredVars, windowOpen, jobVars, faults>>
    BY <1>4 DEF SeeDecision, Refuse
  <2> QED
    BY <2>1, <2>2, <2>3 DEF RunTypeOK, storeVars, deferredVars, jobVars
<1>5. CASE GiveUpWaiting(b)
  BY <1>5 DEF GiveUpWaiting
<1>6. CASE GateTimesOut(b)
  BY <1>6 DEF GateTimesOut, MarkTimeout
<1>7. CASE Claim(b)
  BY <1>7 DEF Claim, MarkExecutionStarted, Claimable
<1>8. CASE ClaimLost(b)
  BY <1>8 DEF ClaimLost, Refuse, Report
<1>9. CASE StartNow(b)
  BY <1>9 DEF StartNow, Launch, Selected
<1>10. CASE SkipLocked(b)
  BY <1>10 DEF SkipLocked
<1>11. CASE DecideToDefer(b)
  BY <1>11 DEF DecideToDefer
<1>12. CASE SaveDeferred(b)
  BY <1>12 DEF SaveDeferred, Save
<1>13. CASE FinishRun(b)
  BY <1>13 DEF FinishRun, Report
<1> QED
  BY <1>1, <1>2, <1>3, <1>4, <1>5, <1>6, <1>7, <1>8, <1>9, <1>10, <1>11, <1>12, <1>13 DEF GateStep

\* Steps of the reconciler keep the types.
LEMMA RecType ==
  ASSUME TypeOK, NEW a \in Agents, RecStep(a)
  PROVE  TypeOK'
<1> USE PipelineAssumption DEF TypeOK, StoreTypeOK, DeferredTypeOK
<1>1. CASE RecTick(a)
  BY <1>1 DEF RecTick, ExpireOverdue
<1>2. CASE RecList(a)
  BY <1>2 DEF RecList, OrphanedApproved
<1>3. ASSUME NEW b \in Batches, RecSkip(a, b) PROVE TypeOK'
  BY <1>3 DEF RecSkip
<1>4. ASSUME NEW b \in Batches, RecClaim(a, b) PROVE TypeOK'
  <2>1. StoreTypeOK' /\ UNCHANGED <<deferredVars, windowOpen, gate, host, up, opn, runVars, faults>>
    BY <1>4 DEF RecClaim, MarkExecutionStarted, Claimable
  <2>2. rec[a].open \in BOOLEAN /\ rec[a].queue \in SUBSET Batches
    OBVIOUS
  <2>3. PICK pc \in {"looping", "owning"}, cur \in Batches \cup {NoBatch} :
          RecGoesTo(a, pc, rec[a].open, {}, rec[a].queue \ {b}, cur)
    BY <1>4 DEF RecClaim
  <2> QED
    BY <2>1, <2>2, <2>3
<1>5. CASE RecHandOver(a)
  BY <1>5 DEF RecHandOver, Save
<1>6. CASE RecReplay(a)
  <2>1. RunTypeOK'
    BY <1>6, LaunchType DEF RecReplay
  <2> QED
    BY <1>6, <2>1 DEF RecReplay, RunTypeOK
<1>7. CASE RecFinish(a)
  <2>1. RunTypeOK'
    BY <1>7, ReportType DEF RecFinish
  <2> QED
    BY <1>7, <2>1 DEF RecFinish, RunTypeOK
<1>8. CASE RecEnd(a)
  BY <1>8 DEF RecEnd, RecIdle
<1> QED
  BY <1>1, <1>2, <1>3, <1>4, <1>5, <1>6, <1>7, <1>8 DEF RecStep

\* Steps of the opener keep the types.
LEMMA OpnType ==
  ASSUME TypeOK, NEW a \in Agents, OpnStep(a)
  PROVE  TypeOK'
<1> USE PipelineAssumption DEF TypeOK, StoreTypeOK, DeferredTypeOK
<1>1. CASE OpnTick(a)
  BY <1>1 DEF OpnTick, ExpireOld, Pending
<1>2. ASSUME NEW b \in Batches, OpnTake(a, b) PROVE TypeOK'
  BY <1>2 DEF OpnTake, MarkExecuting
<1>3. CASE OpnReplay(a)
  <2>1. RunTypeOK'
    BY <1>3, LaunchType DEF OpnReplay
  <2> QED
    BY <1>3, <2>1 DEF OpnReplay, RunTypeOK
<1>4. CASE OpnFinish(a)
  <2>1. RunTypeOK'
    BY <1>4, ReportType DEF OpnFinish
  <2> QED
    BY <1>4, <2>1 DEF OpnFinish, MarkDone, RunTypeOK
<1>5. CASE OpnEnd(a)
  BY <1>5 DEF OpnEnd, OpnIdle
<1> QED
  BY <1>1, <1>2, <1>3, <1>4, <1>5 DEF OpnStep

\* Every step keeps the types.
LEMMA StepType ==
  ASSUME TypeOK, [Next]_vars
  PROVE  TypeOK'
<1> USE PipelineAssumption DEF TypeOK, StoreTypeOK, DeferredTypeOK
<1>1. ASSUME NEW b \in Batches, NEW h \in Agents \cup {NoAgent}, Begin(b, h) PROVE TypeOK'
  BY <1>1 DEF Begin
<1>2. ASSUME NEW b \in Batches, Blocked(b) PROVE TypeOK'
  BY <1>2 DEF Blocked, Advance
<1>3. ASSUME NEW b \in Batches, Decision(b) PROVE TypeOK'
  <2>1. UNCHANGED <<deferredVars, windowOpen, gate, host, jobVars, runVars, faults>>
    BY <1>3 DEF Decision
  <2>2. PICK verdict \in Verdicts, selection \in SUBSET Packages : Decide(b, verdict, selection)
    BY <1>3 DEF Decision
  <2>3. StoreTypeOK'
    BY <2>2 DEF Decide, Verdicts
  <2> QED
    BY <2>1, <2>3 DEF deferredVars, jobVars, runVars
<1>4. ASSUME NEW b \in Batches, ApprovalTimePasses(b) PROVE TypeOK'
  <2>1. UNCHANGED <<deferredVars, windowOpen, gate, host, jobVars, runVars, faults>>
    BY <1>4 DEF ApprovalTimePasses
  <2>2. StoreTypeOK'
    <3>1. CASE TimeoutElapses(b)
      BY <3>1 DEF TimeoutElapses
    <3>2. CASE GraceElapses(b)
      BY <3>2 DEF GraceElapses
    <3> QED
      BY <1>4, <3>1, <3>2 DEF ApprovalTimePasses
  <2> QED
    BY <2>1, <2>2 DEF deferredVars, jobVars, runVars
<1>5. ASSUME NEW b \in Batches, DeferralTimePasses(b) PROVE TypeOK'
  BY <1>5 DEF DeferralTimePasses, DeferralElapses
<1>6. ASSUME NEW b \in Batches, GateDies(b) PROVE TypeOK'
  BY <1>6 DEF GateDies
<1>7. ASSUME NEW a \in Agents, RecDies(a) PROVE TypeOK'
  BY <1>7 DEF RecDies, RecIdle
<1>8. ASSUME NEW a \in Agents, OpnDies(a) PROVE TypeOK'
  <2>1. DeferredTypeOK'
    BY <1>8 DEF OpnDies, MarkDone
  <2>2. /\ opn' = [opn EXCEPT ![a] = OpnIdle] /\ faults < MaxFaults /\ faults' = faults + 1
        /\ UNCHANGED <<storeVars, windowOpen, gate, host, up, rec, runVars>>
    BY <1>8 DEF OpnDies
  <2> QED
    BY <2>1, <2>2 DEF OpnIdle
<1>9. ASSUME NEW a \in Agents, Crash(a) PROVE TypeOK'
  BY <1>9 DEF Crash, RecIdle, OpnIdle
<1>10. ASSUME NEW a \in Agents, Restart(a) PROVE TypeOK'
  BY <1>10 DEF Restart
<1>11. CASE OpensAtStart \/ OpensAtMidnight \/ FiresElsewhere
  <2>1. CASE OpensAtStart
    <3>1. CASE CronFiring
      BY <2>1, <3>1 DEF OpensAtStart, CronFiring, OpnIdle
    <3>2. CASE UNCHANGED opn
      BY <2>1, <3>2 DEF OpensAtStart
    <3> QED
      BY <2>1, <3>1, <3>2 DEF OpensAtStart
  <2>2. CASE OpensAtMidnight
    BY <2>2 DEF OpensAtMidnight
  <2>3. CASE FiresElsewhere
    BY <2>3 DEF FiresElsewhere, CronFiring, OpnIdle
  <2> QED
    BY <1>11, <2>1, <2>2, <2>3
<1>12. CASE WindowCloses
  BY <1>12 DEF WindowCloses
<1>13. CASE UNCHANGED vars
  BY <1>13 DEF vars
<1> QED
  BY <1>1, <1>2, <1>3, <1>4, <1>5, <1>6, <1>7, <1>8, <1>9, <1>10, <1>11, <1>12, <1>13,
     GateType, RecType, OpnType DEF Next

\* Every reachable state has the types that the tables and the coroutines of
\* the code give it.
THEOREM TypeCorrect == Spec => []TypeOK
<1>1. Init => TypeOK
  BY InitType
<1>2. TypeOK /\ [Next]_vars => TypeOK'
  BY StepType
<1> QED
  BY <1>1, <1>2, PTL DEF Spec

-----------------------------------------------------------------------------
(* The calendar of the window *)

\* The hour and the day number of a local time x, and of the hour before it.
LEMMA Clock ==
  ASSUME NEW x \in Int
  PROVE  /\ x \div 24 \in Int /\ x % 24 \in Hours
         /\ x = 24 * (x \div 24) + (x % 24)
         /\ IF x % 24 = 0 THEN (x - 1) % 24 = 23 /\ (x - 1) \div 24 = (x \div 24) - 1
                          ELSE (x - 1) % 24 = (x % 24) - 1 /\ (x - 1) \div 24 = x \div 24
BY Z3 DEF Hours

\* Day number and hour determine each other's parts of the time.
LEMMA ClockIsUnique ==
  ASSUME NEW q \in Int, NEW h \in Hours
  PROVE  (24 * q + h) \div 24 = q /\ (24 * q + h) % 24 = h
BY Z3 DEF Hours

\* Every weekday comes within seven days.
LEMMA Weekdays ==
  ASSUME NEW q \in Int, NEW day \in Days
  PROVE  \E d \in 1..7 : (q + d) % 7 = day
BY Z3 DEF Days

\* Days that share a weekday are the same or a week apart.
LEMMA SameWeekday ==
  ASSUME NEW q \in Int, NEW r \in Int, q % 7 = r % 7
  PROVE  q = r \/ q >= r + 7 \/ r >= q + 7
BY Z3 DEF Days

\* The hour and the day of the hour before t.
LEMMA HourBefore ==
  ASSUME NEW t \in Int, NEW w \in MaintenanceWindow
  PROVE  /\ HourOf(t, w.zone) \in Hours /\ w.start \in Hours /\ w.end \in Hours
         /\ HourOf(t - 1, w.zone)
              = IF HourOf(t, w.zone) = 0 THEN 23 ELSE HourOf(t, w.zone) - 1
         /\ HourOf(t, w.zone) # 0 => DayOf(t - 1, w.zone) = DayOf(t, w.zone)
<1>1. t + w.zone \in Int /\ t - 1 + w.zone = (t + w.zone) - 1
  BY DEF MaintenanceWindow, Zones
<1> QED
  BY <1>1, Clock DEF MaintenanceWindow, HourOf, DayOf

\* With a trigger in the window's zone the opener fires when the window opens
\* and at no other time (windows.py: "fires exactly at window open time").
THEOREM CronOpensTheWindow ==
  ASSUME NEW t \in Int, NEW w \in MaintenanceWindow
  PROVE  FiringOpens(t, w)
<1> DEFINE h == HourOf(t, w.zone)
           g == HourOf(t - 1, w.zone)
<1>1. /\ h \in Hours /\ w.start \in Hours /\ w.end \in Hours
      /\ g = IF h = 0 THEN 23 ELSE h - 1
  BY HourBefore
<1>2. SUFFICES ASSUME w.start # w.end, h = w.start, DayOf(t, w.zone) \in w.days
               PROVE  InHours(h, w) /\ ~InHours(g, w)
  BY DEF FiringOpens, CronFires, IsWithinWindow
<1> HIDE DEF h, g
<1> QED
  BY <1>1, <1>2 DEF InHours, Hours

\* And it fires whenever the window opens, but for the midnight of an overnight
\* window whose day before is not listed.
THEOREM OpeningsAreFirings ==
  ASSUME NEW t \in Int, NEW w \in MaintenanceWindow
  PROVE  OpeningStarts(t, w)
<1> DEFINE h == HourOf(t, w.zone)
           g == HourOf(t - 1, w.zone)
<1>1. /\ h \in Hours /\ w.start \in Hours /\ w.end \in Hours
      /\ g = IF h = 0 THEN 23 ELSE h - 1
      /\ h # 0 => DayOf(t - 1, w.zone) = DayOf(t, w.zone)
  BY HourBefore
<1>2. SUFFICES ASSUME IsWithinWindow(t, w), ~IsWithinWindow(t - 1, w), h # w.start
               PROVE  w.end < w.start /\ h = 0 /\ DayOf(t - 1, w.zone) \notin w.days
  BY DEF OpeningStarts, CronFires, IsWithinWindow
<1> HIDE DEF h, g
<1>3. InHours(h, w) /\ DayOf(t, w.zone) \in w.days
  BY <1>2 DEF IsWithinWindow, h
<1>4. ~InHours(g, w) \/ DayOf(t - 1, w.zone) \notin w.days
  BY <1>2 DEF IsWithinWindow, g
<1> QED
  BY <1>1, <1>2, <1>3, <1>4 DEF InHours, Hours

\* What next_window_open tries: the start hour, d days after the day of t.
LEMMA Candidate ==
  ASSUME NEW t \in Int, NEW w \in MaintenanceWindow, NEW d \in Int
  PROVE  /\ StartIn(d, t, w) \in Int
         /\ HourOf(StartIn(d, t, w), w.zone) = w.start
         /\ DayOf(StartIn(d, t, w), w.zone) = (((t + w.zone) \div 24) + d) % 7
<1> DEFINE q == ((t + w.zone) \div 24) + d
<1>1. q \in Int /\ w.zone \in Int /\ w.start \in Hours /\ w.start \in Int
  <2>1. t + w.zone \in Int /\ w.zone \in Int /\ w.start \in Hours
    BY DEF MaintenanceWindow, Zones
  <2> QED BY <2>1, Clock DEF Hours
<1>2. StartIn(d, t, w) = 24 * q + w.start - w.zone
  BY <1>1 DEF StartIn, Midnight
<1> HIDE DEF q
<1>3. StartIn(d, t, w) \in Int /\ StartIn(d, t, w) + w.zone = 24 * q + w.start
  BY <1>1, <1>2
<1>4. /\ HourOf(StartIn(d, t, w), w.zone) = w.start
      /\ DayOf(StartIn(d, t, w), w.zone) = q % 7
  BY <1>1, <1>3, ClockIsUnique DEF HourOf, DayOf
<1> QED
  BY <1>3, <1>4 DEF q

\* The parts of a window, and the days of two instants in its zone.
LEMMA WindowClock ==
  ASSUME NEW t \in Int, NEW w \in MaintenanceWindow
  PROVE  /\ w.zone \in Int /\ w.start \in Hours /\ w.start \in Int
         /\ t + w.zone \in Int /\ (t + w.zone) \div 24 \in Int
         /\ HourOf(t, w.zone) \in Hours
         /\ t = 24 * ((t + w.zone) \div 24) + HourOf(t, w.zone) - w.zone
<1>1. w.zone \in Int /\ w.start \in Hours /\ w.start \in Int /\ t + w.zone \in Int
  BY DEF MaintenanceWindow, Zones, Hours
<1> DEFINE q == (t + w.zone) \div 24
           h == HourOf(t, w.zone)
<1>2. q \in Int /\ h \in Hours /\ t + w.zone = 24 * q + h
  BY <1>1, Clock DEF HourOf
<1> HIDE DEF q, h
<1>3. t = 24 * q + h - w.zone
  BY <1>1, <1>2 DEF Hours
<1> QED
  BY <1>1, <1>2, <1>3 DEF q, h

\* A firing is the start of the window on its own day.
LEMMA FiringIsStart ==
  ASSUME NEW t \in Int, NEW w \in MaintenanceWindow, NEW f \in Int,
         CronFires(f, w, w.zone)
  PROVE  \E d \in Int : /\ f = StartIn(d, t, w)
                        /\ d = ((f + w.zone) \div 24) - ((t + w.zone) \div 24)
<1> DEFINE q == (t + w.zone) \div 24
           r == (f + w.zone) \div 24
<1>1. q \in Int /\ r \in Int /\ w.zone \in Int /\ w.start \in Int
      /\ f = 24 * r + w.start - w.zone
  BY WindowClock DEF CronFires
<1>2. StartIn(r - q, t, w) = 24 * q - w.zone + 24 * (r - q) + w.start
  BY DEF StartIn, Midnight
<1> HIDE DEF q, r
<1>3. r - q \in Int /\ f = StartIn(r - q, t, w)
  BY <1>1, <1>2
<1> QED
  BY <1>3 DEF q, r

\* A week earlier or later the clock shows the same.
LEMMA WeekClock ==
  ASSUME NEW x \in Int
  PROVE  ((x - 168) \div 24) % 7 = (x \div 24) % 7 /\ (x - 168) % 24 = x % 24
BY Z3

\* A week before a firing there is a firing.
LEMMA WeekEarlier ==
  ASSUME NEW f \in Int, NEW w \in MaintenanceWindow, CronFires(f, w, w.zone)
  PROVE  CronFires(f - Week, w, w.zone)
<1>1. f + w.zone \in Int /\ f - Week + w.zone = (f + w.zone) - 168
  BY WindowClock DEF Week, MaintenanceWindow, Zones
<1> QED
  BY <1>1, WeekClock DEF CronFires, DayOf, HourOf

\* Any number of weeks earlier the clock shows the same.
LEMMA WeeksClock ==
  ASSUME NEW x \in Int, NEW k \in Int
  PROVE  ((x - 168 * k) \div 24) % 7 = (x \div 24) % 7 /\ (x - 168 * k) % 24 = x % 24
<1> DEFINE q == (x \div 24) - 7 * k
           h == x % 24
<1>1. x - 168 * k = 24 * q + h /\ h \in Hours /\ x \div 24 \in Int
  BY Z3 DEF Hours
<1>2. q \in Int
  BY <1>1
<1>3. (x - 168 * k) \div 24 = q /\ (x - 168 * k) % 24 = h
  <2> HIDE DEF q, h
  <2>1. (24 * q + h) \div 24 = q /\ (24 * q + h) % 24 = h
    BY <1>1, <1>2, ClockIsUnique
  <2> QED
    BY <1>1, <2>1
<1>4. \A y \in Int : (y - 7 * k) % 7 = y % 7
  BY Z3
<1> QED
  BY <1>1, <1>3, <1>4

\* On any clock a trigger fires in every week as in the first.
LEMMA FiringsRepeat ==
  ASSUME NEW f \in Int, NEW w \in MaintenanceWindow, NEW machine \in Zones
  PROVE  f % Week \in 0..(Week - 1) /\ (CronFires(f, w, machine) <=> CronFires(f % Week, w, machine))
<1>1. machine \in Int /\ w.zone \in Zones
  BY DEF Zones, MaintenanceWindow
<1>2. /\ f \div 168 \in Int /\ f % 168 \in 0..167
      /\ (f % 168) + machine = (f + machine) - 168 * (f \div 168)
  BY <1>1, Z3
<1>3. f + machine \in Int
  BY <1>1
<1>4. CronFires(f % 168, w, machine) <=> CronFires(f, w, machine)
  BY <1>2, <1>3, WeeksClock DEF CronFires, DayOf, HourOf
<1> QED
  BY <1>2, <1>4 DEF Week

\* There is a candidate, and a first one.
LEMMA FirstCandidate ==
  ASSUME NEW t \in Int, NEW w \in MaintenanceWindow
  PROVE  \E d \in Candidates(t, w) : \A e \in Candidates(t, w) : d <= e
<1> DEFINE q == (t + w.zone) \div 24
           In(e) == e \in Candidates(t, w)
<1>1. q \in Int /\ w.zone \in Int /\ w.start \in Hours /\ HourOf(t, w.zone) \in Hours
      /\ t = 24 * q + HourOf(t, w.zone) - w.zone
  BY WindowClock
<1>2. w.days # {} /\ w.days \subseteq Days
  BY DEF MaintenanceWindow
<1>3. PICK day \in w.days : day \in Days
  BY <1>2
<1>4. PICK d \in 1..7 : (q + d) % 7 = day
  BY <1>1, <1>3, Weekdays
<1>5. StartIn(d, t, w) = 24 * q - w.zone + 24 * d + w.start
  BY DEF StartIn, Midnight
<1>6. DayOf(StartIn(d, t, w), w.zone) \in w.days
  <2>1. d \in Int
    BY <1>4
  <2> QED
    BY <1>3, <1>4, <2>1, Candidate
<1> HIDE DEF q
<1>7. StartIn(d, t, w) > t
  BY <1>1, <1>4, <1>5 DEF Hours
<1>8. d \in Candidates(t, w)
  BY <1>6, <1>7 DEF Candidates
<1>9. \A e \in Candidates(t, w) :
        e = 0 \/ e = 1 \/ e = 2 \/ e = 3 \/ e = 4 \/ e = 5 \/ e = 6 \/ e = 7
  BY DEF Candidates
<1>10. In(0) \/ In(1) \/ In(2) \/ In(3) \/ In(4) \/ In(5) \/ In(6) \/ In(7)
  BY <1>8, <1>9
<1> QED
  BY <1>9, <1>10

\* What the code's loop returns.
LEMMA NextIsCandidate ==
  ASSUME NEW t \in Int, NEW w \in MaintenanceWindow
  PROVE  \E d \in 0..7 :
           /\ NextWindowOpen(t, w) = StartIn(d, t, w)
           /\ DayOf(StartIn(d, t, w), w.zone) \in w.days
           /\ StartIn(d, t, w) > t
           /\ \A e \in Candidates(t, w) : d <= e
<1> DEFINE d == CHOOSE d \in Candidates(t, w) : \A e \in Candidates(t, w) : d <= e
<1>1. d \in Candidates(t, w) /\ \A e \in Candidates(t, w) : d <= e
  BY FirstCandidate, Zenon
<1>2. NextWindowOpen(t, w) = StartIn(d, t, w)
  BY DEF NextWindowOpen
<1> HIDE DEF d
<1> QED
  BY <1>1, <1>2 DEF Candidates

\* The opener's trigger fires at the start that next_window_open returns.
LEMMA NextFires ==
  ASSUME NEW t \in Int, NEW w \in MaintenanceWindow
  PROVE  /\ NextWindowOpen(t, w) \in Int /\ t < NextWindowOpen(t, w)
         /\ CronFires(NextWindowOpen(t, w), w, w.zone)
<1>1. PICK d \in 0..7 :
        /\ NextWindowOpen(t, w) = StartIn(d, t, w)
        /\ DayOf(StartIn(d, t, w), w.zone) \in w.days
        /\ StartIn(d, t, w) > t
  BY NextIsCandidate
<1> QED
  BY <1>1, Candidate DEF CronFires

\* With a trigger in the window's zone, the start that next_window_open returns is
\* within a week, and no firing comes before it.
LEMMA NextInWindowZone ==
  ASSUME NEW t \in Int, NEW w \in MaintenanceWindow
  PROVE  NextOpenIsNextFiring(t, w, w.zone)
<1> DEFINE next == NextWindowOpen(t, w)
<1>1. PICK d \in 0..7 :
        /\ next = StartIn(d, t, w)
        /\ DayOf(StartIn(d, t, w), w.zone) \in w.days
        /\ StartIn(d, t, w) > t
        /\ \A e \in Candidates(t, w) : d <= e
  BY NextIsCandidate
<1>2. next \in Int /\ t < next /\ CronFires(next, w, w.zone)
  BY NextFires
<1> HIDE DEF next
<1>3. ASSUME NEW f \in (t + 1)..(next - 1), CronFires(f, w, w.zone)
      PROVE  FALSE
  <2>1. f \in Int /\ t < f /\ f < next
    BY <1>2, <1>3
  <2>2. PICK e \in Int : f = StartIn(e, t, w)
    BY <1>3, <2>1, FiringIsStart
  <2>3. e < d /\ 0 <= e
    <3> DEFINE q == (t + w.zone) \div 24
    <3>1. f = 24 * q - w.zone + 24 * e + w.start
      BY <2>2 DEF StartIn, Midnight
    <3>2. next = 24 * q - w.zone + 24 * d + w.start
      BY <1>1 DEF StartIn, Midnight
    <3>3. q \in Int /\ w.zone \in Int /\ w.start \in Hours /\ HourOf(t, w.zone) \in Hours
          /\ t = 24 * q + HourOf(t, w.zone) - w.zone
      BY WindowClock
    <3> HIDE DEF q
    <3> QED
      BY <2>1, <3>1, <3>2, <3>3 DEF Hours
  <2>4. e \in Candidates(t, w)
    BY <1>3, <2>1, <2>2, <2>3 DEF Candidates, CronFires
  <2> QED
    BY <1>1, <2>3, <2>4
<1>4. next <= t + Week
  <2>1. SUFFICES ASSUME next > t + Week PROVE FALSE
    BY <1>2 DEF Week
  <2>2. CronFires(next - Week, w, w.zone)
    BY <1>2, WeekEarlier
  <2> QED
    BY <1>2, <1>3, <2>1, <2>2 DEF Week
<1> QED
  BY <1>2, <1>3, <1>4 DEF NextOpenIsNextFiring, next

\* A trigger that agrees with the window in one week does in all of them.
LEMMA AgreesAlways ==
  ASSUME NEW w \in MaintenanceWindow, NEW machine \in Zones, TriggerAgrees(w, machine)
  PROVE  \A f \in Int : CronFires(f, w, machine) <=> CronFires(f, w, w.zone)
<1>1. w.zone \in Zones
  BY DEF MaintenanceWindow
<1> QED
  BY <1>1, FiringsRepeat DEF TriggerAgrees

LEMMA WithinAlways ==
  ASSUME NEW w \in MaintenanceWindow, NEW machine \in Zones, TriggerWithin(w, machine)
  PROVE  \A f \in Int : CronFires(f, w, machine) => CronFires(f, w, w.zone)
<1>1. w.zone \in Zones
  BY DEF MaintenanceWindow
<1> QED
  BY <1>1, FiringsRepeat DEF TriggerWithin

\* The start that a deferral is recorded and announced with is the opener's next
\* firing, whenever the deferral is made, for just those clocks of the agent's
\* machine on which the trigger agrees with the window.
THEOREM NextOpenIsNext ==
  ASSUME NEW w \in MaintenanceWindow, NEW machine \in Zones
  PROVE  (\A t \in Int : NextOpenIsNextFiring(t, w, machine)) <=> TriggerAgrees(w, machine)
<1>1. ASSUME TriggerAgrees(w, machine), NEW t \in Int
      PROVE  NextOpenIsNextFiring(t, w, machine)
  <2>1. NextOpenIsNextFiring(t, w, w.zone) /\ NextWindowOpen(t, w) \in Int
    BY NextInWindowZone, NextFires
  <2>2. \A f \in Int : CronFires(f, w, machine) <=> CronFires(f, w, w.zone)
    BY <1>1, AgreesAlways
  <2> QED
    BY <2>1, <2>2 DEF NextOpenIsNextFiring
<1>2. ASSUME \A t \in Int : NextOpenIsNextFiring(t, w, machine), NEW f \in 0..(Week - 1)
      PROVE  CronFires(f, w, machine) <=> CronFires(f, w, w.zone)
  <2> DEFINE next == NextWindowOpen(f - 1, w)
  <2>1. f \in Int /\ f - 1 \in Int
    OBVIOUS
  <2>2. next \in Int /\ f - 1 < next /\ CronFires(next, w, w.zone)
    BY <2>1, NextFires
  <2>3. NextOpenIsNextFiring(f - 1, w, machine) /\ NextOpenIsNextFiring(f - 1, w, w.zone)
    BY <1>2, <2>1, NextInWindowZone
  <2>4. CronFires(next, w, machine)
    BY <2>3 DEF NextOpenIsNextFiring
  <2>5. f # next => ~CronFires(f, w, machine) /\ ~CronFires(f, w, w.zone)
    <3>1. \A g \in (f - 1 + 1)..(next - 1) : ~CronFires(g, w, machine) /\ ~CronFires(g, w, w.zone)
      BY <2>3 DEF NextOpenIsNextFiring
    <3> HIDE DEF next
    <3>2. f # next => f \in (f - 1 + 1)..(next - 1)
      BY <2>1, <2>2
    <3> QED
      BY <3>1, <3>2
  <2> QED
    BY <2>2, <2>4, <2>5
<1> QED
  BY <1>1, <1>2 DEF TriggerAgrees

\* With a trigger in the window's zone, what the opener finds pending is not too
\* old for load_deferred_artifact_node: a week before such a firing, the opener
\* would have fired before the start that the record was deferred to.
LEMMA AgeInWindowZone ==
  ASSUME NEW t \in Int, NEW w \in MaintenanceWindow
  PROVE  LimitsMatch(t, w, w.zone)
<1> DEFINE next == NextWindowOpen(t, w)
<1>1. next \in Int /\ t < next /\ CronFires(next, w, w.zone)
  BY NextFires
<1>2. \A f \in (t + 1)..(next - 1) : ~CronFires(f, w, w.zone)
  BY NextInWindowZone DEF NextOpenIsNextFiring
<1> HIDE DEF next
<1>3. ASSUME NEW f \in next..(next + Week - 1), CronFires(f, w, w.zone), f - t > Week
      PROVE  FALSE
  <2>1. f \in Int /\ f - Week \in (t + 1)..(next - 1)
    BY <1>1, <1>3 DEF Week
  <2>2. CronFires(f - Week, w, w.zone)
    BY <1>3, <2>1, WeekEarlier
  <2> QED
    BY <1>2, <2>1, <2>2
<1>4. \A f \in next..(next + Week - 1) : f - t \in Int
  BY <1>1
<1> QED
  BY <1>3, <1>4 DEF LimitsMatch, next, Week

\* The age limit of the artifact never bites before the record expires, whenever
\* the deferral is made, for just those clocks of the agent's machine on which
\* the trigger fires at no other hours than the window's starts.
THEOREM AgeLimitNeverBites ==
  ASSUME NEW w \in MaintenanceWindow, NEW machine \in Zones
  PROVE  (\A t \in Int : LimitsMatch(t, w, machine)) <=> TriggerWithin(w, machine)
<1>1. ASSUME TriggerWithin(w, machine), NEW t \in Int
      PROVE  LimitsMatch(t, w, machine)
  <2>1. LimitsMatch(t, w, w.zone) /\ NextWindowOpen(t, w) \in Int
    BY AgeInWindowZone, NextFires
  <2>2. \A f \in Int : CronFires(f, w, machine) => CronFires(f, w, w.zone)
    BY <1>1, WithinAlways
  <2> QED
    BY <2>1, <2>2 DEF LimitsMatch
<1>2. ASSUME \A t \in Int : LimitsMatch(t, w, machine), NEW f \in 0..(Week - 1),
             CronFires(f, w, machine), ~CronFires(f, w, w.zone)
      PROVE  FALSE
  <2> DEFINE t == f - Week - 1
             next == NextWindowOpen(t, w)
  <2>1. f \in Int /\ t \in Int /\ t = f - 169 /\ w.zone \in Zones
    BY DEF Week, MaintenanceWindow
  <2>2. next \in Int /\ t < next /\ CronFires(next, w, w.zone) /\ next <= t + Week
    BY <2>1, NextFires, NextInWindowZone DEF NextOpenIsNextFiring
  <2>3. LimitsMatch(t, w, machine)
    BY <1>2, <2>1
  <2> HIDE DEF t
  <2>4. next # f - Week
    <3>1. f % Week = f /\ (f - Week) % Week = f % Week
      BY <2>1, Z3 DEF Week
    <3>2. CronFires(f - Week, w, w.zone) <=> CronFires(f, w, w.zone)
      BY <2>1, <3>1, FiringsRepeat DEF Week
    <3> QED
      BY <1>2, <2>2, <3>2
  <2>5. f \in next..(next + Week - 1) => f - t <= Week
    BY <1>2, <2>3 DEF LimitsMatch
  <2> HIDE DEF next
  <2> QED
    BY <2>1, <2>2, <2>4, <2>5 DEF Week
<1> QED
  BY <1>1, <1>2 DEF TriggerWithin

\* What a trigger on the machine's clock is to a window of that zone.
LEMMA WindowOfTheMachine ==
  ASSUME NEW w \in MaintenanceWindow, NEW machine \in Zones
  PROVE  \E v \in MaintenanceWindow :
           /\ v.zone = machine /\ v.start = w.start
           /\ \A f \in Int : CronFires(f, v, machine) <=> CronFires(f, w, machine)
<1> DEFINE v == [w EXCEPT !.zone = machine]
<1>1. v \in MaintenanceWindow /\ v.zone = machine /\ v.start = w.start /\ v.days = w.days
  BY DEF MaintenanceWindow
<1>2. \A f \in Int : CronFires(f, v, machine) <=> CronFires(f, w, machine)
  BY <1>1 DEF CronFires
<1> QED
  BY <1>1, <1>2

\* Whatever clock the agent's machine is on, a firing of the opener comes within
\* a week of a deferral, before the record expires and before its artifact is
\* refused for its age.
THEOREM DeferralHasAChance ==
  ASSUME NEW t \in Int, NEW w \in MaintenanceWindow, NEW machine \in Zones
  PROVE  HasAChance(t, w, machine)
<1>1. PICK v \in MaintenanceWindow :
        v.zone = machine /\ \A f \in Int : CronFires(f, v, machine) <=> CronFires(f, w, machine)
  BY WindowOfTheMachine
<1> DEFINE f == NextWindowOpen(t, v)
           next == NextWindowOpen(t, w)
<1>2. f \in Int /\ t < f /\ CronFires(f, v, machine) /\ f <= t + Week
  BY <1>1, NextFires, NextInWindowZone DEF NextOpenIsNextFiring
<1>3. next \in Int /\ t < next
  BY NextFires
<1>4. CronFires(f, w, machine)
  BY <1>1, <1>2
<1> HIDE DEF f
<1>5. f \in (t + 1)..(t + Week) /\ f < next + Week
  <2> HIDE DEF next
  <2> QED
    BY <1>2, <1>3 DEF Week
<1> QED
  BY <1>4, <1>5 DEF HasAChance

\* Between the start of a deferral and its expiry the opener fires once for each
\* listed day, whatever clock it is on: two firings on one weekday are a week
\* apart.
THEOREM OneChancePerDay ==
  ASSUME NEW t \in Int, NEW w \in MaintenanceWindow, NEW machine \in Zones
  PROVE  OneFiringPerDay(t, w, machine)
<1> DEFINE next == NextWindowOpen(t, w)
<1>1. next \in Int
  BY NextFires
<1> HIDE DEF next
<1>2. ASSUME NEW f \in next..(next + Week - 1), NEW g \in next..(next + Week - 1),
             CronFires(f, w, machine), CronFires(g, w, machine),
             DayOf(f, machine) = DayOf(g, machine)
      PROVE  f = g
  <2> DEFINE q == (f + machine) \div 24
             r == (g + machine) \div 24
  <2>1. f \in Int /\ g \in Int /\ f - g < 168 /\ g - f < 168
    BY <1>1 DEF Week
  <2>2. PICK v \in MaintenanceWindow : v.zone = machine /\ v.start = w.start
    BY WindowOfTheMachine
  <2>3. /\ machine \in Int /\ w.start \in Int /\ q \in Int /\ r \in Int
        /\ f = 24 * q + w.start - machine
        /\ g = 24 * r + w.start - machine
    BY <1>2, <2>1, <2>2, WindowClock DEF CronFires
  <2>4. q % 7 = r % 7
    BY <1>2 DEF DayOf
  <2> HIDE DEF q, r
  <2>5. q = r \/ q >= r + 7 \/ r >= q + 7
    BY <2>3, <2>4, SameWeekday
  <2> QED
    BY <2>1, <2>3, <2>5
<1> QED
  BY <1>2 DEF OneFiringPerDay, next
=============================================================================
