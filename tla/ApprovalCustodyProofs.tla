----------------------- MODULE ApprovalCustodyProofs -----------------------
(***************************************************************************)
(* Safety theorems about ApprovalPipeline.  The argument is one of custody: *)
(* whoever may start a batch got it from somebody who had claimed it, and   *)
(* gives it away or uses it up.  With that, the pipeline implements         *)
(* ApprovalContract, and what an operator decided stays decided.            *)
(***************************************************************************)
EXTENDS ApprovalPipelineProofs

USE DEF storeVars, deferredVars, jobVars, runVars, LiveGate, EndGate, Decided, Verdicts,
        RecGoesTo, OpnGoesTo

-----------------------------------------------------------------------------
(* No start without a claimed approval *)

\* Why StartedOnlyIfApproved is kept up: every place a start can come from
\* holds claimed batches only, and only approved rows are ever claimed.
Custody ==
  /\ \A b \in Batches :
       /\ claimed[b] => status[b] = "approved"
       /\ GateOwns(b) \/ DeferralOwns(b) \/ starts[b] > 0 => claimed[b]
  /\ \A a \in Agents :
       /\ \A b \in opn[a].queue : claimed[b]
       /\ rec[a].pc = "owning" => rec[a].cur \in Batches /\ claimed[rec[a].cur]
       /\ opn[a].pc = "owning" => opn[a].cur \in Batches /\ claimed[opn[a].cur]

\* Nothing is claimed at first.
LEMMA InitCustody == Init => Custody
  BY DEF Init, StoreInit, DeferredInit, RecIdle, OpnIdle, Custody, GateOwns, DeferralOwns

\* A claim is never taken back.
LEMMA ClaimsStay ==
  ASSUME TypeOK, NEW b \in Batches, MarkExecutionStarted(b)
  PROVE  /\ \A c \in Batches : claimed[c] => claimed'[c]
         /\ Claimable(b) => claimed'[b]
         /\ \A c \in Batches : claimed'[c] => claimed[c] \/ (c = b /\ Claimable(b))
  BY DEF TypeOK, StoreTypeOK, MarkExecutionStarted

\* The gate claims approved requests only, and starts only what it claimed.
LEMMA GateCustody ==
  ASSUME TypeOK, Custody, NEW b \in Batches, GateStep(b)
  PROVE  Custody'
<1> USE DEF TypeOK, StoreTypeOK, DeferredTypeOK, Custody, GateOwns, DeferralOwns, Advance
<1>1. CASE PostRequest(b)
  BY <1>1 DEF PostRequest, Create
<1>2. CASE Announce(b) \/ SlackRaises(b) \/ GiveUpWaiting(b) \/ SkipLocked(b)
  BY <1>2 DEF Announce, SlackRaises, GiveUpWaiting, SkipLocked
<1>3. CASE SeeDecision(b)
  BY <1>3 DEF SeeDecision, Refuse, Report
<1>4. CASE GateTimesOut(b)
  BY <1>4 DEF GateTimesOut, MarkTimeout
<1>5. CASE Claim(b)
  <2>1. /\ \A c \in Batches : claimed[c] => claimed'[c]
        /\ \A c \in Batches : claimed'[c] => status'[c] = "approved"
        /\ claimed'[b]
    BY <1>5, ClaimsStay DEF Claim, MarkExecutionStarted, Claimable
  <2>2. /\ UNCHANGED <<deferred, rec, opn, starts>>
        /\ \A c \in Batches : c # b => gate'[c] = gate[c]
    BY <1>5 DEF Claim
  <2> QED
    BY <2>1, <2>2
<1>6. CASE ClaimLost(b)
  BY <1>6 DEF ClaimLost, Refuse, Report
<1>7. CASE StartNow(b)
  BY <1>7 DEF StartNow, Launch
<1>8. CASE DecideToDefer(b)
  BY <1>8 DEF DecideToDefer
<1>9. CASE SaveDeferred(b)
  BY <1>9 DEF SaveDeferred, Save
<1>10. CASE FinishRun(b)
  BY <1>10 DEF FinishRun, Report
<1> QED
  BY <1>1, <1>2, <1>3, <1>4, <1>5, <1>6, <1>7, <1>8, <1>9, <1>10 DEF GateStep

\* So does the reconciler.
LEMMA RecCustody ==
  ASSUME TypeOK, Custody, NEW a \in Agents, RecStep(a)
  PROVE  Custody'
<1> USE DEF TypeOK, StoreTypeOK, DeferredTypeOK, Custody, GateOwns, DeferralOwns
<1>1. CASE RecTick(a)
  BY <1>1 DEF RecTick, ExpireOverdue
<1>2. CASE RecList(a)
  BY <1>2 DEF RecList
<1>3. ASSUME NEW b \in Batches, RecSkip(a, b) PROVE Custody'
  BY <1>3 DEF RecSkip
<1>4. ASSUME NEW b \in Batches, RecClaim(a, b) PROVE Custody'
  <2>1. /\ \A c \in Batches : claimed[c] => claimed'[c]
        /\ \A c \in Batches : claimed'[c] => status'[c] = "approved"
        /\ claimed'[b]
    <3>1. MarkExecutionStarted(b) /\ Claimable(b) /\ UNCHANGED status
      BY <1>4 DEF RecClaim, MarkExecutionStarted
    <3> QED
      BY <3>1, ClaimsStay DEF Claimable
  <2>2. UNCHANGED <<gate, deferred, opn, starts>>
    BY <1>4 DEF RecClaim
  <2>3. PICK pc \in {"looping", "owning"}, cur \in {NoBatch, b} :
          /\ RecGoesTo(a, pc, rec[a].open, {}, rec[a].queue \ {b}, cur)
          /\ pc = "owning" => cur = b
    BY <1>4 DEF RecClaim
  <2> QED
    BY <2>1, <2>2, <2>3
<1>5. CASE RecHandOver(a)
  BY <1>5 DEF RecHandOver, Save
<1>6. CASE RecReplay(a)
  BY <1>6 DEF RecReplay, Launch
<1>7. CASE RecFinish(a)
  BY <1>7 DEF RecFinish, Report
<1>8. CASE RecEnd(a)
  BY <1>8 DEF RecEnd, RecIdle
<1> QED
  BY <1>1, <1>2, <1>3, <1>4, <1>5, <1>6, <1>7, <1>8 DEF RecStep

\* The opener starts what a claim deferred.
LEMMA OpnCustody ==
  ASSUME TypeOK, Custody, NEW a \in Agents, OpnStep(a)
  PROVE  Custody'
<1> USE DEF TypeOK, StoreTypeOK, DeferredTypeOK, Custody, GateOwns, DeferralOwns
<1>1. CASE OpnTick(a)
  BY <1>1 DEF OpnTick, ExpireOld, Pending
<1>2. ASSUME NEW b \in Batches, OpnTake(a, b) PROVE Custody'
  BY <1>2 DEF OpnTake, MarkExecuting
<1>3. CASE OpnReplay(a)
  BY <1>3 DEF OpnReplay, Launch
<1>4. CASE OpnFinish(a)
  BY <1>4 DEF OpnFinish, MarkDone, Report
<1>5. CASE OpnEnd(a)
  BY <1>5 DEF OpnEnd, OpnIdle
<1> QED
  BY <1>1, <1>2, <1>3, <1>4, <1>5 DEF OpnStep

\* No step of the pipeline breaks the custody.
LEMMA StepCustody ==
  ASSUME TypeOK, Custody, [Next]_vars
  PROVE  Custody'
<1> USE DEF TypeOK, StoreTypeOK, DeferredTypeOK, Custody, GateOwns, DeferralOwns
<1>1. ASSUME NEW b \in Batches, NEW h \in Agents \cup {NoAgent}, Begin(b, h) PROVE Custody'
  BY <1>1 DEF Begin
<1>2. ASSUME NEW b \in Batches, Blocked(b) PROVE Custody'
  BY <1>2 DEF Blocked, Advance
<1>3. ASSUME NEW b \in Batches, Decision(b) PROVE Custody'
  BY <1>3 DEF Decision, Decide
<1>4. ASSUME NEW b \in Batches, ApprovalTimePasses(b) PROVE Custody'
  BY <1>4 DEF ApprovalTimePasses, TimeoutElapses, GraceElapses
<1>5. ASSUME NEW b \in Batches, DeferralTimePasses(b) PROVE Custody'
  BY <1>5 DEF DeferralTimePasses, DeferralElapses
<1>6. ASSUME NEW b \in Batches, GateDies(b) PROVE Custody'
  BY <1>6 DEF GateDies
<1>7. ASSUME NEW a \in Agents, RecDies(a) PROVE Custody'
  BY <1>7 DEF RecDies, RecIdle
<1>8. ASSUME NEW a \in Agents, OpnDies(a) PROVE Custody'
  BY <1>8 DEF OpnDies, OpnIdle, MarkDone
<1>9. ASSUME NEW a \in Agents, Crash(a) PROVE Custody'
  BY <1>9 DEF Crash, RecIdle, OpnIdle
<1>10. ASSUME NEW a \in Agents, Restart(a) PROVE Custody'
  BY <1>10 DEF Restart
<1>11. CASE OpensAtStart \/ OpensAtMidnight \/ FiresElsewhere
  <2>1. CASE OpensAtStart
    <3>1. CASE CronFiring
      BY <2>1, <3>1 DEF OpensAtStart, CronFiring, OpnIdle
    <3>2. CASE UNCHANGED opn
      BY <2>1, <3>2 DEF OpensAtStart
    <3> QED
      BY <2>1, <3>1, <3>2 DEF OpensAtStart
  <2>2. CASE OpensAtMidnight
    BY <2>2 DEF OpensAtMidnight
  <2>3. CASE FiresElsewhere
    BY <2>3 DEF FiresElsewhere, CronFiring, OpnIdle
  <2> QED
    BY <1>11, <2>1, <2>2, <2>3
<1>12. CASE WindowCloses
  BY <1>12 DEF WindowCloses
<1>13. CASE UNCHANGED vars
  BY <1>13 DEF vars
<1> QED
  BY <1>1, <1>2, <1>3, <1>4, <1>5, <1>6, <1>7, <1>8, <1>9, <1>10, <1>11, <1>12, <1>13,
     GateCustody, RecCustody, OpnCustody DEF Next

\* Nothing is started that was not approved and claimed, for any number of
\* agents, gates and faults: no timeout, replay, deferral or hand-over makes a
\* start out of anything but a claim, and no claim out of anything but an
\* approved row.
THEOREM StartsAreApproved == Spec => []StartedOnlyIfApproved
<1>1. Init => TypeOK /\ Custody
  BY InitType, InitCustody
<1>2. TypeOK /\ Custody /\ [Next]_vars => (TypeOK /\ Custody)'
  BY StepType, StepCustody
<1>3. TypeOK /\ Custody => StartedOnlyIfApproved
  BY DEF Custody, StartedOnlyIfApproved
<1> QED
  BY <1>1, <1>2, <1>3, PTL DEF Spec

-----------------------------------------------------------------------------
(* At most one start *)

\* One process runs the scheduler jobs, which the agent lease is there for:
\* with two, both openers may read a deferred batch before one of them marks it.
OneAgent == \A a, c \in Agents : a = c

\* Why AtMostOnce is kept up: besides OneOwner, the opener's queue holds rows
\* that still wait, and what it runs has been started.
Ownership ==
  /\ AtMostOnce
  /\ OneOwner
  /\ \A a \in Agents :
       /\ \A b \in opn[a].queue : DeferralOwns(b)
       /\ opn[a].pc = "running" => opn[a].cur \in Batches /\ starts[opn[a].cur] > 0

\* Nobody owns anything at first.
LEMMA InitOwnership == Init => Ownership
  BY DEF Init, StoreInit, DeferredInit, RecIdle, OpnIdle, Ownership, AtMostOnce, OneOwner,
         GateOwns, DeferralOwns, RecOwns, OpnOwns

\* What a successful claim changes, and what it leaves alone.
LEMMA ClaimStep ==
  ASSUME TypeOK, NEW b \in Batches, Claimable(b), MarkExecutionStarted(b)
  PROVE  /\ ~claimed[b] /\ claimed'[b] /\ status[b] = "approved"
         /\ \A c \in Batches : c # b => claimed'[c] = claimed[c]
         /\ UNCHANGED status
  BY DEF TypeOK, StoreTypeOK, MarkExecutionStarted, Claimable

\* A claim of the gate moves the gate alone.
LEMMA ClaimFrame ==
  ASSUME TypeOK, NEW b \in Batches, Claim(b)
  PROVE  /\ UNCHANGED <<deferred, rec, opn, starts>>
         /\ gate' = [gate EXCEPT ![b] = "claimed"]
  BY DEF Claim, Advance

\* A claim of the reconciler moves its own queue and batch.
LEMMA RecClaimFrame ==
  ASSUME TypeOK, NEW a \in Agents, NEW b \in Batches, RecClaim(a, b)
  PROVE  /\ UNCHANGED <<gate, deferred, opn, starts>>
         /\ \E pc \in {"looping", "owning"}, cur \in {NoBatch, b} :
              /\ RecGoesTo(a, pc, rec[a].open, {}, rec[a].queue \ {b}, cur)
              /\ pc = "owning" => cur = b
  BY DEF RecClaim

\* What a start changes, and what it leaves alone.
LEMMA LaunchStep ==
  ASSUME TypeOK, NEW b \in Batches, starts[b] = 0, Launch(b)
  PROVE  starts' = [starts EXCEPT ![b] = 1]
  BY DEF TypeOK, Launch

\* A replay of the reconciler starts the batch it owns.
LEMMA RecReplayFrame ==
  ASSUME TypeOK, NEW a \in Agents, RecReplay(a)
  PROVE  /\ UNCHANGED <<status, claimed, gate, deferred, opn>>
         /\ Launch(rec[a].cur) /\ rec[a].pc = "owning"
         /\ RecGoesTo(a, "running", rec[a].open, {}, rec[a].queue, rec[a].cur)
  BY DEF RecReplay

\* A replay of the opener starts the batch it owns.
LEMMA OpnReplayFrame ==
  ASSUME TypeOK, NEW a \in Agents, OpnReplay(a)
  PROVE  /\ UNCHANGED <<status, claimed, gate, deferred, rec>>
         /\ Launch(opn[a].cur) /\ opn[a].pc = "owning"
         /\ OpnGoesTo(a, "running", opn[a].queue, opn[a].cur)
  BY DEF OpnReplay

\* A gate that claims is the only owner, and hands over what it owns.
LEMMA GateOwnership ==
  ASSUME OneAgent, TypeOK, Custody, Ownership, NEW b \in Batches, GateStep(b)
  PROVE  Ownership'
<1> USE DEF TypeOK, StoreTypeOK, DeferredTypeOK, Ownership, AtMostOnce, OneOwner,
            GateOwns, DeferralOwns, RecOwns, OpnOwns, Claimable, Advance
<1>1. CASE PostRequest(b)
  BY <1>1 DEF PostRequest, Create
<1>2. CASE Announce(b) \/ SlackRaises(b) \/ GiveUpWaiting(b) \/ SkipLocked(b)
  BY <1>2 DEF Announce, SlackRaises, GiveUpWaiting, SkipLocked
<1>3. CASE SeeDecision(b)
  BY <1>3 DEF SeeDecision, Refuse, Report
<1>4. CASE GateTimesOut(b)
  BY <1>4 DEF GateTimesOut, MarkTimeout
<1>5. CASE Claim(b)
  <2>1. Claimable(b) /\ MarkExecutionStarted(b)
    BY <1>5 DEF Claim
  <2>2. /\ ~DeferralOwns(b) /\ starts[b] = 0
        /\ \A a \in Agents : ~RecOwns(a, b) /\ ~OpnOwns(a, b)
    BY <2>1, ClaimStep DEF Custody
  <2> QED
    BY <1>5, <2>1, <2>2, ClaimStep, ClaimFrame
<1>6. CASE ClaimLost(b)
  BY <1>6 DEF ClaimLost, Refuse, Report
<1>7. CASE StartNow(b)
  BY <1>7 DEF StartNow, Launch
<1>8. CASE DecideToDefer(b)
  BY <1>8 DEF DecideToDefer
<1>9. CASE SaveDeferred(b)
  BY <1>9 DEF SaveDeferred, Save
<1>10. CASE FinishRun(b)
  BY <1>10 DEF FinishRun, Report
<1> QED
  BY <1>1, <1>2, <1>3, <1>4, <1>5, <1>6, <1>7, <1>8, <1>9, <1>10 DEF GateStep


\* So is a reconciler; one agent has one of them.
LEMMA RecOwnership ==
  ASSUME OneAgent, TypeOK, Custody, Ownership, NEW a \in Agents, RecStep(a)
  PROVE  Ownership'
<1> USE DEF TypeOK, StoreTypeOK, DeferredTypeOK, Ownership, AtMostOnce, OneOwner,
            GateOwns, DeferralOwns, RecOwns, OpnOwns, Claimable
<1> USE DEF OneAgent
<1>1. CASE RecTick(a)
  BY <1>1 DEF RecTick, ExpireOverdue
<1>2. CASE RecList(a)
  BY <1>2 DEF RecList
<1>3. ASSUME NEW b \in Batches, RecSkip(a, b) PROVE Ownership'
  BY <1>3 DEF RecSkip
<1>4. ASSUME NEW b \in Batches, RecClaim(a, b) PROVE Ownership'
  <2>1. Claimable(b) /\ MarkExecutionStarted(b)
    BY <1>4 DEF RecClaim
  <2>2. ~GateOwns(b) /\ ~DeferralOwns(b) /\ ~OpnOwns(a, b) /\ starts[b] = 0
    BY <2>1, ClaimStep DEF Custody
  <2> QED
    <3>1. PICK pc \in {"looping", "owning"}, cur \in {NoBatch, b} :
            /\ RecGoesTo(a, pc, rec[a].open, {}, rec[a].queue \ {b}, cur)
            /\ pc = "owning" => cur = b
      BY <1>4, RecClaimFrame
    <3>2. UNCHANGED <<gate, deferred, opn, starts>>
      BY <1>4, RecClaimFrame
    <3>3. \A c \in Batches : RecOwns(a, c)' => c = b
      BY <3>1
    <3> QED
      BY <2>1, <2>2, <3>2, <3>3, ClaimStep, SMTT(20)
<1>5. CASE RecHandOver(a)
  BY <1>5 DEF RecHandOver, Save
<1>6. CASE RecReplay(a)
  <2>1. rec[a].cur \in Batches /\ starts[rec[a].cur] = 0
    BY <1>6, RecReplayFrame DEF Custody
  <2> QED
    BY <1>6, <2>1, LaunchStep, RecReplayFrame
<1>7. CASE RecFinish(a)
  BY <1>7 DEF RecFinish, Report
<1>8. CASE RecEnd(a)
  BY <1>8 DEF RecEnd, RecIdle
<1> QED
  BY <1>1, <1>2, <1>3, <1>4, <1>5, <1>6, <1>7, <1>8 DEF RecStep


\* The opener takes over from the deferral row it marks.
LEMMA OpnOwnership ==
  ASSUME OneAgent, TypeOK, Custody, Ownership, NEW a \in Agents, OpnStep(a)
  PROVE  Ownership'
<1> USE DEF TypeOK, StoreTypeOK, DeferredTypeOK, Ownership, AtMostOnce, OneOwner,
            GateOwns, DeferralOwns, RecOwns, OpnOwns, Claimable
<1> USE DEF OneAgent
<1>1. CASE OpnTick(a)
  BY <1>1 DEF OpnTick, ExpireOld, Pending
<1>2. ASSUME NEW b \in Batches, OpnTake(a, b) PROVE Ownership'
  BY <1>2 DEF OpnTake, MarkExecuting
<1>3. CASE OpnReplay(a)
  <2>1. opn[a].cur \in Batches /\ starts[opn[a].cur] = 0
    BY <1>3, OpnReplayFrame DEF Custody
  <2> QED
    BY <1>3, <2>1, LaunchStep, OpnReplayFrame
<1>4. CASE OpnFinish(a)
  BY <1>4 DEF OpnFinish, MarkDone, Report
<1>5. CASE OpnEnd(a)
  BY <1>5 DEF OpnEnd, OpnIdle
<1> QED
  BY <1>1, <1>2, <1>3, <1>4, <1>5 DEF OpnStep


\* No step of the pipeline makes a second owner.
LEMMA StepOwnership ==
  ASSUME OneAgent, TypeOK, Custody, Ownership, [Next]_vars
  PROVE  Ownership'
<1> USE DEF TypeOK, StoreTypeOK, DeferredTypeOK, Ownership, AtMostOnce, OneOwner,
            GateOwns, DeferralOwns, RecOwns, OpnOwns, Claimable
<1>1. ASSUME NEW b \in Batches, NEW h \in Agents \cup {NoAgent}, Begin(b, h) PROVE Ownership'
  BY <1>1 DEF Begin
<1>2. ASSUME NEW b \in Batches, Blocked(b) PROVE Ownership'
  BY <1>2 DEF Blocked, Advance
<1>3. ASSUME NEW b \in Batches, Decision(b) PROVE Ownership'
  BY <1>3 DEF Decision, Decide
<1>4. ASSUME NEW b \in Batches, ApprovalTimePasses(b) PROVE Ownership'
  BY <1>4 DEF ApprovalTimePasses, TimeoutElapses, GraceElapses
<1>5. ASSUME NEW b \in Batches, DeferralTimePasses(b) PROVE Ownership'
  BY <1>5 DEF DeferralTimePasses, DeferralElapses
<1>6. ASSUME NEW b \in Batches, GateDies(b) PROVE Ownership'
  BY <1>6 DEF GateDies
<1>7. ASSUME NEW a \in Agents, RecDies(a) PROVE Ownership'
  BY <1>7 DEF RecDies, RecIdle
<1>8. ASSUME NEW a \in Agents, OpnDies(a) PROVE Ownership'
  BY <1>8 DEF OpnDies, OpnIdle, MarkDone
<1>9. ASSUME NEW a \in Agents, Crash(a) PROVE Ownership'
  BY <1>9 DEF Crash, RecIdle, OpnIdle
<1>10. ASSUME NEW a \in Agents, Restart(a) PROVE Ownership'
  BY <1>10 DEF Restart
<1>11. CASE OpensAtStart \/ OpensAtMidnight \/ FiresElsewhere
  <2>1. CASE OpensAtStart
    <3>1. CASE CronFiring
      BY <2>1, <3>1 DEF OpensAtStart, CronFiring, OpnIdle
    <3>2. CASE UNCHANGED opn
      BY <2>1, <3>2 DEF OpensAtStart
    <3> QED
      BY <2>1, <3>1, <3>2 DEF OpensAtStart
  <2>2. CASE OpensAtMidnight
    BY <2>2 DEF OpensAtMidnight
  <2>3. CASE FiresElsewhere
    BY <2>3 DEF FiresElsewhere, CronFiring, OpnIdle
  <2> QED
    BY <1>11, <2>1, <2>2, <2>3
<1>12. CASE WindowCloses
  BY <1>12 DEF WindowCloses
<1>13. CASE UNCHANGED vars
  BY <1>13 DEF vars
<1> QED
  BY <1>1, <1>2, <1>3, <1>4, <1>5, <1>6, <1>7, <1>8, <1>9, <1>10, <1>11, <1>12, <1>13,
     GateOwnership, RecOwnership, OpnOwnership DEF Next


\* Types, custody and ownership hold in every reachable state.
LEMMA OwnershipInvariant ==
  ASSUME OneAgent
  PROVE  Spec => [](TypeOK /\ Custody /\ Ownership)
<1>1. Init => TypeOK /\ Custody /\ Ownership
  BY InitType, InitCustody, InitOwnership
<1>2. TypeOK /\ Custody /\ Ownership /\ [Next]_vars => (TypeOK /\ Custody /\ Ownership)'
  BY StepType, StepCustody, StepOwnership
<1> QED
  BY <1>1, <1>2, PTL DEF Spec

\* With one agent, an approved batch is started at most once: for any number of
\* batches, however gate, reconciler and opener interleave, whatever dies when.
THEOREM StartedAtMostOnce ==
  ASSUME OneAgent
  PROVE  Spec => []AtMostOnce
<1>1. Ownership => AtMostOnce
  BY DEF Ownership
<1> QED
  BY <1>1, OwnershipInvariant, PTL

\* With one agent, at most one of gate, reconciler, opener and deferral table may
\* start a batch at any time, and what they may start was claimed and is not started.
THEOREM OwnedByOne ==
  ASSUME OneAgent
  PROVE  Spec => []OneOwner
<1>1. Ownership => OneOwner
  BY DEF Ownership
<1> QED
  BY <1>1, OwnershipInvariant, PTL

-----------------------------------------------------------------------------
(* The operator's selection *)

\* A start is made with the selection that the row holds.
LEMMA LaunchSelects ==
  ASSUME TypeOK, SelectionSurvives, NEW b \in Batches, Launch(b), UNCHANGED items
  PROVE  SelectionSurvives'
<1>1. /\ \A c \in Batches : c # b => starts'[c] = starts[c] /\ dispatched'[c] = dispatched[c]
      /\ b \notin CliBatches => dispatched'[b] = Selected(items[b])
  BY DEF Launch, TypeOK
<1>2. items[b] # {} => Selected(items[b]) = items[b]
  BY DEF Selected, TypeOK, StoreTypeOK
<1> QED
  BY <1>1, <1>2 DEF SelectionSurvives

\* Nobody but a decider touches a selection, and a decided row is not decided again.
LEMMA DecisionSelects ==
  ASSUME TypeOK, Custody, SelectionSurvives, NEW b \in Batches, Decision(b)
  PROVE  SelectionSurvives'
<1>1. /\ status[b] = "pending" /\ UNCHANGED <<starts, dispatched>>
      /\ \A c \in Batches : c # b => items'[c] = items[c]
  BY DEF Decision, Decide, TypeOK, StoreTypeOK
<1>2. ~(starts[b] > 0)
  BY <1>1 DEF Custody
<1> QED
  BY <1>1, <1>2 DEF SelectionSurvives

\* A step that neither starts nor decides leaves the selections as they are.
LEMMA QuietSelects ==
  ASSUME SelectionSurvives, UNCHANGED <<items, starts, dispatched>>
  PROVE  SelectionSurvives'
  BY DEF SelectionSurvives

\* No step of the pipeline loses a selection.
LEMMA StepSelects ==
  ASSUME TypeOK, Custody, SelectionSurvives, [Next]_vars
  PROVE  SelectionSurvives'
<1>1. ASSUME NEW b \in Batches, GateStep(b) PROVE SelectionSurvives'
  <2>1. CASE StartNow(b)
    BY <2>1, LaunchSelects DEF StartNow
  <2>2. CASE PostRequest(b) \/ Announce(b) \/ SlackRaises(b) \/ GiveUpWaiting(b) \/ GateTimesOut(b)
             \/ Claim(b) \/ SkipLocked(b) \/ DecideToDefer(b) \/ SaveDeferred(b)
    BY <2>2, QuietSelects
    DEF PostRequest, Create, Announce, SlackRaises, GiveUpWaiting, GateTimesOut, MarkTimeout,
        Claim, MarkExecutionStarted, SkipLocked, DecideToDefer, SaveDeferred
  <2>3. CASE SeeDecision(b) \/ ClaimLost(b) \/ FinishRun(b)
    BY <2>3, QuietSelects DEF SeeDecision, ClaimLost, Refuse, FinishRun, Report
  <2> QED
    BY <1>1, <2>1, <2>2, <2>3 DEF GateStep
<1>2. ASSUME NEW a \in Agents, RecStep(a) PROVE SelectionSurvives'
  <2>1. CASE RecReplay(a)
    <3>1. rec[a].cur \in Batches
      BY <2>1 DEF RecReplay, Custody
    <3> QED
      BY <2>1, <3>1, LaunchSelects DEF RecReplay
  <2>2. CASE RecTick(a) \/ RecList(a) \/ RecHandOver(a) \/ RecFinish(a) \/ RecEnd(a)
    BY <2>2, QuietSelects DEF RecTick, ExpireOverdue, RecList, RecHandOver, RecFinish, Report, RecEnd
  <2>3. CASE \E b \in Batches : RecSkip(a, b) \/ RecClaim(a, b)
    BY <2>3, QuietSelects DEF RecSkip, RecClaim, MarkExecutionStarted
  <2> QED
    BY <1>2, <2>1, <2>2, <2>3 DEF RecStep
<1>3. ASSUME NEW a \in Agents, OpnStep(a) PROVE SelectionSurvives'
  <2>1. CASE OpnReplay(a)
    <3>1. opn[a].cur \in Batches
      BY <2>1 DEF OpnReplay, Custody
    <3> QED
      BY <2>1, <3>1, LaunchSelects DEF OpnReplay
  <2>2. CASE OpnTick(a) \/ OpnFinish(a) \/ OpnEnd(a) \/ \E b \in Batches : OpnTake(a, b)
    BY <2>2, QuietSelects DEF OpnTick, OpnTake, OpnFinish, Report, OpnEnd
  <2> QED
    BY <1>3, <2>1, <2>2 DEF OpnStep
<1>4. ASSUME NEW b \in Batches, Decision(b) PROVE SelectionSurvives'
  BY <1>4, DecisionSelects
<1>5. ASSUME NEW b \in Batches,
             \/ \E h \in Agents \cup {NoAgent} : Begin(b, h)
             \/ Blocked(b) \/ ApprovalTimePasses(b) \/ DeferralTimePasses(b) \/ GateDies(b)
      PROVE  SelectionSurvives'
  BY <1>5, QuietSelects
  DEF Begin, Blocked, ApprovalTimePasses, TimeoutElapses, GraceElapses, DeferralTimePasses, GateDies
<1>6. ASSUME NEW a \in Agents, RecDies(a) \/ OpnDies(a) \/ Crash(a) \/ Restart(a)
      PROVE  SelectionSurvives'
  BY <1>6, QuietSelects DEF RecDies, OpnDies, Crash, Restart
<1>7. CASE \/ OpensAtStart \/ OpensAtMidnight \/ FiresElsewhere \/ WindowCloses
            \/ UNCHANGED vars
  BY <1>7, QuietSelects
     DEF OpensAtStart, OpensAtMidnight, FiresElsewhere, WindowCloses, vars
<1> QED
  BY <1>1, <1>2, <1>3, <1>4, <1>5, <1>6, <1>7 DEF Next

\* The packages an operator checked are the ones a maintenance batch is started with,
\* whoever starts it, for any number of agents, batches and packages
\* (preloaded_approved_items of run_env_batch, _filter_patching_packages).
THEOREM SelectionIsKept == Spec => []SelectionSurvives
<1>1. Init => TypeOK /\ Custody /\ SelectionSurvives
  <2>1. Init => SelectionSurvives
    BY DEF Init, SelectionSurvives
  <2> QED
    BY <2>1, InitType, InitCustody
<1>2. TypeOK /\ Custody /\ SelectionSurvives /\ [Next]_vars => (TypeOK /\ Custody /\ SelectionSurvives)'
  BY StepType, StepCustody, StepSelects
<1> QED
  BY <1>1, <1>2, PTL DEF Spec

-----------------------------------------------------------------------------
(* Aborted means not started *)

\* Every gate has left a stage before its claim when the reconciler's grace ends.
PromptGates == SlowStages = {}

BeforeClaim == {"new", "planning", "posting", "waiting", "timingout", "claiming"}

\* What the grace gives to prompt gates: the reconciler takes no batch whose gate
\* is alive and has not claimed, so that no such gate loses its claim.
Grace ==
  /\ \A b \in Batches :
       /\ gate[b] \in {"new", "planning"} => status[b] = "absent"
       /\ gate[b] = "claiming" => status[b] = "approved"
       /\ gate[b] \in BeforeClaim => ~settled[b] /\ ~claimed[b]
  /\ \A a \in Agents : \A b \in rec[a].ripe \cup rec[a].queue : gate[b] \notin BeforeClaim

\* No gate has got anywhere at first.
LEMMA InitGrace == Init => Grace
  BY DEF Init, StoreInit, RecIdle, Grace

\* A gate moves on with its own batch.
LEMMA GateGrace ==
  ASSUME TypeOK, Grace, NEW b \in Batches, GateStep(b)
  PROVE  Grace'
<1> USE DEF TypeOK, StoreTypeOK, Grace, BeforeClaim, Advance
<1>1. CASE PostRequest(b)
  BY <1>1 DEF PostRequest, Create
<1>2. CASE Announce(b) \/ SlackRaises(b) \/ GiveUpWaiting(b) \/ SkipLocked(b)
  BY <1>2 DEF Announce, SlackRaises, GiveUpWaiting, SkipLocked
<1>3. CASE SeeDecision(b)
  BY <1>3 DEF SeeDecision, Refuse, Report
<1>4. CASE GateTimesOut(b)
  BY <1>4 DEF GateTimesOut, MarkTimeout
<1>5. CASE Claim(b)
  BY <1>5 DEF Claim, MarkExecutionStarted
<1>6. CASE ClaimLost(b)
  BY <1>6 DEF ClaimLost, Refuse, Report
<1>7. CASE StartNow(b)
  BY <1>7 DEF StartNow, Launch
<1>8. CASE DecideToDefer(b)
  BY <1>8 DEF DecideToDefer
<1>9. CASE SaveDeferred(b)
  BY <1>9 DEF SaveDeferred, Save
<1>10. CASE FinishRun(b)
  BY <1>10 DEF FinishRun, Report
<1> QED
  BY <1>1, <1>2, <1>3, <1>4, <1>5, <1>6, <1>7, <1>8, <1>9, <1>10 DEF GateStep

\* A reconciler that only works off its list.
LEMMA RecNarrows ==
  ASSUME TypeOK, Grace, NEW a \in Agents, NEW pc, NEW open, NEW queue, NEW cur,
         RecGoesTo(a, pc, open, {}, queue, cur), queue \subseteq rec[a].queue,
         UNCHANGED <<status, gate>>,
         \A b \in Batches : gate[b] \in BeforeClaim
                              => settled'[b] = settled[b] /\ claimed'[b] = claimed[b]
  PROVE  Grace'
<1>1. /\ rec'[a].ripe = {} /\ rec'[a].queue = queue
      /\ \A c \in Agents : c # a => rec'[c] = rec[c]
  BY DEF TypeOK
<1>2. rec[a].queue \subseteq Batches
  BY DEF TypeOK
<1> QED
  BY <1>1, <1>2 DEF Grace, BeforeClaim

\* The reconciler lists what settled, and nothing of a gate that is still early did.
LEMMA RecGrace ==
  ASSUME TypeOK, Grace, NEW a \in Agents, RecStep(a)
  PROVE  Grace'
<1>1. CASE RecTick(a)
  BY <1>1 DEF TypeOK, StoreTypeOK, Grace, BeforeClaim, RecTick, ExpireOverdue
<1>2. CASE RecList(a)
  BY <1>2 DEF TypeOK, StoreTypeOK, Grace, BeforeClaim, RecList
<1>3. ASSUME NEW b \in Batches, RecSkip(a, b) PROVE Grace'
  <2>1. rec[a].queue \ {b} \subseteq rec[a].queue
    OBVIOUS
  <2>2. /\ RecGoesTo(a, "looping", rec[a].open, {}, rec[a].queue \ {b}, NoBatch)
        /\ UNCHANGED <<status, gate, settled, claimed>>
    BY <1>3 DEF RecSkip
  <2> HIDE DEF RecGoesTo
  <2> QED
    BY <2>1, <2>2, RecNarrows
<1>4. ASSUME NEW b \in Batches, RecClaim(a, b) PROVE Grace'
  <2>1. PICK pc \in {"looping", "owning"}, cur \in {NoBatch, b} :
          RecGoesTo(a, pc, rec[a].open, {}, rec[a].queue \ {b}, cur)
    BY <1>4, RecClaimFrame
  <2>2. gate[b] \notin BeforeClaim /\ UNCHANGED <<status, gate>>
    BY <1>4 DEF RecClaim, MarkExecutionStarted, Grace
  <2>3. \A c \in Batches : c # b => settled'[c] = settled[c] /\ claimed'[c] = claimed[c]
    BY <1>4 DEF RecClaim, MarkExecutionStarted, TypeOK, StoreTypeOK
  <2> HIDE DEF RecGoesTo
  <2> QED
    BY <2>1, <2>2, <2>3, RecNarrows
<1>5. CASE RecHandOver(a)
  BY <1>5, RecNarrows DEF RecHandOver
<1>6. CASE RecReplay(a)
  BY <1>6, RecNarrows DEF RecReplay
<1>7. CASE RecFinish(a)
  BY <1>7, RecNarrows DEF RecFinish
<1>8. CASE RecEnd(a)
  BY <1>8 DEF TypeOK, Grace, BeforeClaim, RecEnd, RecIdle
<1> QED
  BY <1>1, <1>2, <1>3, <1>4, <1>5, <1>6, <1>7, <1>8 DEF RecStep

\* A step that touches neither rows nor gates nor reconcilers.
LEMMA QuietGrace ==
  ASSUME Grace, UNCHANGED <<status, claimed, settled, gate, rec>>
  PROVE  Grace'
  BY DEF Grace

\* No step takes the grace from a prompt gate.
LEMMA StepGrace ==
  ASSUME PromptGates, TypeOK, Grace, [Next]_vars
  PROVE  Grace'
<1> USE DEF TypeOK, StoreTypeOK, Grace, BeforeClaim
<1>1. ASSUME NEW b \in Batches, NEW h \in Agents \cup {NoAgent}, Begin(b, h) PROVE Grace'
  BY <1>1 DEF Begin
<1>2. ASSUME NEW b \in Batches, Blocked(b) PROVE Grace'
  BY <1>2 DEF Blocked, Advance
<1>3. ASSUME NEW b \in Batches, Decision(b) PROVE Grace'
  BY <1>3 DEF Decision, Decide
<1>4. ASSUME NEW b \in Batches, ApprovalTimePasses(b) PROVE Grace'
  <2>1. CASE TimeoutElapses(b)
    BY <1>4, <2>1, QuietGrace DEF ApprovalTimePasses, TimeoutElapses
  <2>2. CASE gate[b] \notin Prompt /\ GraceElapses(b)
    BY <1>4, <2>2 DEF ApprovalTimePasses, Prompt, PromptGates, GraceElapses, OrphanedApproved
  <2> QED
    BY <1>4, <2>1, <2>2 DEF ApprovalTimePasses
<1>5. ASSUME NEW b \in Batches, DeferralTimePasses(b) PROVE Grace'
  BY <1>5, QuietGrace DEF DeferralTimePasses
<1>6. ASSUME NEW b \in Batches, GateDies(b) PROVE Grace'
  BY <1>6 DEF GateDies
<1>7. ASSUME NEW a \in Agents, RecDies(a) PROVE Grace'
  BY <1>7 DEF RecDies, RecIdle
<1>8. ASSUME NEW a \in Agents, OpnDies(a) PROVE Grace'
  BY <1>8, QuietGrace DEF OpnDies
<1>9. ASSUME NEW a \in Agents, Crash(a) PROVE Grace'
  BY <1>9 DEF Crash, RecIdle
<1>10. ASSUME NEW a \in Agents, Restart(a) \/ OpnStep(a) PROVE Grace'
  BY <1>10, QuietGrace DEF Restart, OpnStep, OpnTick, OpnTake, OpnReplay, OpnFinish, OpnEnd
<1>11. CASE \/ OpensAtStart \/ OpensAtMidnight \/ FiresElsewhere \/ WindowCloses
            \/ UNCHANGED vars
  BY <1>11, QuietGrace DEF OpensAtStart, OpensAtMidnight, FiresElsewhere, WindowCloses, vars
<1> QED
  BY <1>1, <1>2, <1>3, <1>4, <1>5, <1>6, <1>7, <1>8, <1>9, <1>10, <1>11, GateGrace, RecGrace
  DEF Next

\* Whoever may start b.
InHand(b) ==
  GateOwns(b) \/ DeferralOwns(b) \/ \E a \in Agents : RecOwns(a, b) \/ OpnOwns(a, b)

\* Nobody started b and nobody will: it was refused, or never asked for, or the
\* executor that claimed it has let go of it.
Spent(b) ==
  /\ starts[b] = 0
  /\ \/ status[b] \in {"rejected", "timeout"}
     \/ status[b] = "absent" /\ gate[b] \in EndGate
     \/ claimed[b] /\ ~InHand(b)

AbortedIsSpent == \A b \in Batches : outcome[b] = "aborted" => Spent(b)

\* A batch that is not in a hand gets into one by a claim, and is claimed then.
LEMMA SpentStays ==
  ASSUME NEW b \in Batches, Spent(b), starts'[b] = starts[b],
         status[b] \in {"rejected", "timeout"} => status'[b] = status[b],
         status[b] = "absent" /\ gate[b] \in EndGate
           => status'[b] = "absent" /\ gate'[b] \in EndGate,
         claimed[b] => claimed'[b] /\ (InHand(b)' => InHand(b))
  PROVE  Spent(b)'
  BY DEF Spent

\* What is spent is in nobody's hand.
LEMMA SpentIsNotInHand ==
  ASSUME Custody, Ownership, NEW b \in Batches, Spent(b)
  PROVE  ~InHand(b)
  BY DEF Spent, InHand, Custody, Ownership, OneOwner

\* A replay starts a batch that was in a hand, and so is not spent.
LEMMA AbortsOfReplay ==
  ASSUME Custody, Ownership, AbortedIsSpent, NEW c \in Batches, InHand(c),
         UNCHANGED <<outcome, status, claimed, gate>>,
         \A b \in Batches : b # c => starts'[b] = starts[b],
         \A b \in Batches : InHand(b)' => InHand(b)
  PROVE  AbortedIsSpent'
  BY SpentStays, SpentIsNotInHand DEF AbortedIsSpent

\* A gate: only a refused batch is reported as aborted.
LEMMA GateAborts ==
  ASSUME TypeOK, Custody, Ownership, Grace, AbortedIsSpent, NEW b \in Batches, GateStep(b)
  PROVE  AbortedIsSpent'
<1> USE DEF TypeOK, StoreTypeOK, DeferredTypeOK, Advance, AbortedIsSpent, Spent,
            InHand, GateOwns, DeferralOwns, RecOwns, OpnOwns
<1>1. CASE PostRequest(b)
  BY <1>1 DEF PostRequest, Create
<1>2. CASE Announce(b) \/ SlackRaises(b) \/ GiveUpWaiting(b)
  BY <1>2 DEF Announce, SlackRaises, GiveUpWaiting
<1>3. CASE SeeDecision(b)
  BY <1>3 DEF SeeDecision, Refuse, Report, Custody
<1>4. CASE GateTimesOut(b)
  BY <1>4 DEF GateTimesOut, MarkTimeout
<1>5. CASE Claim(b)
  BY <1>5 DEF Claim, MarkExecutionStarted, Claimable
<1>6. CASE ClaimLost(b)
  BY <1>6 DEF ClaimLost, Refuse, Claimable, Grace, BeforeClaim
<1>7. CASE StartNow(b)
  BY <1>7, SpentIsNotInHand DEF StartNow, Launch
<1>8. CASE SaveDeferred(b)
  BY <1>8, SpentIsNotInHand DEF SaveDeferred, Save
<1>9. CASE FinishRun(b)
  BY <1>9 DEF FinishRun, Report
<1>10. CASE SkipLocked(b)
  BY <1>10 DEF SkipLocked
<1>11. CASE DecideToDefer(b)
  BY <1>11, SpentIsNotInHand DEF DecideToDefer
<1> QED
  BY <1>1, <1>2, <1>3, <1>4, <1>5, <1>6, <1>7, <1>8, <1>9, <1>10, <1>11 DEF GateStep

\* The reconciler: a replay that is reported as aborted did not start.
LEMMA RecAborts ==
  ASSUME OneAgent, TypeOK, Custody, Ownership, Grace, AbortedIsSpent, NEW a \in Agents, RecStep(a)
  PROVE  AbortedIsSpent'
<1> USE DEF TypeOK, StoreTypeOK, DeferredTypeOK, AbortedIsSpent, Spent,
            InHand, GateOwns, DeferralOwns, RecOwns, OpnOwns
<1>1. CASE RecTick(a)
  BY <1>1 DEF RecTick, ExpireOverdue
<1>2. CASE RecList(a) \/ RecEnd(a)
  BY <1>2 DEF RecList, RecEnd, RecIdle
<1>3. ASSUME NEW b \in Batches, RecSkip(a, b) PROVE AbortedIsSpent'
  BY <1>3 DEF RecSkip
<1>4. ASSUME NEW b \in Batches, RecClaim(a, b) PROVE AbortedIsSpent'
  <2>1. PICK pc \in {"looping", "owning"}, cur \in {NoBatch, b} :
          /\ RecGoesTo(a, pc, rec[a].open, {}, rec[a].queue \ {b}, cur)
          /\ pc = "owning" => cur = b
    BY <1>4, RecClaimFrame
  <2>2. Claimable(b) /\ MarkExecutionStarted(b) /\ UNCHANGED <<gate, deferred, opn, starts, outcome>>
    BY <1>4 DEF RecClaim
  <2> QED
    BY <2>1, <2>2, ClaimStep, SMTT(20)
<1>5. CASE RecHandOver(a)
  BY <1>5, SpentIsNotInHand DEF RecHandOver, Save, Custody
<1>6. CASE RecReplay(a)
  <2>1. rec[a].cur \in Batches /\ InHand(rec[a].cur)
    BY <1>6, RecReplayFrame DEF Custody
  <2>2. /\ UNCHANGED <<outcome, status, claimed, gate, deferred, opn>>
        /\ \A b \in Batches : b # rec[a].cur => starts'[b] = starts[b]
    BY <1>6, <2>1 DEF RecReplay, Launch
  <2>3. rec'[a].pc = "running" /\ \A c \in Agents : c # a => rec'[c] = rec[c]
    BY <1>6, RecReplayFrame
  <2>4. \A b \in Batches : InHand(b)' => InHand(b)
    BY <2>2, <2>3
  <2> QED
    BY <2>1, <2>2, <2>4, AbortsOfReplay
<1>7. CASE RecFinish(a)
  <2>1. CASE rec[a].pc = "owning"
    BY <1>7, <2>1 DEF RecFinish, Report, Custody, Ownership, OneOwner, OneAgent
  <2>2. CASE rec[a].pc = "running"
    BY <1>7, <2>2 DEF RecFinish, Report
  <2> QED
    BY <1>7, <2>1, <2>2 DEF RecFinish
<1> QED
  BY <1>1, <1>2, <1>3, <1>4, <1>5, <1>6, <1>7 DEF RecStep

\* So for the opener.
LEMMA OpnAborts ==
  ASSUME OneAgent, TypeOK, Custody, Ownership, Grace, AbortedIsSpent, NEW a \in Agents, OpnStep(a)
  PROVE  AbortedIsSpent'
<1> USE DEF TypeOK, StoreTypeOK, DeferredTypeOK, AbortedIsSpent, Spent,
            InHand, GateOwns, DeferralOwns, RecOwns, OpnOwns
<1>1. CASE OpnTick(a)
  BY <1>1 DEF OpnTick, ExpireOld, Pending
<1>2. ASSUME NEW b \in Batches, OpnTake(a, b) PROVE AbortedIsSpent'
  BY <1>2, SpentIsNotInHand DEF OpnTake, MarkExecuting, Ownership
<1>3. CASE OpnReplay(a)
  <2>1. opn[a].cur \in Batches /\ InHand(opn[a].cur)
    BY <1>3, OpnReplayFrame DEF Custody
  <2>2. /\ UNCHANGED <<outcome, status, claimed, gate, deferred, rec>>
        /\ \A b \in Batches : b # opn[a].cur => starts'[b] = starts[b]
    BY <1>3, <2>1 DEF OpnReplay, Launch
  <2>3. opn'[a].pc = "running" /\ \A c \in Agents : c # a => opn'[c] = opn[c]
    BY <1>3, OpnReplayFrame
  <2>4. \A b \in Batches : InHand(b)' => InHand(b)
    BY <2>2, <2>3
  <2> QED
    BY <2>1, <2>2, <2>4, AbortsOfReplay
<1>4. CASE OpnFinish(a)
  <2>1. CASE opn[a].pc = "owning"
    BY <1>4, <2>1 DEF OpnFinish, Report, MarkDone, Custody, Ownership, OneOwner, OneAgent
  <2>2. CASE opn[a].pc = "running"
    BY <1>4, <2>2 DEF OpnFinish, Report, MarkDone
  <2> QED
    BY <1>4, <2>1, <2>2 DEF OpnFinish
<1>5. CASE OpnEnd(a)
  BY <1>5 DEF OpnEnd, OpnIdle
<1> QED
  BY <1>1, <1>2, <1>3, <1>4, <1>5 DEF OpnStep

\* No step reports a batch as aborted that was started or may be.
LEMMA StepAborts ==
  ASSUME OneAgent, TypeOK, Custody, Ownership, Grace, AbortedIsSpent, [Next]_vars
  PROVE  AbortedIsSpent'
<1> USE DEF TypeOK, StoreTypeOK, DeferredTypeOK, AbortedIsSpent, Spent,
            InHand, GateOwns, DeferralOwns, RecOwns, OpnOwns
<1>1. ASSUME NEW b \in Batches, NEW h \in Agents \cup {NoAgent}, Begin(b, h)
      PROVE  AbortedIsSpent'
  BY <1>1 DEF Begin
<1>2. ASSUME NEW b \in Batches, Blocked(b) PROVE AbortedIsSpent'
  BY <1>2 DEF Blocked, Advance, Grace, Custody
<1>3. ASSUME NEW b \in Batches, Decision(b) PROVE AbortedIsSpent'
  BY <1>3 DEF Decision, Decide
<1>4. ASSUME NEW b \in Batches, ApprovalTimePasses(b) \/ DeferralTimePasses(b)
      PROVE  AbortedIsSpent'
  BY <1>4 DEF ApprovalTimePasses, TimeoutElapses, GraceElapses, DeferralTimePasses, DeferralElapses
<1>5. ASSUME NEW b \in Batches, GateDies(b) PROVE AbortedIsSpent'
  BY <1>5 DEF GateDies
<1>6. ASSUME NEW a \in Agents, RecDies(a) PROVE AbortedIsSpent'
  BY <1>6 DEF RecDies, RecIdle
<1>7. ASSUME NEW a \in Agents, OpnDies(a) PROVE AbortedIsSpent'
  BY <1>7 DEF OpnDies, OpnIdle, MarkDone
<1>8. ASSUME NEW a \in Agents, Crash(a) PROVE AbortedIsSpent'
  BY <1>8 DEF Crash, RecIdle, OpnIdle
<1>9. ASSUME NEW a \in Agents, Restart(a) PROVE AbortedIsSpent'
  BY <1>9 DEF Restart
<1>10. CASE \/ OpensAtStart \/ OpensAtMidnight \/ FiresElsewhere \/ WindowCloses
            \/ UNCHANGED vars
  BY <1>10 DEF OpensAtStart, OpensAtMidnight, FiresElsewhere, CronFiring, WindowCloses, vars, OpnIdle
<1> QED
  BY <1>1, <1>2, <1>3, <1>4, <1>5, <1>6, <1>7, <1>8, <1>9, <1>10, GateAborts, RecAborts, OpnAborts
  DEF Next

\* With one agent, and gates that have claimed before the reconciler's grace is
\* over, no batch that ran is called aborted: whoever loses a race for a batch
\* never writes ABORTED over the one who won it (BatchStore.update_status).
THEOREM AbortedIsNotStarted ==
  ASSUME OneAgent, PromptGates
  PROVE  Spec => []AbortedMeansNotStarted
<1>1. Init => Grace /\ AbortedIsSpent
  <2>1. Init => AbortedIsSpent
    BY DEF Init, AbortedIsSpent
  <2> QED
    BY <2>1, InitGrace
<1>2. /\ TypeOK /\ Custody /\ Ownership /\ (TypeOK /\ Custody /\ Ownership)'
      /\ Grace /\ AbortedIsSpent /\ [Next]_vars
      => (Grace /\ AbortedIsSpent)'
  BY StepGrace, StepAborts
<1>3. AbortedIsSpent => AbortedMeansNotStarted
  BY DEF AbortedIsSpent, Spent, AbortedMeansNotStarted
<1> QED
  BY <1>1, <1>2, <1>3, OwnershipInvariant, PTL DEF Spec

-----------------------------------------------------------------------------
(* The steps that the contract does not see *)

Unseen == UNCHANGED <<status, items, claimed, starts>>

\* What a gate step is to the contract: nothing, or one of these.
LEMMA GateSeen ==
  ASSUME NEW b \in Batches, GateStep(b)
  PROVE  Unseen \/ PostRequest(b) \/ GateTimesOut(b) \/ Claim(b) \/ StartNow(b)
<1> USE DEF Unseen
<1>1. CASE Announce(b) \/ SlackRaises(b) \/ GiveUpWaiting(b) \/ SkipLocked(b) \/ DecideToDefer(b)
  BY <1>1 DEF Announce, SlackRaises, GiveUpWaiting, SkipLocked, DecideToDefer
<1>2. CASE SeeDecision(b) \/ ClaimLost(b) \/ FinishRun(b)
  BY <1>2 DEF SeeDecision, ClaimLost, FinishRun, Refuse, Report
<1>3. CASE SaveDeferred(b)
  BY <1>3 DEF SaveDeferred
<1> QED
  BY <1>1, <1>2, <1>3 DEF GateStep

\* Of the steps of the jobs, the contract sees expiry, claims and replays only.
LEMMA JobSeen ==
  ASSUME NEW a \in Agents, RecStep(a) \/ OpnStep(a)
  PROVE  \/ Unseen \/ RecTick(a) \/ RecReplay(a) \/ OpnReplay(a)
         \/ \E b \in Batches : RecClaim(a, b)
<1> USE DEF Unseen
<1>1. CASE RecList(a) \/ RecHandOver(a) \/ RecFinish(a) \/ RecEnd(a)
  BY <1>1 DEF RecList, RecHandOver, RecFinish, RecEnd, Report
<1>2. ASSUME NEW b \in Batches, RecSkip(a, b) PROVE Unseen
  BY <1>2 DEF RecSkip
<1>3. ASSUME NEW b \in Batches, OpnTake(a, b) PROVE Unseen
  BY <1>3 DEF OpnTake
<1>4. CASE OpnTick(a) \/ OpnFinish(a) \/ OpnEnd(a)
  BY <1>4 DEF OpnTick, OpnFinish, OpnEnd, Report
<1> QED
  BY <1>1, <1>2, <1>3, <1>4 DEF RecStep, OpnStep

\* What the contract sees of a step: requests, decisions, time-outs, claims and starts.
LEMMA StepSeen ==
  ASSUME [Next]_vars
  PROVE  \/ Unseen
         \/ \E b \in Batches :
              \/ PostRequest(b) \/ GateTimesOut(b) \/ Claim(b) \/ StartNow(b) \/ Decision(b)
              \/ \E a \in Agents : RecClaim(a, b)
         \/ \E a \in Agents : RecTick(a) \/ RecReplay(a) \/ OpnReplay(a)
<1> USE DEF Unseen
<1>1. ASSUME NEW b \in Batches, NEW h \in Agents \cup {NoAgent}, Begin(b, h) PROVE Unseen
  BY <1>1 DEF Begin
<1>2. ASSUME NEW b \in Batches,
             Blocked(b) \/ ApprovalTimePasses(b) \/ DeferralTimePasses(b) \/ GateDies(b)
      PROVE  Unseen
  BY <1>2 DEF Blocked, ApprovalTimePasses, TimeoutElapses, GraceElapses, DeferralTimePasses,
              GateDies
<1>3. ASSUME NEW a \in Agents, RecDies(a) \/ OpnDies(a) \/ Crash(a) \/ Restart(a) PROVE Unseen
  BY <1>3 DEF RecDies, OpnDies, Crash, Restart
<1>4. CASE \/ OpensAtStart \/ OpensAtMidnight \/ FiresElsewhere \/ WindowCloses
            \/ UNCHANGED vars
  BY <1>4 DEF OpensAtStart, OpensAtMidnight, FiresElsewhere, WindowCloses, vars
<1> QED
  BY <1>1, <1>2, <1>3, <1>4, GateSeen, JobSeen DEF Next

-----------------------------------------------------------------------------
(* Decisions *)

\* The rows that are decided keep their status and selection in one step.
DecidedStays == \A b \in Batches :
  status[b] \in Decided => status'[b] = status[b] /\ items'[b] = items[b]

\* No step undoes a decision or a time-out.
LEMMA StepKeepsDecisions ==
  ASSUME TypeOK, [Next]_vars
  PROVE  DecidedStays
<1> USE DEF TypeOK, StoreTypeOK, DecidedStays
<1>1. CASE Unseen
  BY <1>1 DEF Unseen
<1>2. ASSUME NEW b \in Batches, PostRequest(b) PROVE DecidedStays
  BY <1>2 DEF PostRequest, Create
<1>3. ASSUME NEW b \in Batches, GateTimesOut(b) PROVE DecidedStays
  BY <1>3 DEF GateTimesOut, MarkTimeout
<1>4. ASSUME NEW b \in Batches, Claim(b) \/ StartNow(b) PROVE DecidedStays
  BY <1>4 DEF Claim, StartNow, MarkExecutionStarted
<1>5. ASSUME NEW b \in Batches, Decision(b) PROVE DecidedStays
  BY <1>5 DEF Decision, Decide
<1>6. ASSUME NEW a \in Agents, NEW b \in Batches, RecClaim(a, b) PROVE DecidedStays
  BY <1>6 DEF RecClaim, MarkExecutionStarted
<1>7. ASSUME NEW a \in Agents, RecTick(a) PROVE DecidedStays
  BY <1>7 DEF RecTick, ExpireOverdue
<1>8. ASSUME NEW a \in Agents, RecReplay(a) \/ OpnReplay(a) PROVE DecidedStays
  BY <1>8 DEF RecReplay, OpnReplay
<1> QED
  BY <1>1, <1>2, <1>3, <1>4, <1>5, <1>6, <1>7, <1>8, StepSeen

\* No step of any process alters a recorded decision or its item selection: a
\* second decider, a gate's timeout, an expiry pass and a re-created request
\* all meet the WHERE status = 'pending' of their statement.
THEOREM DecisionsStay == Spec => DecisionsAreFinal
<1>1. Init => TypeOK
  BY InitType
<1>2. TypeOK /\ [Next]_vars => TypeOK'
  BY StepType
<1>3. TypeOK /\ [Next]_vars => DecidedStays
  BY StepKeepsDecisions
<1> QED
  BY <1>1, <1>2, <1>3, PTL DEF Spec, DecisionsAreFinal, DecidedStays

-----------------------------------------------------------------------------
(* Refinement *)

\* Before the first request the contract has not begun either.
LEMMA InitContract == Init => Contract!Init
  BY DEF Init, StoreInit, Contract!Init, VerdictOf

\* A step that touches neither the table nor the executions stutters.
LEMMA UnseenContract ==
  ASSUME Unseen
  PROVE  UNCHANGED Contract!vars
  BY DEF Unseen, Contract!vars, VerdictOf

\* The first start of a claimed batch is the run of the contract.
LEMMA LaunchContract ==
  ASSUME TypeOK, NEW b \in Batches, claimed[b], starts[b] = 0, Launch(b),
         UNCHANGED <<status, claimed>>
  PROVE  Contract!Run(b)
<1>1. starts' = [starts EXCEPT ![b] = 1]
  BY LaunchStep
<1> QED
  BY <1>1 DEF Contract!Run, VerdictOf

\* A won claim is the taking of the contract.
LEMMA ClaimContract ==
  ASSUME TypeOK, NEW b \in Batches, Claimable(b), MarkExecutionStarted(b), UNCHANGED starts
  PROVE  Contract!Take(b)
<1>1. claimed' = [claimed EXCEPT ![b] = TRUE]
  BY ClaimStep DEF TypeOK, StoreTypeOK, MarkExecutionStarted
<1>2. ~claimed[b] /\ VerdictOf(status[b]) = "approved" /\ UNCHANGED status
  BY ClaimStep DEF VerdictOf
<1> QED
  BY <1>1, <1>2 DEF Contract!Take

\* Requests that time out together are refused together.
LEMMA RefuseContract ==
  ASSUME TypeOK, NEW S \in SUBSET Batches,
         \A b \in S : status[b] = "pending",
         status' = [b \in Batches |-> IF b \in S THEN "timeout" ELSE status[b]],
         UNCHANGED <<claimed, starts>>
  PROVE  Contract!Refuse(S)
  BY DEF TypeOK, StoreTypeOK, Contract!Refuse, VerdictOf

\* Every step is one of the contract, or a stutter of it.
LEMMA StepContract ==
  ASSUME TypeOK, Custody, Ownership, [Next]_vars
  PROVE  [Contract!Next]_(Contract!vars)
<1> USE DEF TypeOK, StoreTypeOK
<1>1. CASE Unseen
  BY <1>1, UnseenContract
<1>2. ASSUME NEW b \in Batches, PostRequest(b) PROVE [Contract!Next]_(Contract!vars)
  <2>1. CASE status[b] = "absent"
    <3>1. Contract!Request(b)
      BY <1>2, <2>1 DEF PostRequest, Create, Contract!Request, VerdictOf
    <3> QED
      BY <3>1 DEF Contract!Next
  <2>2. CASE status[b] # "absent"
    BY <1>2, <2>2, UnseenContract DEF PostRequest, Create, Unseen
  <2> QED
    BY <2>1, <2>2
<1>3. ASSUME NEW b \in Batches, GateTimesOut(b) PROVE [Contract!Next]_(Contract!vars)
  <2> DEFINE S == {c \in {b} : status[c] = "pending"}
  <2>1. S \in SUBSET Batches /\ \A c \in S : status[c] = "pending"
    OBVIOUS
  <2>2. status' = [status EXCEPT ![b] = IF status[b] = "pending" THEN "timeout" ELSE status[b]]
    BY <1>3 DEF GateTimesOut, MarkTimeout
  <2>3. status' = [c \in Batches |-> IF c \in S THEN "timeout" ELSE status[c]]
    BY <2>2
  <2>4. UNCHANGED <<claimed, starts>>
    BY <1>3 DEF GateTimesOut, MarkTimeout, runVars
  <2>5. Contract!Refuse(S)
    BY <2>1, <2>3, <2>4, RefuseContract
  <2> QED
    BY <2>1, <2>5 DEF Contract!Next
<1>4. ASSUME NEW b \in Batches, Claim(b) PROVE [Contract!Next]_(Contract!vars)
  <2>1. Contract!Take(b)
    BY <1>4, ClaimContract DEF Claim
  <2> QED
    BY <2>1 DEF Contract!Next
<1>5. ASSUME NEW b \in Batches, StartNow(b) PROVE [Contract!Next]_(Contract!vars)
  <2>1. claimed[b] /\ starts[b] = 0
    BY <1>5 DEF StartNow, Advance, Ownership, OneOwner, Custody, GateOwns
  <2>2. Contract!Run(b)
    BY <1>5, <2>1, LaunchContract DEF StartNow
  <2> QED
    BY <2>2 DEF Contract!Next
<1>6. ASSUME NEW b \in Batches, Decision(b) PROVE [Contract!Next]_(Contract!vars)
  <2>1. PICK to \in Verdicts : /\ status[b] = "pending"
                              /\ status' = [status EXCEPT ![b] = to]
                              /\ UNCHANGED <<claimed, starts>>
    BY <1>6 DEF Decision, Decide
  <2>2. CASE to = "approved"
    <3>1. Contract!Approve(b)
      BY <2>1, <2>2 DEF Contract!Approve, VerdictOf
    <3> QED
      BY <3>1 DEF Contract!Next
  <2>3. CASE to = "rejected"
    <3>1. Contract!Refuse({b})
      BY <2>1, <2>3 DEF Contract!Refuse, VerdictOf
    <3> QED
      BY <3>1 DEF Contract!Next
  <2> QED
    BY <2>2, <2>3
<1>7. ASSUME NEW a \in Agents, NEW b \in Batches, RecClaim(a, b)
      PROVE  [Contract!Next]_(Contract!vars)
  <2>1. Contract!Take(b)
    BY <1>7, ClaimContract DEF RecClaim
  <2> QED
    BY <2>1 DEF Contract!Next
<1>8. ASSUME NEW a \in Agents, RecTick(a) PROVE [Contract!Next]_(Contract!vars)
  <2>1. Contract!Refuse({b \in Batches : status[b] = "pending" /\ overdue[b]})
    BY <1>8, RefuseContract DEF RecTick, ExpireOverdue
  <2> QED
    BY <2>1 DEF Contract!Next
<1>9. ASSUME NEW a \in Agents, RecReplay(a) PROVE [Contract!Next]_(Contract!vars)
  <2>1. rec[a].cur \in Batches /\ claimed[rec[a].cur] /\ starts[rec[a].cur] = 0
    BY <1>9 DEF RecReplay, Ownership, OneOwner, Custody, RecOwns
  <2>2. Contract!Run(rec[a].cur)
    BY <1>9, <2>1, LaunchContract DEF RecReplay
  <2> QED
    BY <2>1, <2>2 DEF Contract!Next
<1>10. ASSUME NEW a \in Agents, OpnReplay(a) PROVE [Contract!Next]_(Contract!vars)
  <2>1. opn[a].cur \in Batches /\ claimed[opn[a].cur] /\ starts[opn[a].cur] = 0
    BY <1>10 DEF OpnReplay, Ownership, OneOwner, Custody, OpnOwns
  <2>2. Contract!Run(opn[a].cur)
    BY <1>10, <2>1, LaunchContract DEF OpnReplay
  <2> QED
    BY <2>1, <2>2 DEF Contract!Next
<1> QED
  BY <1>1, <1>2, <1>3, <1>4, <1>5, <1>6, <1>7, <1>8, <1>9, <1>10, StepSeen

\* With one agent, every behaviour of gate, web UI, reconciler, opener and
\* faults is one that the contract allows: one request, one verdict, one
\* taking after an approval, one run.
THEOREM PipelineImplementsContract ==
  ASSUME OneAgent
  PROVE  Spec => ImplementsContract
<1>1. Init => TypeOK /\ Custody /\ Ownership /\ Contract!Init
  BY InitType, InitCustody, InitOwnership, InitContract
<1>2. TypeOK /\ Custody /\ Ownership /\ [Next]_vars
        => (TypeOK /\ Custody /\ Ownership)' /\ [Contract!Next]_(Contract!vars)
  BY StepType, StepCustody, StepOwnership, StepContract
<1> QED
  BY <1>1, <1>2, PTL DEF Spec, ImplementsContract, Contract!Spec
=============================================================================
