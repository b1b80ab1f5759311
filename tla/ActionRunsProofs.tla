--------------------------- MODULE ActionRunsProofs ---------------------------
(***************************************************************************)
(* Theorems about ActionRuns.  Each kind of run has an invariant of its    *)
(* own, which says what holds at each node; runs of another kind leave the *)
(* part of the state it is about alone.                                    *)
(***************************************************************************)
EXTENDS ActionRuns, TLAPS

\* Nothing has happened before a run begins.
RunIdle == kind = "none" => /\ node = "end"
                            /\ status = "unset"
                            /\ ~touched
                            /\ ~raised

----------------------------------------------------------------------------
\* Patching.

BeforeInstall == {"preflight_lock", "validate", "assess", "snapshot", "service_pre", "execute"}

AfterVerify == {"reboot_check", "service_post"}

Matched == stale \/ \A p \in pinned : AtTarget(p)

\* Up to the install command nothing was changed and no verdict given; behind it
\* the status is SUCCESS, and FAILED leads to the rollback.
PatchCourse ==
  kind = "patching" =>
    /\ node \in BeforeInstall \cup AfterVerify \cup {"verify", "rollback", "end"}
    /\ node \in BeforeInstall => ~touched /\ status \in {"unset", "pending", "failed"}
    /\ node \in AfterVerify \cup {"verify"} => status = "success" /\ bare = {}
    /\ node \in AfterVerify => Matched
    /\ node = "rollback" => status = "failed"

PatchInv == RunIdle /\ PatchCourse /\ PatchingTellsTheTruth

----------------------------------------------------------------------------
\* Docker hygiene.

\* Other runs find and leave this part as it was.
DockerIdle == kind # "docker_hygiene" =>
                /\ row = NoRow
                /\ approval = {}
                /\ queue = {}
                /\ held = {}
                /\ said = NoResults
                /\ results = NoResults
                /\ ~running
                /\ removed = {}
                /\ objects = [o \in Objects |-> "gone"]

\* The row keeps its four columns; an approval has the hash of what it shows and
\* ticks executable objects of it only.
RowKept == /\ row = [status |-> row.status, shows |-> row.shows,
                     items |-> row.items, hash |-> row.hash]
           /\ row.status = "approved" => row.hash = row.shows
           /\ row.items \subseteq DOMAIN row.shows \cap Executable
           /\ row.items # {} => row.status = "approved"

\* The objects behind gate 1.
AtWork == queue \cup held \cup removed

\* The run's approval is the row's; behind gate 1 the assessment is the one the
\* hash was taken from.
ApprovalHeld ==
  /\ approval # {} => row.status = "approved" /\ approval = row.items /\ hash = row.shows
  /\ kind = "docker_hygiene" /\ node = "execute" => approval # {}
  /\ AtWork \subseteq approval
  /\ AtWork # {} \/ running => /\ touched
                               /\ hash = assessment
                               /\ node \in {"execute", "end"}

\* Every object is in a condition its class can be in; what is held or gone
\* passed gate 2.
GateTwoPassed ==
  /\ \A o \in Objects : objects[o] \in ConditionsOf(ClassOf[o])
  /\ \A o \in held \cup removed :
       /\ admitted[o] # "gone"
       /\ ClassOf[o] # "image_unused" => admitted[o] # "busy"
       /\ row.shows[o] = "cleanup_candidate" => admitted[o] # "dirty"

DockerInv == RunIdle /\ DockerIdle /\ RowKept /\ ApprovalHeld /\ GateTwoPassed

\* A line is worked off once; what the wrapper said of it is so.
SaidTrue ==
  /\ queue \cap (held \cup removed) = {}
  /\ held \cap removed = {}
  /\ DOMAIN said \cap (queue \cup held) = {}
  /\ removed \subseteq DOMAIN said
  /\ \A o \in DOMAIN said : said[o] = "removed" => o \in removed
  /\ \A o \in removed : said[o] \in {"removed", "failed"}

\* Without results the run has not succeeded, and if it is over it has failed;
\* with them it is over and the wrapper too.
Outcome ==
  kind = "docker_hygiene" =>
    /\ node = "approval" \/ approval # {} => ~dry
    /\ touched => ~dry /\ approval # {} /\ node \in {"execute", "end"}
    /\ touched /\ node = "execute" => running
    /\ ~touched => AtWork = {} /\ said = NoResults /\ results = NoResults /\ ~running
    /\ results = NoResults => status # "success"
    /\ results = NoResults /\ node = "end" /\ touched => status = "failed"
    /\ results # NoResults => /\ node = "end"
                              /\ ~running
                              /\ DOMAIN results = approval
    /\ \A o \in DOMAIN results : results[o] = "removed" => o \in removed
    /\ \A o \in removed \cap DOMAIN results : results[o] \in {"removed", "failed"}
    /\ status = "success" => removed # {} /\ \A o \in DOMAIN results : results[o] # "failed"
    /\ touched /\ node = "end" => status \in {"success", "failed", "skipped"}

OutcomeInv == SaidTrue /\ Outcome

----------------------------------------------------------------------------
\* Housekeeping.

Mutating == Chores \ {"backup_verify"}

HouseCourse ==
  /\ kind \in Chores => node \in {"validate", "assess", "snapshot", "execute", "verify", "end"}
  /\ kind = "backup_verify" => ~touched
  /\ kind \in Chores /\ node = "validate" => ~touched
  /\ kind \in Mutating /\ node \notin {"validate", "end"} => good

CleanupCourse ==
  /\ kind # "disk_cleanup" \/ node \in {"validate", "assess"} => ~matched
  /\ kind # "disk_cleanup" \/ node \in {"validate", "assess", "execute"} => taken = {}
  /\ matched => ~dry
  /\ matched /\ told /\ ~moved /\ node = "execute" => orphans \subseteq candidates

LogCourse ==
  /\ kind # "log_rotation" => begun = {}
  /\ node \in {"validate", "assess", "execute"} => begun \subseteq file

HouseInv == RunIdle /\ HouseCourse /\ CleanupCourse /\ LogCourse /\ HousekeepingHoldsBack

----------------------------------------------------------------------------
\* Observation.

SightIdle == kind # "observe" => /\ captures = NoCaptures
                                 /\ firsts = {}
                                 /\ diffs = {}
                                 /\ changes = {}
                                 /\ alerts = {}
                                 /\ trail = {}
                                 /\ ~lost
                                 /\ baseline = before

\* Before the drift checks nothing was stored, behind them nothing is left over.
SightCourse ==
  kind = "observe" =>
    /\ node \in {"disk_snapshot", "drift_baseline", "failed_logins", "end"}
    /\ node # "end" => ~raised
    /\ node = "disk_snapshot" => /\ baseline = before
                                 /\ changes = {}
                                 /\ alerts = {}
                                 /\ trail = {}
                                 /\ captures = NoCaptures
                                 /\ firsts \cup diffs = {}
    /\ node = "failed_logins" \/ (node = "end" /\ ~raised) => firsts \cup diffs = {}
    /\ dry => captures = NoCaptures /\ firsts \cup diffs = {} /\ baseline = before

\* A scope is stored once; until then it is as it was.
StoredOnce ==
  /\ \A s \in Scopes : CheckOf(s) \in todo \/ s \in DOMAIN captures => baseline[s] = before[s]
  /\ \A s \in DOMAIN captures : CheckOf(s) \notin todo
  /\ \A s, t \in firsts \cup diffs : s = t
  /\ diffs \subseteq Moved

\* What moved is reported or about to be, and has its row or is about to get it.
Reported ==
  /\ ~raised => changes = Moved \ diffs
  /\ ~raised /\ ~lost =>
       /\ \A s \in Scopes : baseline[s] # before[s] => s \in trail \cup firsts \cup diffs
       /\ Moved \ trail \subseteq diffs
       /\ alerts \subseteq trail
  /\ ~lost => \A s, t \in Moved \ trail : s = t

SightInv == RunIdle /\ SightIdle /\ SightCourse /\ StoredOnce /\ Reported

----------------------------------------------------------------------------
\* What the nodes have in common.

\* A node that returns, and one that raises, keep the types of what every
\* sub-graph has.
LEMMA NodeTypes ==
  ASSUME RunTypeOK, NEW n \in Nodes, NEW s \in Statuses, Goes(n, s) \/ Acts(n, s)
  PROVE  RunTypeOK'
BY DEF RunTypeOK, Goes, Acts

\* So does an exception.
LEMMA RaiseTypes ==
  ASSUME RunTypeOK, Raises(TRUE) \/ Raises(FALSE)
  PROVE  RunTypeOK'
BY DEF RunTypeOK, Raises, Nodes, Statuses

\* So do the beginning of a run and a change by others.
LEMMA EdgeTypes ==
  ASSUME RunTypeOK, NEW k \in Kinds, NEW n \in Nodes, Enter(k, n) \/ Drifts(k)
  PROVE  RunTypeOK'
BY SubGraphAssumption DEF RunTypeOK, Enter, Drifts

\* Patching moves a patching run, and its own part of the state only.
LEMMA PatchingFrame ==
  ASSUME PatchingMoves
  PROVE  /\ kind' = "patching"
         /\ kind \in {"none", "patching"}
         /\ UNCHANGED <<docker, house>>
<1>1. UNCHANGED <<docker, house>>
  BY DEF PatchingMoves
<1>2. CASE BeginPatching
  BY <1>1, <1>2 DEF BeginPatching, Preview, Enter
<1>3. CASE PatchingStep
  BY <1>1, <1>3 DEF PatchingStep, PreflightLock, ValidatePatching, AssessPatching, AssessApproved,
     AssessFresh, Upgradable, Snapshot, ServicePre, ExecutePatching, ExecuteDry, RefuseExecute, Install,
     VerifyPatching, RebootCheck, ServicePost, Rollback, NoSnapshot, Reinstall, Requery, At, Goes, Acts, Raises
<1>4. CASE SomeoneUpdates
  BY <1>1, <1>4 DEF SomeoneUpdates, Drifts
<1> QED
  BY <1>2, <1>3, <1>4 DEF PatchingMoves

\* Housekeeping moves a run of one of its four kinds.
LEMMA HousekeepingFrame ==
  ASSUME HousekeepingMoves
  PROVE  /\ kind' \in Chores
         /\ kind = "none" \/ kind' = kind
         /\ UNCHANGED <<packages, docker>>
<1>1. UNCHANGED <<packages, docker>>
  BY DEF HousekeepingMoves
<1>2. CASE BeginHousekeeping
  BY <1>1, <1>2 DEF BeginHousekeeping, BeginDiskCleanup, BeginLogRotation, BeginCheck, Enter, Chores
<1>3. CASE HousekeepingStep
  <2>1. CASE ValidateCleanup \/ AssessCleanup \/ ExecuteCleanup \/ VerifyCleanup
    BY <1>1, <2>1 DEF ValidateCleanup, AssessCleanup, ExecuteCleanup, SimulateCleanup, CleanPaths,
       GateOrphans, Autoremove, VerifyCleanup, At, Goes, Acts, Raises, Chores
  <2>2. CASE ValidateLogs \/ AssessLogs \/ ExecuteLogs \/ VerifyLogs
    BY <1>1, <2>2 DEF ValidateLogs, AssessLogs, ExecuteLogs, SimulateLogs, NothingToRotate, Rotate,
       VerifyLogs, At, Goes, Acts, Raises, Chores
  <2>3. CASE ValidateBackup \/ AssessBackup \/ VerifyBackup
    BY <1>1, <2>3 DEF ValidateBackup, AssessBackup, VerifyBackup, At, Goes, Acts, Raises, Chores
  <2>4. CASE ValidateRestart \/ SnapshotRestart \/ ExecuteRestart \/ VerifyRestart
    BY <1>1, <2>4 DEF ValidateRestart, SnapshotRestart, ExecuteRestart, VerifyRestart, At, Goes,
       Acts, Raises, Chores
  <2> QED
    BY <1>3, <2>1, <2>2, <2>3, <2>4 DEF HousekeepingStep, CleanupStep, LogStep,
       BackupStep, RestartStep
<1>4. CASE HousekeepingOthers
  BY <1>1, <1>4 DEF HousekeepingOthers, SomeoneOrphans, SomeoneLogs, SomeoneServes, Drifts, Chores
<1> QED
  BY <1>2, <1>3, <1>4 DEF HousekeepingMoves

\* Docker hygiene moves a Docker run: before it there is no row to write to and no
\* wrapper at work.
LEMMA DockerFrame ==
  ASSUME DockerIdle, DockerMoves
  PROVE  /\ kind' = "docker_hygiene"
         /\ kind \in {"none", "docker_hygiene"}
         /\ UNCHANGED <<packages, house>>
<1>1. UNCHANGED <<packages, house>>
  BY DEF DockerMoves
<1>2. CASE BeginDocker
  BY <1>1, <1>2 DEF BeginDocker, Enter
<1>3. CASE ValidateDocker \/ AssessDocker \/ Register \/ WaitTimesOut \/ TakeDecision
  BY <1>1, <1>3 DEF ValidateDocker, AssessDocker, Register, WaitTimesOut, TakeDecision, Approve, At, Goes, Raises
<1>4. CASE ExecuteDocker
  BY <1>1, <1>4 DEF ExecuteDocker, RefuseDrift, Launch, SessionLost, At, Goes, Acts, Raises
<1>5. CASE WrapperStep
  <2>1. running /\ kind = "docker_hygiene"
    BY <1>5 DEF WrapperStep, WrapperExits, WrapperDies, GateTwo, RemoveHeld, DockerIdle
  <2>2. kind' = kind
    BY <1>5 DEF WrapperStep, WrapperExits, WrapperDies, GateTwo, RemoveHeld, run, Goes
  <2> QED
    BY <1>1, <2>1, <2>2
<1>6. CASE OperatorDecides \/ ReconcilerExpires \/ ClockRuns
  <2>1. row.status # "none" /\ kind' = kind
    BY <1>6 DEF OperatorDecides, ReconcilerExpires, ClockRuns, Decide, MarkTimeout, TimePasses,
       IsPending, run
  <2>2. NoRow.status = "none"
    BY DEF NoRow
  <2> QED
    BY <1>1, <2>1, <2>2 DEF DockerIdle
<1>7. CASE Polls \/ SomeoneUsesDocker
  BY <1>1, <1>7 DEF Polls, SomeoneUsesDocker, Drifts, At, run
<1> QED
  BY <1>2, <1>3, <1>4, <1>5, <1>6, <1>7 DEF DockerMoves, DockerStep, DockerOthers

----------------------------------------------------------------------------
\* Types.

\* What a step leaves alone keeps its types.
LEMMA KeptTypes ==
  /\ PatchTypeOK /\ UNCHANGED packages => PatchTypeOK'
  /\ HouseTypeOK /\ UNCHANGED house => HouseTypeOK'
  /\ DockerTypeOK /\ UNCHANGED docker => DockerTypeOK'
  /\ SightTypeOK /\ UNCHANGED sight => SightTypeOK'
<1>1. PatchTypeOK /\ UNCHANGED packages => PatchTypeOK'
  BY DEF packages, approvedList, services, PatchTypeOK
<1>2. HouseTypeOK /\ UNCHANGED house => HouseTypeOK'
  BY DEF house, cleanup, logs, health, HouseTypeOK
<1>3. DockerTypeOK /\ UNCHANGED docker => DockerTypeOK'
  BY DEF docker, gates, past, DockerTypeOK
<1>4. SightTypeOK /\ UNCHANGED sight => SightTypeOK'
  BY DEF sight, drift, locals, disks, SightTypeOK
<1> QED
  BY <1>1, <1>2, <1>3, <1>4

\* Patching keeps the types of its part.
LEMMA PatchingTypes ==
  ASSUME RunTypeOK, PatchTypeOK, PatchingMoves
  PROVE  RunTypeOK' /\ PatchTypeOK'
<1>1. CASE BeginPatching
  BY <1>1, EdgeTypes DEF BeginPatching, Preview, PatchTypeOK, Kinds, Nodes
<1>2. CASE PreflightLock \/ ValidatePatching
  <2>1. RunTypeOK'
    BY <1>2, NodeTypes, RaiseTypes DEF PreflightLock, ValidatePatching, RunTypeOK, Nodes, Statuses
  <2>2. UNCHANGED packages
    BY <1>2 DEF PreflightLock, ValidatePatching
  <2> QED
    BY <2>1, <2>2, KeptTypes
<1>3. CASE AssessPatching
  <2>1. \A work : RouteAfterAssess(work) \in Nodes
    BY DEF RouteAfterAssess, Nodes
  <2>2. CASE AssessApproved
    <3>1. RunTypeOK'
      BY <2>1, <2>2, NodeTypes, RaiseTypes DEF AssessApproved, RunTypeOK, Nodes, Statuses
    <3>2. pending' \in SUBSET Packages
      BY <2>2 DEF AssessApproved, Outdated, PatchTypeOK
    <3> QED
      BY <2>2, <3>1, <3>2 DEF AssessApproved, approvedList, services, PatchTypeOK
  <2>3. CASE AssessFresh
    <3>1. RunTypeOK'
      BY <2>1, <2>3, NodeTypes, RaiseTypes DEF AssessFresh, Upgradable, RunTypeOK, Nodes, Statuses
    <3>2. pending' \in SUBSET Packages
      BY <2>3 DEF AssessFresh, Upgradable, PatchTypeOK
    <3> QED
      BY <2>3, <3>1, <3>2 DEF AssessFresh, Upgradable, approvedList, services, PatchTypeOK
  <2> QED
    BY <1>3, <2>2, <2>3 DEF AssessPatching
<1>4. CASE Snapshot
  <2>1. RunTypeOK'
    BY <1>4, NodeTypes, RaiseTypes DEF Snapshot, RunTypeOK, Nodes, Statuses
  <2>2. snapshot' \in {snapshot, Captured}
    BY <1>4 DEF Snapshot
  <2>3. DOMAIN snapshot' \subseteq Packages /\ \A p \in DOMAIN snapshot' : snapshot'[p] \in Versions
    BY <2>2 DEF PatchTypeOK, Captured
  <2> QED
    BY <1>4, <2>1, <2>3 DEF Snapshot, approvedList, services, PatchTypeOK
<1>5. CASE ServicePre
  BY <1>5, NodeTypes, RaiseTypes DEF ServicePre, CheckServices, approvedList, PatchTypeOK, RunTypeOK, Nodes, Statuses
<1>6. CASE ExecutePatching
  <2>1. CASE ExecuteDry \/ RefuseExecute
    BY <2>1, NodeTypes, RaiseTypes DEF ExecuteDry, RefuseExecute, RouteAfterExecute, packages, approvedList, services,
       PatchTypeOK, Nodes, Statuses
  <2>2. CASE Install
    BY <2>2, NodeTypes, RaiseTypes DEF Install, AfterInstall, RouteAfterExecute, approvedList, PatchTypeOK,
       Nodes, Statuses
  <2> QED
    BY <1>6, <2>1, <2>2 DEF ExecutePatching
<1>7. CASE VerifyPatching
  <2>1. RunTypeOK'
    BY <1>7, NodeTypes, RaiseTypes DEF VerifyPatching, RouteAfterVerify, RunTypeOK, Nodes, Statuses
  <2> QED
    BY <1>7, <2>1 DEF VerifyPatching, approvedList, services, PatchTypeOK
<1>8. CASE RebootCheck \/ ServicePost
  <2>1. RunTypeOK'
    BY <1>8, NodeTypes, RaiseTypes DEF RebootCheck, ServicePost, RunTypeOK, Nodes, Statuses
  <2>2. CASE RebootCheck
    BY <2>1, <2>2 DEF RebootCheck, SetNeedsReboot, RebootRequired, approvedList, PatchTypeOK
  <2>3. CASE ServicePost
    BY <2>1, <2>3 DEF ServicePost, FindRegressions, CheckServices, approvedList, PatchTypeOK
  <2> QED
    BY <1>8, <2>2, <2>3
<1>9. CASE Rollback
  <2>1. CASE NoSnapshot
    BY <2>1, NodeTypes, RaiseTypes DEF NoSnapshot, packages, approvedList, services, PatchTypeOK, Nodes, Statuses
  <2>2. CASE Reinstall
    <3>1. RunTypeOK'
      BY <2>2, NodeTypes, RaiseTypes DEF Reinstall, Requery, Nodes, Statuses
    <3>2. installed' \in [Packages -> Versions] /\ stale' \in BOOLEAN /\ unread' \in BOOLEAN
      BY <2>2 DEF Reinstall, Requery, AfterInstall, PatchTypeOK
    <3> QED
      BY <2>2, <3>1, <3>2 DEF Reinstall, Requery, approvedList, services, PatchTypeOK
  <2> QED
    BY <1>9, <2>1, <2>2 DEF Rollback
<1>10. CASE SomeoneUpdates
  BY <1>10, EdgeTypes DEF SomeoneUpdates, approvedList, services, PatchTypeOK, Kinds, Nodes, Statuses
<1> QED
  BY <1>1, <1>2, <1>3, <1>4, <1>5, <1>6, <1>7, <1>8, <1>9, <1>10 DEF PatchingMoves, PatchingStep

\* Housekeeping keeps the types of its part.
LEMMA HousekeepingTypes ==
  ASSUME RunTypeOK, HouseTypeOK, HousekeepingMoves
  PROVE  RunTypeOK' /\ HouseTypeOK'
<1>1. CASE BeginHousekeeping
  <2>1. RunTypeOK'
    BY <1>1, EdgeTypes DEF BeginHousekeeping, BeginDiskCleanup, BeginLogRotation, BeginCheck, Kinds, Nodes
  <2>2. BeginDiskCleanup => HouseTypeOK'
    BY DEF BeginDiskCleanup, HouseTypeOK, logs, health
  <2>3. BeginLogRotation => HouseTypeOK'
    BY DEF BeginLogRotation, HouseTypeOK, cleanup, health, Lines
  <2>4. BeginCheck => HouseTypeOK'
    BY DEF BeginCheck, HouseTypeOK, cleanup, logs
  <2> QED
    BY <1>1, <2>1, <2>2, <2>3, <2>4 DEF BeginHousekeeping
<1>2. CASE ValidateCleanup \/ AssessCleanup \/ VerifyCleanup
  <2>1. RunTypeOK'
    BY <1>2, NodeTypes, RaiseTypes DEF ValidateCleanup, AssessCleanup, VerifyCleanup, RunTypeOK, Nodes, Statuses
  <2>2. AssessCleanup => HouseTypeOK'
    BY DEF AssessCleanup, Shown, logs, health, HouseTypeOK
  <2>3. ValidateCleanup => HouseTypeOK'
    BY KeptTypes DEF ValidateCleanup
  <2>4. VerifyCleanup => HouseTypeOK'
    BY KeptTypes DEF VerifyCleanup
  <2> QED
    BY <1>2, <2>1, <2>2, <2>3, <2>4
<1>3. CASE ExecuteCleanup
  <2>1. CASE SimulateCleanup \/ CleanPaths
    <3>1. RunTypeOK'
      BY <2>1, NodeTypes, RaiseTypes DEF SimulateCleanup, CleanPaths, Nodes, Statuses
    <3>2. UNCHANGED house
      BY <2>1 DEF SimulateCleanup, CleanPaths
    <3> QED
      BY <3>1, <3>2, KeptTypes
  <2>2. CASE GateOrphans
    <3>1. RunTypeOK'
      BY <2>2, NodeTypes, RaiseTypes DEF GateOrphans, RunTypeOK, Nodes, Statuses
    <3> QED
      BY <2>2, <3>1 DEF GateOrphans, logs, health, HouseTypeOK
  <2>3. CASE Autoremove
    BY <2>3, NodeTypes, RaiseTypes DEF Autoremove, logs, health, HouseTypeOK, Nodes, Statuses
  <2> QED
    BY <1>3, <2>1, <2>2, <2>3 DEF ExecuteCleanup
<1>4. CASE ValidateLogs \/ AssessLogs \/ VerifyLogs
  <2>1. RunTypeOK'
    BY <1>4, NodeTypes, RaiseTypes DEF ValidateLogs, AssessLogs, VerifyLogs, RunTypeOK, Nodes, Statuses
  <2>2. ValidateLogs => HouseTypeOK'
    BY KeptTypes DEF ValidateLogs, cleanup, logs, health, HouseTypeOK
  <2>3. AssessLogs => HouseTypeOK'
    BY KeptTypes DEF AssessLogs, cleanup, logs, health, HouseTypeOK
  <2>4. VerifyLogs => HouseTypeOK'
    BY KeptTypes DEF VerifyLogs, cleanup, logs, health, HouseTypeOK
  <2> QED
    BY <1>4, <2>1, <2>2, <2>3, <2>4
<1>5. CASE ExecuteLogs
  <2>1. CASE SimulateLogs \/ NothingToRotate
    <3>1. RunTypeOK'
      BY <2>1, NodeTypes, RaiseTypes DEF SimulateLogs, NothingToRotate, Nodes, Statuses
    <3>2. UNCHANGED house
      BY <2>1 DEF SimulateLogs, NothingToRotate
    <3> QED
      BY <3>1, <3>2, KeptTypes
  <2>2. CASE Rotate
    <3>1. RunTypeOK'
      BY <2>2, NodeTypes, RaiseTypes DEF Rotate, Nodes, Statuses
    <3>2. file' \in SUBSET Lines /\ copy' \in SUBSET Lines /\ zip' \in SUBSET Lines
      BY <2>2 DEF Rotate, Rotated, CopyFails, Copied, Zipped, HouseTypeOK
    <3> QED
      BY <2>2, <3>1, <3>2 DEF Rotate, cleanup, health, HouseTypeOK
  <2> QED
    BY <1>5, <2>1, <2>2 DEF ExecuteLogs
<1>6. CASE ValidateBackup \/ AssessBackup \/ VerifyBackup
  <2>1. RunTypeOK'
    BY <1>6, NodeTypes, RaiseTypes DEF ValidateBackup, AssessBackup, VerifyBackup, RunTypeOK, Nodes, Statuses
  <2>2. ValidateBackup => HouseTypeOK'
    BY KeptTypes DEF ValidateBackup, cleanup, logs, health, HouseTypeOK
  <2>3. AssessBackup => HouseTypeOK'
    BY KeptTypes DEF AssessBackup, cleanup, logs, health, HouseTypeOK
  <2>4. VerifyBackup => HouseTypeOK'
    BY KeptTypes DEF VerifyBackup, cleanup, logs, health, HouseTypeOK
  <2> QED
    BY <1>6, <2>1, <2>2, <2>3, <2>4
<1>7. CASE ValidateRestart \/ SnapshotRestart \/ VerifyRestart
  <2>1. RunTypeOK'
    BY <1>7, NodeTypes, RaiseTypes DEF ValidateRestart, SnapshotRestart, VerifyRestart, RunTypeOK, Nodes, Statuses
  <2>2. ValidateRestart => HouseTypeOK'
    BY KeptTypes DEF ValidateRestart, cleanup, logs, health, HouseTypeOK
  <2>3. SnapshotRestart => HouseTypeOK'
    BY KeptTypes DEF SnapshotRestart, cleanup, logs, health, HouseTypeOK
  <2>4. VerifyRestart => HouseTypeOK'
    BY KeptTypes DEF VerifyRestart, cleanup, logs, health, HouseTypeOK
  <2> QED
    BY <1>7, <2>1, <2>2, <2>3, <2>4
<1>8. CASE ExecuteRestart
  <2>1. RunTypeOK'
    BY <1>8, NodeTypes, RaiseTypes DEF ExecuteRestart, Nodes, Statuses
  <2> QED
    BY <1>8, <2>1 DEF ExecuteRestart, cleanup, logs, HouseTypeOK
<1>9. CASE HousekeepingOthers
  <2>1. RunTypeOK'
    BY <1>9, EdgeTypes DEF HousekeepingOthers, SomeoneOrphans, SomeoneLogs, SomeoneServes, Kinds, Nodes,
       Statuses
  <2>2. SomeoneOrphans => HouseTypeOK'
    BY DEF SomeoneOrphans, logs, health, HouseTypeOK
  <2>3. SomeoneLogs => HouseTypeOK'
    BY DEF SomeoneLogs, cleanup, health, HouseTypeOK, Lines
  <2>4. SomeoneServes => HouseTypeOK'
    BY DEF SomeoneServes, cleanup, logs, HouseTypeOK
  <2> QED
    BY <1>9, <2>1, <2>2, <2>3, <2>4 DEF HousekeepingOthers
<1> QED
  BY <1>1, <1>2, <1>3, <1>4, <1>5, <1>6, <1>7, <1>8, <1>9 DEF HousekeepingMoves, HousekeepingStep,
     CleanupStep, LogStep, BackupStep, RestartStep

----------------------------------------------------------------------------
\* Patching tells the truth.

\* One node of patching after the other; the nodes up to the install command
\* first.
LEMMA BeforeTheInstall ==
  ASSUME PatchInv,
         \/ BeginPatching \/ PreflightLock \/ ValidatePatching \/ AssessPatching \/ Snapshot
         \/ ServicePre
  PROVE  PatchInv'
<1>1. CASE BeginPatching
  BY <1>1 DEF BeginPatching, Preview, Enter, PatchInv, RunIdle, PatchCourse, PatchingTellsTheTruth, Ended, At,
     BeforeInstall, AfterVerify
<1>2. CASE PreflightLock
  BY <1>2 DEF PreflightLock, At, Goes, Raises, PatchInv, RunIdle, PatchCourse,
     PatchingTellsTheTruth, Ended, BeforeInstall, AfterVerify
<1>3. CASE ValidatePatching
  BY <1>3 DEF ValidatePatching, At, Goes, PatchInv, RunIdle, PatchCourse,
     PatchingTellsTheTruth, Ended, BeforeInstall, AfterVerify
<1>4. CASE AssessPatching
  BY <1>4 DEF AssessPatching, AssessApproved, AssessFresh, Upgradable, RouteAfterAssess, At, Goes, Raises,
     PatchInv, RunIdle, PatchCourse, PatchingTellsTheTruth, Ended, BeforeInstall, AfterVerify
<1>5. CASE Snapshot
  BY <1>5 DEF Snapshot, At, Goes, Raises, PatchInv, RunIdle, PatchCourse,
     PatchingTellsTheTruth, Ended, BeforeInstall, AfterVerify
<1>6. CASE ServicePre
  BY <1>6 DEF ServicePre, At, Goes, Raises, PatchInv, RunIdle, PatchCourse,
     PatchingTellsTheTruth, Ended, BeforeInstall, AfterVerify
<1> QED
  BY <1>1, <1>2, <1>3, <1>4, <1>5, <1>6

\* The install command and the nodes behind it.
LEMMA FromTheInstall ==
  ASSUME PatchInv, ExecutePatching \/ VerifyPatching \/ RebootCheck \/ ServicePost \/ Rollback
  PROVE  PatchInv'
<1>1. CASE ExecutePatching
  <2>1. CASE ExecuteDry
    <3>1. RouteAfterExecute("dry_run_ok") = "end"
      BY DEF RouteAfterExecute
    <3>2. Goes("end", "dry_run_ok") \/ Raises(FALSE)
      BY <2>1, <3>1 DEF ExecuteDry
    <3> QED
      BY <1>1, <3>2 DEF ExecutePatching, At, Goes, Raises, PatchInv, RunIdle, PatchCourse,
         PatchingTellsTheTruth, Ended, BeforeInstall, AfterVerify
  <2>2. CASE RefuseExecute
    BY <1>1, <2>2 DEF ExecutePatching, RefuseExecute, RouteAfterExecute, At, Goes,
       PatchInv, RunIdle, PatchCourse, PatchingTellsTheTruth, Ended, BeforeInstall, AfterVerify
  <2>3. CASE Install
    BY <1>1, <2>3 DEF ExecutePatching, Install, RouteAfterExecute, At, Acts, Raises, approvedList,
       PatchInv, RunIdle, PatchCourse, PatchingTellsTheTruth, Ended, BeforeInstall, AfterVerify
  <2> QED
    BY <1>1, <2>1, <2>2, <2>3 DEF ExecutePatching
<1>2. CASE VerifyPatching
  <2>1. CASE VersionsMatch /\ status' = status /\ node' = "reboot_check"
    <3>1. Matched'
      BY <1>2, <2>1 DEF VerifyPatching, approvedList, Matched, AtTarget, VersionsMatch
    <3> QED
      BY <1>2, <2>1, <3>1 DEF VerifyPatching, At, Goes, Raises, approvedList, PatchInv, RunIdle,
         PatchCourse, PatchingTellsTheTruth, Ended, BeforeInstall, AfterVerify
  <2>2. CASE ~(VersionsMatch /\ status' = status /\ node' = "reboot_check")
    BY <1>2, <2>2 DEF VerifyPatching, RouteAfterVerify, At, Goes, Raises, PatchInv, RunIdle,
       PatchCourse, PatchingTellsTheTruth, Ended, BeforeInstall, AfterVerify
  <2> QED
    BY <2>1, <2>2
<1>3. CASE RebootCheck \/ ServicePost
  <2>1. Matched /\ Matched'
    BY <1>3 DEF RebootCheck, ServicePost, At, approvedList, PatchInv, PatchCourse, AfterVerify,
       Matched, AtTarget
  <2> QED
    BY <1>3, <2>1 DEF RebootCheck, ServicePost, At, Goes, Raises, approvedList, PatchInv, RunIdle,
       PatchCourse, PatchingTellsTheTruth, Ended, BeforeInstall, AfterVerify, Matched
<1>4. CASE Rollback
  <2>1. CASE NoSnapshot
    BY <1>4, <2>1 DEF Rollback, NoSnapshot, At, Goes, PatchInv, RunIdle, PatchCourse,
       PatchingTellsTheTruth, Ended, BeforeInstall, AfterVerify
  <2>2. CASE Reinstall
    <3>1. snapshot' = snapshot /\ kind' = "patching" /\ node' = "end"
      BY <1>4, <2>2 DEF Rollback, Reinstall, Requery, At, Acts, Raises
    <3>2. status' \in {"rolled_back", "rollback_failed"} \/ (status' = "failed" /\ raised')
      BY <2>2 DEF Reinstall, Requery, Acts, Raises
    <3>3. status' = "rolled_back" => unread' \/ Restored(installed')
      BY <2>2 DEF Reinstall, Requery, Acts, Raises
    <3>4. Restored(installed') => Restored(installed)'
      BY <3>1 DEF Restored
    <3> QED
      BY <3>1, <3>2, <3>3, <3>4 DEF PatchInv, RunIdle, PatchCourse, PatchingTellsTheTruth, Ended, At,
         BeforeInstall, AfterVerify
  <2> QED
    BY <1>4, <2>1, <2>2 DEF Rollback
<1> QED
  BY <1>1, <1>2, <1>3, <1>4

\* A foreign change may spoil what was checked, and is remembered.
LEMMA PatchingHolds ==
  ASSUME PatchInv, PatchingMoves
  PROVE  PatchInv'
<1>1. CASE SomeoneUpdates
  BY <1>1 DEF SomeoneUpdates, Drifts, approvedList, PatchInv, RunIdle, PatchCourse,
     PatchingTellsTheTruth, Ended, At, Matched
<1> QED
  BY <1>1, BeforeTheInstall, FromTheInstall DEF PatchingMoves, PatchingStep

\* Other runs are not patching runs.
LEMMA PatchingRests ==
  ASSUME PatchInv, kind' \notin {"none", "patching"}
  PROVE  PatchInv'
BY DEF PatchInv, RunIdle, PatchCourse, PatchingTellsTheTruth, Ended, At

----------------------------------------------------------------------------
\* Housekeeping holds back.

\* A node that sends no changing command, leaves alone what the invariant is about
\* and hands the run on in its course.
Quiet == kind' = kind /\ dry' = dry /\ (touched' => touched)

KeepsHouse == /\ UNCHANGED <<good, orphans, matched, moved, taken, begun, file, copy, zip>>
              /\ node = "assess" \/ UNCHANGED <<candidates, told>>

Onward == /\ node # "end"
          /\ node' \in {"assess", "snapshot", "execute", "verify", "end"}
          /\ node' = "assess" => node = "validate"
          /\ node' = "execute" => node = "assess" \/ (node = "snapshot" /\ kind = "service_restart")
          /\ node = "validate" => good \/ node' = "end" \/ kind = "backup_verify"

\* What a node does that asks the VM only, or that raises before it did more.
LEMMA QuietNodes ==
  ASSUME NEW n, NEW s, Goes(n, s) \/ Raises(FALSE)
  PROVE  Quiet
<1>1. CASE Goes(n, s)
  BY <1>1 DEF Goes, Quiet
<1>2. CASE Raises(FALSE)
  BY <1>2 DEF Raises, Quiet
<1> QED
  BY <1>1, <1>2

\* Such a node preserves the invariant.
LEMMA QuietNode ==
  ASSUME HouseInv, kind \in Chores, Quiet, KeepsHouse, Onward
  PROVE  HouseInv'
<1> USE DEF Quiet, KeepsHouse, Onward
<1>1. HouseCourse'
  BY DEF HouseInv, HouseCourse, Chores, Mutating
<1>2. CleanupCourse'
  BY DEF HouseInv, CleanupCourse, Chores
<1>3. LogCourse'
  BY DEF HouseInv, LogCourse
<1>4. told' /\ ~moved' => taken' \subseteq candidates'
  BY DEF HouseInv, CleanupCourse, HousekeepingHoldsBack
<1>5. (begun \subseteq file \cup copy \cup zip)'
  BY DEF HouseInv, HousekeepingHoldsBack
<1>6. kind' \in Chores /\ touched' => good' /\ ~dry' /\ kind' # "backup_verify"
  BY DEF HouseInv, HousekeepingHoldsBack
<1>7. kind' # "none"
  BY DEF Chores
<1> QED
  BY <1>1, <1>2, <1>3, <1>4, <1>5, <1>6, <1>7 DEF HouseInv, RunIdle, HousekeepingHoldsBack

\* Disk cleanup.
LEMMA CleanupHoldsBack ==
  ASSUME HouseInv,
         \/ BeginDiskCleanup \/ ValidateCleanup \/ AssessCleanup \/ ExecuteCleanup
         \/ VerifyCleanup \/ SomeoneOrphans
  PROVE  HouseInv'
<1>1. CASE BeginDiskCleanup
  BY <1>1 DEF HouseInv, RunIdle, HouseCourse, CleanupCourse, LogCourse, HousekeepingHoldsBack,
     Chores, Mutating, BeginDiskCleanup, Enter, logs, health
<1>2. CASE ValidateCleanup \/ VerifyCleanup
  <2>1. Quiet /\ kind \in Chores
    BY <1>2, QuietNodes DEF ValidateCleanup, VerifyCleanup, At, Chores
  <2>2. KeepsHouse
    BY <1>2 DEF ValidateCleanup, VerifyCleanup, At, house, cleanup, logs, KeepsHouse
  <2>3. Onward
    BY <1>2 DEF ValidateCleanup, VerifyCleanup, At, Goes, Raises, Onward
  <2> QED
    BY <2>1, <2>2, <2>3, QuietNode
<1>3. CASE AssessCleanup
  <2>1. Quiet /\ kind \in Chores
    BY <1>3, QuietNodes DEF AssessCleanup, At, Chores
  <2>2. KeepsHouse
    BY <1>3 DEF AssessCleanup, At, logs, KeepsHouse
  <2>3. Onward
    BY <1>3 DEF AssessCleanup, At, Goes, Raises, Onward
  <2> QED
    BY <2>1, <2>2, <2>3, QuietNode
<1>4. CASE ExecuteCleanup
  <2>1. CASE SimulateCleanup
    <3>1. Quiet /\ kind \in Chores
      BY <1>4, <2>1, QuietNodes DEF ExecuteCleanup, SimulateCleanup, At, Chores
    <3>2. KeepsHouse
      BY <1>4, <2>1 DEF ExecuteCleanup, SimulateCleanup, At, house, cleanup, logs, KeepsHouse
    <3>3. Onward
      BY <1>4, <2>1 DEF ExecuteCleanup, SimulateCleanup, At, Goes, Raises, Onward
    <3> QED
      BY <3>1, <3>2, <3>3, QuietNode
  <2>2. CASE CleanPaths
    BY <1>4, <2>2 DEF HouseInv, RunIdle, HouseCourse, CleanupCourse, LogCourse, HousekeepingHoldsBack,
       Chores, Mutating, ExecuteCleanup, CleanPaths, At, Acts, Raises, house, cleanup, logs, health
  <2>3. CASE GateOrphans
    BY <1>4, <2>3 DEF HouseInv, RunIdle, HouseCourse, CleanupCourse, LogCourse, HousekeepingHoldsBack,
       Chores, Mutating, ExecuteCleanup, GateOrphans, DriftGate, Shown, At, Acts, Raises, logs, health
  <2>4. CASE Autoremove
    <3>1. kind = "disk_cleanup" /\ kind' = kind /\ dry' = dry /\ node = "execute"
          /\ node' \in {"verify", "end"}
      BY <1>4, <2>4 DEF ExecuteCleanup, Autoremove, At, Acts, Raises
    <3>2. told /\ ~moved => taken' \subseteq candidates
      BY <2>4, <3>1 DEF HouseInv, CleanupCourse, Autoremove
    <3>3. UNCHANGED <<good, candidates, told, matched, moved, begun, file, copy, zip>>
      BY <2>4 DEF Autoremove, logs
    <3>4. ~dry
      BY <2>4 DEF HouseInv, CleanupCourse, Autoremove
    <3>5. HouseCourse' /\ CleanupCourse' /\ LogCourse' /\ RunIdle'
      BY <3>1, <3>3 DEF HouseInv, HouseCourse, CleanupCourse, LogCourse, RunIdle, Chores, Mutating
    <3> QED
      BY <3>1, <3>2, <3>3, <3>4, <3>5 DEF HouseInv, HouseCourse, HousekeepingHoldsBack, Chores, Mutating
  <2> QED
    BY <1>4, <2>1, <2>2, <2>3, <2>4 DEF ExecuteCleanup
<1>5. CASE SomeoneOrphans
  BY <1>5 DEF HouseInv, RunIdle, HouseCourse, CleanupCourse, LogCourse, HousekeepingHoldsBack,
     Chores, Mutating, SomeoneOrphans, Drifts, logs, health
<1> QED
  BY <1>1, <1>2, <1>3, <1>4, <1>5

\* Log rotation.
LEMMA LogsSurvive ==
  ASSUME HouseInv,
         BeginLogRotation \/ ValidateLogs \/ AssessLogs \/ ExecuteLogs \/ VerifyLogs \/ SomeoneLogs
  PROVE  HouseInv'
<1>1. CASE BeginLogRotation
  BY <1>1 DEF HouseInv, RunIdle, HouseCourse, CleanupCourse, LogCourse, HousekeepingHoldsBack,
     Chores, Mutating, BeginLogRotation, Enter, cleanup, health
<1>2. CASE ValidateLogs \/ VerifyLogs
  <2>1. Quiet /\ kind \in Chores
    BY <1>2, QuietNodes DEF ValidateLogs, VerifyLogs, At, Chores
  <2>2. KeepsHouse
    BY <1>2 DEF ValidateLogs, VerifyLogs, At, house, cleanup, logs, KeepsHouse
  <2>3. Onward
    BY <1>2 DEF ValidateLogs, VerifyLogs, At, Goes, Raises, Onward
  <2> QED
    BY <2>1, <2>2, <2>3, QuietNode
<1>3. CASE AssessLogs
  <2>1. Quiet /\ kind \in Chores
    BY <1>3, QuietNodes DEF AssessLogs, At, Chores
  <2>2. KeepsHouse
    BY <1>3 DEF AssessLogs, At, cleanup, KeepsHouse
  <2>3. Onward
    BY <1>3 DEF AssessLogs, At, Goes, Raises, Onward
  <2> QED
    BY <2>1, <2>2, <2>3, QuietNode
<1>4. CASE ExecuteLogs
  <2>1. CASE SimulateLogs \/ NothingToRotate
    <3>1. Quiet /\ kind \in Chores
      BY <1>4, <2>1, QuietNodes DEF ExecuteLogs, SimulateLogs, NothingToRotate, At, Chores
    <3>2. KeepsHouse
      BY <1>4, <2>1 DEF ExecuteLogs, SimulateLogs, NothingToRotate, At, house, cleanup, logs, KeepsHouse
    <3>3. Onward
      BY <1>4, <2>1 DEF ExecuteLogs, SimulateLogs, NothingToRotate, At, Goes, Raises, Onward
    <3> QED
      BY <3>1, <3>2, <3>3, QuietNode
  <2>2. CASE Rotate
    <3>1. begun \subseteq file /\ begun' = begun
      BY <1>4, <2>2 DEF HouseInv, LogCourse, ExecuteLogs, Rotate, At
    <3>2. begun' \subseteq file' \cup copy' \cup zip'
      BY <2>2, <3>1 DEF Rotate, Rotated, CopyFails, Copied, Zipped
    <3>3. ~dry /\ dry' = dry /\ kind = "log_rotation" /\ kind' = kind /\ node = "execute"
          /\ node' \in {"verify", "end"}
      BY <1>4, <2>2 DEF ExecuteLogs, Rotate, At, Acts, Raises
    <3> QED
      BY <2>2, <3>1, <3>2, <3>3 DEF HouseInv, RunIdle, HouseCourse, CleanupCourse, LogCourse, HousekeepingHoldsBack,
         Chores, Mutating, Rotate, cleanup,
         health
  <2> QED
    BY <1>4, <2>1, <2>2 DEF ExecuteLogs
<1>5. CASE SomeoneLogs
  BY <1>5 DEF HouseInv, RunIdle, HouseCourse, CleanupCourse, LogCourse, HousekeepingHoldsBack,
     Chores, Mutating, SomeoneLogs, Drifts, cleanup, health
<1> QED
  BY <1>1, <1>2, <1>3, <1>4, <1>5

\* Backup verification and service restart.
LEMMA ChecksHoldBack ==
  ASSUME HouseInv,
         \/ BeginCheck \/ ValidateBackup \/ AssessBackup \/ VerifyBackup \/ ValidateRestart
         \/ SnapshotRestart \/ ExecuteRestart \/ VerifyRestart \/ SomeoneServes
  PROVE  HouseInv'
<1>1. CASE BeginCheck
  BY <1>1 DEF HouseInv, RunIdle, HouseCourse, CleanupCourse, LogCourse, HousekeepingHoldsBack,
     Chores, Mutating, BeginCheck, Enter, cleanup, logs
<1>2. CASE ValidateBackup \/ AssessBackup \/ VerifyBackup
  <2>1. Quiet /\ kind \in Chores
    BY <1>2, QuietNodes DEF ValidateBackup, AssessBackup, VerifyBackup, At, Chores
  <2>2. KeepsHouse
    BY <1>2 DEF ValidateBackup, AssessBackup, VerifyBackup, At, house, cleanup, logs, KeepsHouse
  <2>3. Onward
    BY <1>2 DEF ValidateBackup, AssessBackup, VerifyBackup, At, Goes, Raises, Onward
  <2> QED
    BY <2>1, <2>2, <2>3, QuietNode
<1>3. CASE ValidateRestart \/ SnapshotRestart \/ VerifyRestart
  <2>1. Quiet /\ kind \in Chores
    BY <1>3, QuietNodes DEF ValidateRestart, SnapshotRestart, VerifyRestart, At, Chores
  <2>2. KeepsHouse
    BY <1>3 DEF ValidateRestart, SnapshotRestart, VerifyRestart, At, house, cleanup, logs, KeepsHouse
  <2>3. Onward
    BY <1>3 DEF ValidateRestart, SnapshotRestart, VerifyRestart, At, Goes, Raises, Onward
  <2> QED
    BY <2>1, <2>2, <2>3, QuietNode
<1>4. CASE ExecuteRestart
  BY <1>4 DEF HouseInv, RunIdle, HouseCourse, CleanupCourse, LogCourse, HousekeepingHoldsBack,
     Chores, Mutating, ExecuteRestart, At, Goes, Acts, Raises, cleanup, logs
<1>5. CASE SomeoneServes
  BY <1>5 DEF HouseInv, RunIdle, HouseCourse, CleanupCourse, LogCourse, HousekeepingHoldsBack,
     Chores, Mutating, SomeoneServes, Drifts, cleanup, logs
<1> QED
  BY <1>1, <1>2, <1>3, <1>4, <1>5

\* All of it together.
LEMMA HousekeepingHolds ==
  ASSUME HouseInv, HousekeepingMoves
  PROVE  HouseInv'
BY CleanupHoldsBack, LogsSurvive, ChecksHoldBack
   DEF HousekeepingMoves, BeginHousekeeping, HousekeepingStep, CleanupStep, LogStep, BackupStep, RestartStep,
       HousekeepingOthers

\* Other runs are none of the four.
LEMMA HousekeepingRests ==
  ASSUME HouseInv, kind \notin Chores, kind' \notin {"none"} \cup Chores, UNCHANGED house
  PROVE  HouseInv'
BY DEF HouseInv, RunIdle, HouseCourse, CleanupCourse, LogCourse, HousekeepingHoldsBack, Chores,
   Mutating, house, cleanup, logs, health

----------------------------------------------------------------------------
\* The steps of the hygiene row.

\* A decision writes three columns of a pending row, and keeps what RowKept says.
LEMMA DecideKeepsRow ==
  ASSUME RowKept, NEW s \in {"approved", "rejected"}, NEW items \in SUBSET (DOMAIN row.shows \cap Executable),
         s = "approved" \/ items = {}, Decide(s, items, row.shows)
  PROVE  /\ row.status = "pending"
         /\ row' = [status |-> s, shows |-> row.shows, items |-> items, hash |-> row.shows]
         /\ RowKept'
<1>1. /\ row.status = "pending"
      /\ row' = [status |-> s, shows |-> row.shows, items |-> items, hash |-> row.shows]
  BY DEF RowKept, Decide, IsPending
<1>2. Executable' = Executable
  BY DEF Executable
<1> QED
  BY <1>1, <1>2 DEF RowKept

\* An expiry writes the status of a pending row.
LEMMA TimeoutKeepsRow ==
  ASSUME RowKept, MarkTimeout
  PROVE  /\ row.status = "pending"
         /\ row' = [status |-> "timeout", shows |-> row.shows, items |-> {}, hash |-> row.hash]
         /\ RowKept'
<1>1. row.status = "pending" /\ row.items = {}
  BY DEF RowKept, MarkTimeout, IsPending
<1>2. row' = [status |-> "timeout", shows |-> row.shows, items |-> {}, hash |-> row.hash]
  BY <1>1 DEF RowKept, MarkTimeout
<1>3. Executable' = Executable
  BY DEF Executable
<1> QED
  BY <1>1, <1>2, <1>3 DEF RowKept

\* The agent's insert finds no row, and makes a pending one.
LEMMA CreateKeepsRow ==
  ASSUME RowKept, row.status = "none", NEW a, Create(a)
  PROVE  /\ row' = [status |-> "pending", shows |-> a, items |-> {}, hash |-> NoAssessment]
         /\ RowKept'
<1>1. row' = [status |-> "pending", shows |-> a, items |-> {}, hash |-> NoAssessment]
  BY DEF Create, IsDecided
<1>2. Executable' = Executable
  BY DEF Executable
<1> QED
  BY <1>1, <1>2 DEF RowKept

\* The types of the row's columns.
RowTypeOK == /\ row.status \in RowStatuses
             /\ IsAssessment(row.shows)
             /\ IsAssessment(row.hash)
             /\ row.items \in SUBSET Objects

\* They are kept by every step of it.
LEMMA RowTypes ==
  ASSUME RowTypeOK, IsAssessment(assessment),
         \/ \E s \in {"approved", "rejected"}, items \in SUBSET (DOMAIN row.shows \cap Executable) :
              row' = [status |-> s, shows |-> row.shows, items |-> items, hash |-> row.shows]
         \/ row' = [status |-> "timeout", shows |-> row.shows, items |-> {}, hash |-> row.hash]
         \/ row' = [status |-> "pending", shows |-> assessment, items |-> {}, hash |-> NoAssessment]
  PROVE  RowTypeOK'
<1>1. IsAssessment(NoAssessment)
  BY DEF IsAssessment, NoAssessment
<1>2. CASE \E s \in {"approved", "rejected"}, items \in SUBSET (DOMAIN row.shows \cap Executable) :
             row' = [status |-> s, shows |-> row.shows, items |-> items, hash |-> row.shows]
  BY <1>2 DEF RowTypeOK, IsAssessment, Executable, RowStatuses
<1>3. CASE row' = [status |-> "timeout", shows |-> row.shows, items |-> {}, hash |-> row.hash]
  BY <1>3 DEF RowTypeOK, IsAssessment, RowStatuses
<1>4. CASE row' = [status |-> "pending", shows |-> assessment, items |-> {}, hash |-> NoAssessment]
  BY <1>1, <1>4 DEF RowTypeOK, IsAssessment, RowStatuses
<1> QED
  BY <1>2, <1>3, <1>4

\* The types of the rest of the Docker part.
WorkTypeOK == /\ objects \in [Objects -> Conditions]
              /\ IsAssessment(assessment)
              /\ approval \in SUBSET Objects
              /\ IsAssessment(hash)
              /\ queue \in SUBSET Objects
              /\ held \in SUBSET Objects
              /\ IsResult(said)
              /\ IsResult(results)
              /\ running \in BOOLEAN
              /\ removed \in SUBSET Objects
              /\ admitted \in [Objects -> Conditions]
              /\ late \in BOOLEAN

\* The two together are the type invariant of the module, now and in the next
\* state.
LEMMA DockerTypeParts ==
  /\ DockerTypeOK <=> WorkTypeOK /\ RowTypeOK
  /\ DockerTypeOK' <=> WorkTypeOK' /\ RowTypeOK'
BY DEF DockerTypeOK, WorkTypeOK, RowTypeOK

\* A finding has a classification.
LEMMA FoundIsAssessment ==
  /\ IsAssessment(Found)
  /\ IsAssessment(NoAssessment)
<1>1. DOMAIN Found \subseteq Objects
  BY DEF Found, Listed
<1>2. \A c : Classification(c) \in Classifications
  BY DEF Classification, Classifications
<1>3. \A o \in DOMAIN Found : Found[o] \in Classifications
  BY <1>2 DEF Found, Listed
<1> QED
  BY <1>1, <1>3 DEF IsAssessment, NoAssessment

\* A result line adds a removal status.
LEMMA SaidTypes ==
  ASSUME IsResult(said), NEW o \in Objects, NEW r \in RemovalStatuses
  PROVE  IsResult(NowSaid(o, r))
BY DEF IsResult, NowSaid

\* The parser's outcomes are removal statuses.
LEMMA ParsedTypes ==
  ASSUME IsResult(said), approval \in SUBSET Objects, NEW readable \in SUBSET DOMAIN said
  PROVE  IsResult(Parsed(readable))
BY DEF IsResult, Parsed, RemovalStatuses

\* A change of one object's condition, by its users, the wrapper or the gate.
LEMMA ConditionTypes ==
  ASSUME NEW f \in [Objects -> Conditions], NEW o \in Objects, NEW c \in Conditions
  PROVE  [f EXCEPT ![o] = c] \in [Objects -> Conditions]
OBVIOUS

\* Every class has conditions out of the five.
LEMMA ConditionsOfTypes ==
  ASSUME NEW class
  PROVE  /\ ConditionsOf(class) \subseteq Conditions
         /\ "gone" \in ConditionsOf(class)
BY DEF ConditionsOf, Conditions

\* The row's writers keep its types.
LEMMA RowWritersTypes ==
  ASSUME RowKept, DockerTypeOK, OperatorDecides \/ ReconcilerExpires \/ ClockRuns \/ WaitTimesOut
  PROVE  DockerTypeOK'
<1>0. RowTypeOK /\ WorkTypeOK
  BY DockerTypeParts
<1>1. CASE OperatorDecides
  <2>1. PICK s \in {"approved", "rejected"}, items \in SUBSET (DOMAIN row.shows \cap Executable) :
          (s = "approved" \/ items = {}) /\ Decide(s, items, row.shows)
    BY <1>1 DEF OperatorDecides
  <2>2. row' = [status |-> s, shows |-> row.shows, items |-> items, hash |-> row.shows]
    BY <2>1, DecideKeepsRow
  <2>3. RowTypeOK'
    BY <1>0, <2>2, RowTypes DEF WorkTypeOK
  <2>4. WorkTypeOK'
    BY <1>0, <1>1 DEF OperatorDecides, WorkTypeOK, gates, past
  <2> QED
    BY <2>3, <2>4, DockerTypeParts
<1>2. CASE ReconcilerExpires \/ WaitTimesOut
  <2>1. row' = [status |-> "timeout", shows |-> row.shows, items |-> {}, hash |-> row.hash]
    BY <1>2, TimeoutKeepsRow DEF ReconcilerExpires, WaitTimesOut
  <2>2. RowTypeOK'
    BY <1>0, <2>1, RowTypes DEF WorkTypeOK
  <2>3. WorkTypeOK'
    BY <1>0, <1>2 DEF ReconcilerExpires, WaitTimesOut, WorkTypeOK, gates, past
  <2> QED
    BY <2>2, <2>3, DockerTypeParts
<1>3. CASE ClockRuns
  BY <1>0, <1>3, DockerTypeParts DEF ClockRuns, TimePasses, WorkTypeOK, RowTypeOK, gates, past
<1> QED
  BY <1>1, <1>2, <1>3

\* The graph's nodes up to the wrapper's start keep the types of their part.
LEMMA GraphTypes ==
  ASSUME RowKept, DockerTypeOK,
         \/ BeginDocker \/ ValidateDocker \/ AssessDocker \/ Register \/ TakeDecision
         \/ ExecuteDocker \/ Polls \/ SomeoneUsesDocker
  PROVE  DockerTypeOK'
<1>0. RowTypeOK /\ WorkTypeOK
  BY DockerTypeParts
<1>1. CASE BeginDocker
  <2>1. objects' \in [Objects -> Conditions]
    BY <1>1 DEF BeginDocker
  <2> QED
    BY <1>0, <1>1, <2>1, DockerTypeParts DEF BeginDocker, WorkTypeOK, RowTypeOK, store, gates, past
<1>2. CASE ValidateDocker \/ Polls
  BY <1>2 DEF ValidateDocker, Polls, docker, DockerTypeOK, gates, past
<1>3. CASE AssessDocker
  <2>1. IsAssessment(assessment')
    BY <1>0, <1>3, FoundIsAssessment DEF AssessDocker, WorkTypeOK
  <2> QED
    BY <1>0, <1>3, <2>1, DockerTypeParts DEF AssessDocker, WorkTypeOK, RowTypeOK, store, gates, past
<1>4. CASE Register
  <2>1. RowTypeOK'
    BY <1>0, <1>4, CreateKeepsRow, RowTypes DEF Register, WorkTypeOK, RowTypeOK
  <2>2. WorkTypeOK'
    BY <1>0, <1>4 DEF Register, WorkTypeOK, gates, past
  <2> QED
    BY <2>1, <2>2, DockerTypeParts
<1>5. CASE TakeDecision
  <2>1. approval' \in SUBSET Objects /\ IsAssessment(hash')
    BY <1>0, <1>5 DEF TakeDecision, Approve, WorkTypeOK, RowTypeOK
  <2> QED
    BY <1>0, <1>5, <2>1, DockerTypeParts DEF TakeDecision, Approve, WorkTypeOK, RowTypeOK, store, gates, past
<1>6. CASE ExecuteDocker
  <2>1. CASE RefuseDrift \/ SessionLost
    BY <2>1 DEF RefuseDrift, SessionLost, docker, DockerTypeOK, gates, past
  <2>2. CASE Launch
    <3>1. queue' \in SUBSET Objects /\ running' \in BOOLEAN
      BY <1>0, <2>2 DEF Launch, WorkTypeOK
    <3> QED
      BY <1>0, <2>2, <3>1, DockerTypeParts DEF Launch, WorkTypeOK, RowTypeOK, store, past
  <2> QED
    BY <1>6, <2>1, <2>2 DEF ExecuteDocker
<1>7. CASE SomeoneUsesDocker
  <2>1. objects' \in [Objects -> Conditions]
    BY <1>0, <1>7, ConditionsOfTypes DEF SomeoneUsesDocker, WorkTypeOK
  <2> QED
    BY <1>0, <1>7, <2>1, DockerTypeParts DEF SomeoneUsesDocker, WorkTypeOK, RowTypeOK, store, gates, past
<1> QED
  BY <1>1, <1>2, <1>3, <1>4, <1>5, <1>6, <1>7

\* So does the wrapper.
LEMMA WrapperTypes ==
  ASSUME DockerTypeOK, WrapperStep
  PROVE  DockerTypeOK'
<1>0. RowTypeOK /\ WorkTypeOK
  BY DockerTypeParts
<1>1. CASE WrapperExits
  <2>1. IsResult(results')
    BY <1>0, <1>1, ParsedTypes DEF WrapperExits, WorkTypeOK
  <2> QED
    BY <1>0, <1>1, <2>1, DockerTypeParts DEF WrapperExits, WorkTypeOK, RowTypeOK, store, past
<1>2. CASE WrapperDies
  BY <1>0, <1>2, DockerTypeParts DEF WrapperDies, WorkTypeOK, RowTypeOK, store, past
<1>3. ASSUME NEW o \in Objects, GateTwo(o)
      PROVE  DockerTypeOK'
  <2>1. IsResult(said')
    BY <1>0, <1>3, SaidTypes DEF GateTwo, SkipResult, WorkTypeOK, RemovalStatuses
  <2>2. admitted' \in [Objects -> Conditions]
    BY <1>0, <1>3 DEF GateTwo, WorkTypeOK
  <2> QED
    BY <1>0, <1>3, <2>1, <2>2, DockerTypeParts DEF GateTwo, WorkTypeOK, RowTypeOK, store
<1>4. ASSUME NEW o \in Objects, RemoveHeld(o)
      PROVE  DockerTypeOK'
  <2>1. IsResult(said')
    BY <1>0, <1>4, SaidTypes DEF RemoveHeld, WorkTypeOK, RemovalStatuses
  <2>2. objects' \in [Objects -> Conditions] /\ removed' \in SUBSET Objects
    BY <1>0, <1>4 DEF RemoveHeld, WorkTypeOK, Conditions
  <2> QED
    BY <1>0, <1>4, <2>1, <2>2, DockerTypeParts DEF RemoveHeld, WorkTypeOK, RowTypeOK, store
<1> QED
  BY <1>1, <1>2, <1>3, <1>4 DEF WrapperStep

\* What the run has in common with the other kinds keeps its types too.
LEMMA DockerRunTypes ==
  ASSUME RunTypeOK, DockerMoves
  PROVE  RunTypeOK'
<1>1. CASE BeginDocker \/ SomeoneUsesDocker
  BY <1>1, EdgeTypes DEF BeginDocker, SomeoneUsesDocker, Kinds, Nodes
<1>2. CASE ValidateDocker \/ Register \/ WaitTimesOut \/ TakeDecision
  BY <1>2, NodeTypes DEF ValidateDocker, Register, WaitTimesOut, TakeDecision, Approve, RunTypeOK, Nodes, Statuses
<1>3. CASE AssessDocker
  <2>1. RouteAssessed(Found) \in Nodes
    BY DEF RouteAssessed, Nodes
  <2>2. /\ {"end", RouteAssessed(Found)} \subseteq Nodes
        /\ {"failed", "skipped", status} \subseteq Statuses
    BY <2>1 DEF RunTypeOK, Nodes, Statuses
  <2>3. \/ \E n \in Nodes, s \in Statuses : Goes(n, s)
        \/ Raises(FALSE)
    BY <1>3, <2>2 DEF AssessDocker
  <2> QED
    BY <2>3, NodeTypes, RaiseTypes
<1>4. CASE ExecuteDocker
  BY <1>4, NodeTypes, RaiseTypes DEF ExecuteDocker, RefuseDrift, Launch, SessionLost, RunTypeOK, Nodes, Statuses
<1>5. CASE WrapperStep
  <2>1. \A r : Aggregate(r) \in Statuses
    BY DEF Aggregate, Statuses
  <2> QED
    BY <1>5, <2>1, NodeTypes DEF WrapperStep, WrapperExits, WrapperDies, GateTwo, RemoveHeld, run,
       RunTypeOK, Nodes, Statuses
<1>6. CASE OperatorDecides \/ ReconcilerExpires \/ ClockRuns \/ Polls
  BY <1>6 DEF OperatorDecides, ReconcilerExpires, ClockRuns, Polls, run, RunTypeOK
<1> QED
  BY <1>1, <1>2, <1>3, <1>4, <1>5, <1>6 DEF DockerMoves, DockerStep, DockerOthers

\* Docker hygiene keeps the types.
LEMMA DockerTypes ==
  ASSUME RunTypeOK, DockerTypeOK, RowKept, DockerMoves
  PROVE  RunTypeOK' /\ DockerTypeOK'
BY DockerRunTypes, RowWritersTypes, GraphTypes, WrapperTypes DEF DockerMoves, DockerStep, DockerOthers

----------------------------------------------------------------------------
\* Only what was approved is removed.

\* Nothing is at work while the run is at a node before the second gate.
LEMMA NothingAtWork ==
  ASSUME ApprovalHeld, node \notin {"execute", "end"} \/ ~touched
  PROVE  /\ queue = {} /\ held = {} /\ removed = {}
         /\ ~running
BY DEF ApprovalHeld, AtWork

\* The writers of the row find it pending, so there is no approval yet.
LEMMA RowWritersHold ==
  ASSUME RowKept, ApprovalHeld, GateTwoPassed,
         OperatorDecides \/ ReconcilerExpires \/ ClockRuns \/ WaitTimesOut
  PROVE  RowKept' /\ ApprovalHeld' /\ GateTwoPassed'
<1>1. CASE OperatorDecides
  <2>1. PICK s \in {"approved", "rejected"}, items \in SUBSET (DOMAIN row.shows \cap Executable) :
          (s = "approved" \/ items = {}) /\ Decide(s, items, row.shows)
    BY <1>1 DEF OperatorDecides
  <2>2. RowKept' /\ row.status = "pending" /\ row'.shows = row.shows
    BY <2>1, DecideKeepsRow
  <2>3. approval = {}
    BY <2>2 DEF ApprovalHeld
  <2>4. UNCHANGED <<approval, hash, assessment, queue, held, removed, running, admitted, objects,
                    touched, node, kind>>
    BY <1>1 DEF OperatorDecides, gates, past, run
  <2>5. ApprovalHeld'
    BY <2>3, <2>4 DEF ApprovalHeld, AtWork
  <2>6. GateTwoPassed'
    BY <2>2, <2>4 DEF GateTwoPassed
  <2> QED
    BY <2>2, <2>5, <2>6
<1>2. CASE ReconcilerExpires \/ WaitTimesOut
  <2>1. RowKept' /\ row.status = "pending" /\ row'.shows = row.shows
    BY <1>2, TimeoutKeepsRow DEF ReconcilerExpires, WaitTimesOut
  <2>2. approval = {}
    BY <2>1 DEF ApprovalHeld
  <2>3. UNCHANGED <<approval, hash, assessment, queue, held, removed, running, admitted, objects,
                    touched, kind>>
    BY <1>2 DEF ReconcilerExpires, WaitTimesOut, Goes, gates, past, run
  <2>4. node' = node \/ (node = "approval" /\ node' = "end")
    BY <1>2 DEF ReconcilerExpires, WaitTimesOut, At, Goes, run
  <2>5. ApprovalHeld'
    BY <2>2, <2>3, <2>4 DEF ApprovalHeld, AtWork
  <2>6. GateTwoPassed'
    BY <2>1, <2>3 DEF GateTwoPassed
  <2> QED
    BY <2>1, <2>5, <2>6
<1>3. CASE ClockRuns
  BY <1>3 DEF ClockRuns, TimePasses, RowKept, ApprovalHeld, AtWork, GateTwoPassed, Executable, gates,
     past, run
<1> QED
  BY <1>1, <1>2, <1>3

\* The graph hands to the wrapper what the row approved, and only behind gate 1.
LEMMA GraphHolds ==
  ASSUME DockerInv,
         \/ BeginDocker \/ ValidateDocker \/ AssessDocker \/ Register \/ TakeDecision
         \/ ExecuteDocker \/ Polls \/ SomeoneUsesDocker
  PROVE  RowKept' /\ ApprovalHeld' /\ GateTwoPassed'
<1>0. RowKept /\ ApprovalHeld /\ GateTwoPassed
  BY DEF DockerInv
<1>1. CASE BeginDocker
  <2>1. approval = {} /\ queue = {} /\ held = {} /\ removed = {} /\ ~running
    BY <1>1 DEF BeginDocker, Enter, DockerInv, DockerIdle
  <2>2. \A o \in Objects : objects'[o] \in ConditionsOf(ClassOf[o])
    BY <1>1 DEF BeginDocker
  <2> QED
    BY <1>0, <1>1, <2>1, <2>2 DEF BeginDocker, Enter, RowKept, ApprovalHeld, AtWork, GateTwoPassed,
       Executable, store, gates, past
<1>2. CASE ValidateDocker \/ Polls
  <2>1. CASE Polls
    BY <1>0, <2>1 DEF Polls, docker, run, RowKept, ApprovalHeld, AtWork, GateTwoPassed, Executable, gates, past
  <2>2. CASE ValidateDocker
    BY <1>0, <2>2, NothingAtWork DEF ValidateDocker, At, Goes, docker, RowKept, ApprovalHeld, AtWork,
       GateTwoPassed, Executable, gates, past
  <2> QED
    BY <1>2, <2>1, <2>2
<1>3. CASE AssessDocker
  <2>1. queue = {} /\ held = {} /\ removed = {} /\ ~running
    BY <1>0, <1>3, NothingAtWork DEF AssessDocker, At
  <2>2. node' = "execute" => approval # {}
    BY <1>3 DEF AssessDocker, Goes, Raises, RouteAssessed
  <2> QED
    BY <1>0, <1>3, <2>1, <2>2 DEF AssessDocker, store, RowKept, ApprovalHeld, AtWork,
       GateTwoPassed, Executable, gates, past
<1>4. CASE Register
  <2>1. queue = {} /\ held = {} /\ removed = {} /\ ~running
    BY <1>0, <1>4, NothingAtWork DEF Register, At
  <2>2. RowKept'
    BY <1>0, <1>4, CreateKeepsRow DEF Register, RowKept, Executable
  <2>3. approval = {}
    BY <1>0, <1>4 DEF Register, ApprovalHeld
  <2> QED
    BY <1>0, <1>4, <2>1, <2>2, <2>3 DEF Register, Goes, ApprovalHeld, AtWork, GateTwoPassed, gates, past
<1>5. CASE TakeDecision
  <2>1. queue = {} /\ held = {} /\ removed = {} /\ ~running
    BY <1>0, <1>5, NothingAtWork DEF TakeDecision, Approve, At
  <2>2. row' = row /\ UNCHANGED <<objects, assessment, queue, held, removed, running, admitted>>
    BY <1>5 DEF TakeDecision, Approve, store, gates, past
  <2>3. /\ approval' # {} => row.status = "approved" /\ approval' = row.items /\ hash' = row.shows
        /\ node' # "execute"
    BY <1>0, <1>5 DEF TakeDecision, Approve, Goes, RowKept, ApprovalHeld
  <2> QED
    BY <1>0, <2>1, <2>2, <2>3 DEF RowKept, ApprovalHeld, AtWork, GateTwoPassed, Executable
<1>6. CASE ExecuteDocker
  <2>1. UNCHANGED <<row, objects, assessment, approval, hash, held, removed, admitted>>
    BY <1>6 DEF ExecuteDocker, RefuseDrift, Launch, SessionLost, docker, store, past, gates
  <2>2. approval # {} /\ kind = "docker_hygiene" /\ kind' = kind /\ node' \in {"execute", "end"}
    BY <1>0, <1>6 DEF ExecuteDocker, RefuseDrift, Launch, SessionLost, At, Goes, Acts, Raises, ApprovalHeld
  <2>3. CASE touched' /\ queue' = approval
    <3>1. hash = assessment \/ (queue' = queue /\ running' = running /\ touched)
      BY <1>6, <2>3 DEF ExecuteDocker, RefuseDrift, Launch, SessionLost, GateOne, docker, gates, Goes,
         Raises, Waiting
    <3> QED
      BY <1>0, <2>1, <2>2, <2>3, <3>1 DEF RowKept, ApprovalHeld, AtWork, GateTwoPassed, Executable
  <2>4. CASE UNCHANGED <<queue, running>> /\ (touched => touched')
    BY <1>0, <2>1, <2>2, <2>4 DEF RowKept, ApprovalHeld, AtWork, GateTwoPassed, Executable
  <2>5. \/ touched' /\ queue' = approval
        \/ UNCHANGED <<queue, running>> /\ (touched => touched')
    BY <1>6 DEF ExecuteDocker, RefuseDrift, Launch, SessionLost, docker, gates, Goes, Acts, Raises
  <2> QED
    BY <2>3, <2>4, <2>5
<1>7. CASE SomeoneUsesDocker
  <2>1. \A o \in Objects : objects'[o] \in ConditionsOf(ClassOf[o])
    BY <1>0, <1>7 DEF SomeoneUsesDocker, GateTwoPassed
  <2> QED
    BY <1>0, <1>7, <2>1 DEF SomeoneUsesDocker, Drifts, RowKept, ApprovalHeld, AtWork, GateTwoPassed,
       Executable, store, gates, past
<1> QED
  BY <1>1, <1>2, <1>3, <1>4, <1>5, <1>6, <1>7

\* An object that gate 2 lets through is as the approval's hash says.
LEMMA GatePasses ==
  ASSUME RowKept, ApprovalHeld, GateTwoPassed, DockerTypeOK, NEW o \in Objects, o \in queue, Passes(o)
  PROVE  /\ objects[o] # "gone"
         /\ ClassOf[o] # "image_unused" => objects[o] # "busy"
         /\ row.shows[o] = "cleanup_candidate" => objects[o] # "dirty"
<1>1. o \in Executable /\ hash = row.shows
  BY DEF RowKept, ApprovalHeld, AtWork
<1>2. ClassOf[o] \in {"image_dangling", "image_unused", "container_stopped"}
  BY <1>1, DockerAssumption DEF Executable, Classes
<1>3. objects[o] \in ConditionsOf(ClassOf[o])
  BY DEF GateTwoPassed
<1> QED
  BY <1>1, <1>2, <1>3 DEF Passes, ConditionsOf

\* The wrapper removes what is held, and holds what passed.
LEMMA WrapperHolds ==
  ASSUME DockerTypeOK, RowKept, ApprovalHeld, GateTwoPassed, WrapperStep
  PROVE  RowKept' /\ ApprovalHeld' /\ GateTwoPassed'
<1>0. RowKept'
  BY DEF WrapperStep, WrapperExits, WrapperDies, GateTwo, RemoveHeld, store, RowKept, Executable
<1>1. CASE WrapperExits \/ WrapperDies
  <2>1. UNCHANGED <<row, objects, assessment, approval, hash, queue, held, removed, admitted, touched, kind>>
    BY <1>1 DEF WrapperExits, WrapperDies, store, past, Goes, run
  <2>2. ~running' /\ node' \in {node, "end"}
    BY <1>1 DEF WrapperExits, WrapperDies, Goes, run
  <2> QED
    BY <1>0, <2>1, <2>2 DEF ApprovalHeld, AtWork, GateTwoPassed
<1>2. ASSUME NEW o \in Objects, GateTwo(o)
      PROVE  ApprovalHeld' /\ GateTwoPassed'
  <2>1. UNCHANGED <<row, objects, assessment, approval, hash, removed, running, run>>
    BY <1>2 DEF GateTwo, store
  <2>2. o \in queue /\ queue' = queue \ {o} /\ held = {} /\ running
    BY <1>2 DEF GateTwo
  <2>3. held' \subseteq {o}
    BY <1>2, <2>2 DEF GateTwo
  <2>4. ApprovalHeld'
    BY <2>1, <2>2, <2>3 DEF ApprovalHeld, AtWork, run
  <2>5. CASE held' = {}
    <3>1. UNCHANGED admitted
      BY <1>2, <2>5 DEF GateTwo
    <3> QED
      BY <2>1, <2>2, <2>4, <2>5, <3>1 DEF GateTwoPassed
  <2>6. CASE held' # {}
    <3>1. Passes(o) /\ admitted' = [admitted EXCEPT ![o] = objects[o]]
      BY <1>2, <2>2, <2>6 DEF GateTwo
    <3>2. /\ objects[o] # "gone"
          /\ ClassOf[o] # "image_unused" => objects[o] # "busy"
          /\ row.shows[o] = "cleanup_candidate" => objects[o] # "dirty"
      BY <2>2, <3>1, GatePasses
    <3>3. admitted \in [Objects -> Conditions] /\ removed \subseteq Objects
      BY DEF DockerTypeOK
    <3> QED
      BY <2>1, <2>3, <2>4, <3>1, <3>2, <3>3 DEF GateTwoPassed
  <2> QED
    BY <2>4, <2>5, <2>6
<1>3. ASSUME NEW o \in Objects, RemoveHeld(o)
      PROVE  ApprovalHeld' /\ GateTwoPassed'
  <2>1. UNCHANGED <<row, assessment, approval, hash, queue, running, admitted, run>>
    BY <1>3 DEF RemoveHeld, store
  <2>2. held = {o} /\ held' = {} /\ removed' \subseteq removed \cup {o} /\ running
    BY <1>3 DEF RemoveHeld
  <2>3. \A x \in Objects : objects'[x] \in ConditionsOf(ClassOf[x])
    BY <1>3, ConditionsOfTypes DEF RemoveHeld, GateTwoPassed, DockerTypeOK
  <2>4. ApprovalHeld'
    BY <2>1, <2>2 DEF ApprovalHeld, AtWork, run
  <2> QED
    BY <2>1, <2>2, <2>3, <2>4 DEF GateTwoPassed
<1> QED
  BY <1>0, <1>1, <1>2, <1>3 DEF WrapperStep

\* All of it together.
LEMMA DockerHolds ==
  ASSUME DockerTypeOK, DockerInv, DockerMoves
  PROVE  DockerInv'
<1>1. kind' = "docker_hygiene"
  BY DockerFrame DEF DockerInv
<1>2. RowKept' /\ ApprovalHeld' /\ GateTwoPassed'
  BY RowWritersHold, GraphHolds, WrapperHolds DEF DockerInv, DockerMoves, DockerStep, DockerOthers
<1> QED
  BY <1>1, <1>2 DEF DockerInv, RunIdle, DockerIdle

\* Other runs leave the Docker part alone, and find it untouched.
LEMMA DockerRests ==
  ASSUME DockerInv, kind # "docker_hygiene", kind' \notin {"none", "docker_hygiene"}, UNCHANGED docker
  PROVE  DockerInv'
<1>1. UNCHANGED <<row, objects, assessment, approval, hash, queue, held, said, running, results, removed, admitted>>
  BY DEF docker, gates, past
<1>2. approval = {} /\ queue = {} /\ held = {} /\ removed = {} /\ ~running
  BY DEF DockerInv, DockerIdle
<1>3. RunIdle' /\ DockerIdle'
  BY <1>1 DEF DockerInv, RunIdle, DockerIdle
<1>4. RowKept'
  BY <1>1 DEF DockerInv, RowKept, Executable
<1>5. ApprovalHeld'
  BY <1>1, <1>2 DEF ApprovalHeld, AtWork
<1>6. GateTwoPassed'
  BY <1>1 DEF DockerInv, GateTwoPassed
<1> QED
  BY <1>3, <1>4, <1>5, <1>6 DEF DockerInv

----------------------------------------------------------------------------
\* The removals are accounted for.

\* Before the wrapper says anything, there is no line.
LEMMA NoLines ==
  DOMAIN NoResults = {}
BY DEF NoResults

\* What a step of another actor leaves alone, of what the invariant is about.
OutcomeKept == UNCHANGED <<kind, dry, touched, node, status, approval, queue, held, removed, said,
                           results, running>>

LEMMA OthersAccount ==
  ASSUME OutcomeInv,
         OperatorDecides \/ ReconcilerExpires \/ ClockRuns \/ Polls \/ SomeoneUsesDocker
  PROVE  OutcomeInv'
<1>1. CASE SomeoneUsesDocker /\ kind = "docker_hygiene"
  <2>1. OutcomeKept
    BY <1>1 DEF SomeoneUsesDocker, Drifts, OutcomeKept, gates, past
  <2> QED
    BY <2>1 DEF OutcomeKept, OutcomeInv, SaidTrue, Outcome, AtWork
<1>2. CASE OperatorDecides \/ ReconcilerExpires \/ ClockRuns \/ Polls
  <2>1. OutcomeKept
    BY <1>2 DEF OperatorDecides, ReconcilerExpires, ClockRuns, Polls, OutcomeKept, run, docker, gates, past
  <2> QED
    BY <2>1 DEF OutcomeKept, OutcomeInv, SaidTrue, Outcome, AtWork
<1>3. SomeoneUsesDocker => kind = "docker_hygiene"
  BY DEF SomeoneUsesDocker, Drifts
<1> QED
  BY <1>1, <1>2, <1>3

\* Up to the wrapper's start there is nothing to account for.
Unstarted == /\ ~touched'
             /\ kind' = "docker_hygiene"
             /\ status' # "success"
             /\ node' \in Nodes
             /\ node' = "approval" \/ approval' # {} => ~dry'
             /\ UNCHANGED <<queue, held, removed, said, results, running>>

LEMMA UnstartedAccounts ==
  ASSUME OutcomeInv, Unstarted,
         AtWork = {}, said = NoResults, results = NoResults, ~running
  PROVE  OutcomeInv'
<1>1. queue = {} /\ held = {} /\ removed = {} /\ DOMAIN said = {} /\ DOMAIN results = {}
  BY NoLines DEF AtWork
<1>2. SaidTrue'
  BY <1>1 DEF Unstarted, SaidTrue
<1>3. Outcome'
  BY <1>1 DEF Unstarted, Outcome, AtWork
<1> QED
  BY <1>2, <1>3 DEF OutcomeInv

\* The graph's nodes.
LEMMA GraphAccounts ==
  ASSUME RunTypeOK, RunTypeOK', DockerInv, OutcomeInv,
         BeginDocker \/ ValidateDocker \/ AssessDocker \/ Register \/ WaitTimesOut \/ TakeDecision
  PROVE  OutcomeInv'
<1>0. node' \in Nodes
  BY DEF RunTypeOK
<1>1. CASE BeginDocker
  <2>1. /\ AtWork = {} /\ said = NoResults /\ results = NoResults /\ ~running
        /\ approval = {} /\ ~touched /\ status = "unset"
    BY <1>1 DEF BeginDocker, Enter, DockerInv, DockerIdle, RunIdle, AtWork
  <2>2. Unstarted
    BY <1>0, <1>1, <2>1 DEF BeginDocker, Enter, Unstarted, gates, past
  <2> QED
    BY <2>1, <2>2, UnstartedAccounts
<1>2. CASE ~BeginDocker
  <2>1. kind = "docker_hygiene" /\ node \notin {"execute", "end"}
    BY <1>2 DEF ValidateDocker, AssessDocker, Register, WaitTimesOut, TakeDecision, Approve, At
  <2>2. /\ AtWork = {} /\ said = NoResults /\ results = NoResults /\ ~running
        /\ ~touched /\ status # "success"
        /\ node = "approval" \/ approval # {} => ~dry
    BY <2>1 DEF OutcomeInv, Outcome
  <2>3. ~touched' /\ kind' = kind /\ dry' = dry /\ status' # "success"
    BY <1>2, <2>2 DEF ValidateDocker, AssessDocker, Register, WaitTimesOut, TakeDecision, Approve, Goes, Raises
  <2>4. UNCHANGED <<queue, held, removed, said, results, running>>
    BY <1>2 DEF ValidateDocker, AssessDocker, Register, WaitTimesOut, TakeDecision, Approve, docker, gates, past
  <2>5. node' = "approval" \/ approval' # {} => ~dry
    <3>1. CASE AssessDocker
      BY <2>2, <3>1 DEF AssessDocker, Goes, Raises, RouteAssessed
    <3>2. CASE ValidateDocker \/ Register \/ WaitTimesOut \/ TakeDecision
      BY <2>2, <3>2 DEF ValidateDocker, Register, WaitTimesOut, TakeDecision, Approve, At, Goes, docker
    <3> QED
      BY <1>2, <3>1, <3>2
  <2>6. Unstarted
    BY <1>0, <2>1, <2>3, <2>4, <2>5 DEF Unstarted
  <2> QED
    BY <2>2, <2>6, UnstartedAccounts
<1> QED
  BY <1>1, <1>2

\* The execute node: a drift is found before the wrapper starts only.
LEMMA ExecuteAccounts ==
  ASSUME RunTypeOK, RunTypeOK', DockerInv, OutcomeInv, ExecuteDocker
  PROVE  OutcomeInv'
<1>0. /\ kind = "docker_hygiene" /\ node = "execute" /\ approval # {}
      /\ approval' = approval /\ kind' = kind /\ dry' = dry
      /\ ~dry
      /\ results = NoResults /\ status # "success"
  <2>1. kind = "docker_hygiene" /\ node = "execute"
    BY DEF ExecuteDocker, At
  <2>2. approval # {}
    BY <2>1 DEF DockerInv, ApprovalHeld
  <2>3. approval' = approval /\ kind' = kind /\ dry' = dry
    BY DEF ExecuteDocker, RefuseDrift, Launch, SessionLost, docker, Goes, Acts, Raises
  <2> QED
    BY <2>1, <2>2, <2>3 DEF OutcomeInv, Outcome
<1>1. CASE ~touched /\ ~touched'
  <2>1. AtWork = {} /\ said = NoResults /\ ~running
    BY <1>0, <1>1 DEF OutcomeInv, Outcome
  <2>2. UNCHANGED <<queue, held, removed, said, results, running>> /\ status' # "success"
    BY <1>1 DEF ExecuteDocker, RefuseDrift, Launch, SessionLost, Waiting, docker, gates, past, Goes, Acts,
       Raises
  <2>3. Unstarted
    BY <1>0, <1>1, <2>2 DEF Unstarted, RunTypeOK
  <2> QED
    BY <1>0, <2>1, <2>3, UnstartedAccounts
<1>2. CASE ~touched /\ touched'
  <2>1. /\ queue' = approval /\ running' /\ node' = "execute" /\ status' = status
        /\ UNCHANGED <<held, removed, said, results>>
    BY <1>2 DEF ExecuteDocker, RefuseDrift, Launch, SessionLost, Waiting, docker, past, Goes, Acts, Raises
  <2>2. held = {} /\ removed = {} /\ DOMAIN said = {} /\ DOMAIN results = {}
    BY <1>0, <1>2, NoLines DEF OutcomeInv, Outcome, AtWork
  <2>3. SaidTrue'
    BY <2>1, <2>2 DEF SaidTrue
  <2>4. Outcome'
    BY <1>0, <1>2, <2>1, <2>2 DEF Outcome
  <2> QED
    BY <2>3, <2>4 DEF OutcomeInv
<1>3. CASE touched
  <2>1. running
    BY <1>0, <1>3 DEF OutcomeInv, Outcome
  <2>2. hash = assessment
    BY <2>1 DEF DockerInv, ApprovalHeld
  <2>3. SessionLost
    BY <1>3, <2>2 DEF ExecuteDocker, RefuseDrift, Launch, GateOne
  <2>4. /\ UNCHANGED <<queue, held, removed, said, results, running>>
        /\ node' = "end" /\ status' = "failed"
    BY <2>3 DEF SessionLost, Raises, docker, gates, past
  <2>5. touched'
    BY <1>3, <2>3 DEF SessionLost, Raises
  <2>6. SaidTrue'
    BY <2>4 DEF OutcomeInv, SaidTrue
  <2>7. Outcome'
    BY <1>0, <2>4, <2>5, NoLines DEF Outcome
  <2> QED
    BY <2>6, <2>7 DEF OutcomeInv
<1> QED
  BY <1>1, <1>2, <1>3

\* A line that is looked at, and one whose object is removed.
LEMMA LinesAccount ==
  ASSUME DockerTypeOK, DockerInv, OutcomeInv, kind = "docker_hygiene",
         NEW o \in Objects, GateTwo(o) \/ RemoveHeld(o)
  PROVE  OutcomeInv'
<1>1. running /\ touched /\ results = NoResults /\ DOMAIN results = {}
  BY NoLines DEF GateTwo, RemoveHeld, DockerInv, ApprovalHeld, OutcomeInv, Outcome
<1>2. UNCHANGED <<approval, results, running, run>>
  BY DEF GateTwo, RemoveHeld
<1>3. SaidTrue'
  <2>1. CASE GateTwo(o)
    BY <2>1 DEF GateTwo, SkipResult, NowSaid, OutcomeInv, SaidTrue, DockerTypeOK, IsResult
  <2>2. CASE RemoveHeld(o)
    BY <2>2 DEF RemoveHeld, NowSaid, OutcomeInv, SaidTrue, DockerTypeOK, IsResult
  <2> QED
    BY <2>1, <2>2
<1>4. Outcome'
  BY <1>1, <1>2 DEF OutcomeInv, Outcome, run
<1> QED
  BY <1>3, <1>4 DEF OutcomeInv

\* The results are the wrapper's lines, an approved object without one counted as
\* failed.
LEMMA ParsedAccounts ==
  ASSUME DockerTypeOK, SaidTrue, approval # {}, NEW readable \in SUBSET DOMAIN said
  PROVE  /\ DOMAIN Parsed(readable) = approval
         /\ Parsed(readable) # NoResults
         /\ \A o \in approval : Parsed(readable)[o] = "removed" => o \in removed
         /\ \A o \in removed \cap approval : Parsed(readable)[o] \in {"removed", "failed"}
         /\ Aggregate(Parsed(readable)) \in {"success", "failed", "skipped"}
         /\ Aggregate(Parsed(readable)) = "success" =>
              /\ removed # {}
              /\ \A o \in approval : Parsed(readable)[o] # "failed"
<1> DEFINE r == Parsed(readable)
<1>1. DOMAIN r = approval
  BY DEF Parsed
<1>2. \A o \in approval : r[o] = IF o \in readable THEN said[o] ELSE "failed"
  BY DEF Parsed
<1>3. r # NoResults
  BY <1>1, NoLines
<1>4. \A o \in approval : r[o] \in RemovalStatuses
  BY <1>2 DEF DockerTypeOK, IsResult, RemovalStatuses
<1>5. /\ \A o \in approval : r[o] = "removed" => o \in removed
      /\ \A o \in removed \cap approval : r[o] \in {"removed", "failed"}
  BY <1>2 DEF SaidTrue
<1> HIDE DEF r
<1>6. Aggregate(r) \in {"success", "failed", "skipped"}
  BY DEF Aggregate
<1>7. ASSUME Aggregate(r) = "success"
      PROVE  removed # {} /\ \A o \in approval : r[o] # "failed"
  <2>1. \A o \in approval : r[o] # "failed"
    BY <1>1, <1>7 DEF Aggregate
  <2>2. ~\A o \in approval : r[o] \in {"drift_skipped", "skipped_not_found"}
    BY <1>1, <1>7, <2>1 DEF Aggregate
  <2>3. \E o \in approval : r[o] = "removed"
    BY <1>4, <2>1, <2>2 DEF RemovalStatuses
  <2> QED
    BY <1>5, <2>1, <2>3
<1> QED
  BY <1>1, <1>3, <1>5, <1>6, <1>7 DEF r

\* The wrapper's end is the run's end, unless the run is over already.
LEMMA WrapperEndAccounts ==
  ASSUME DockerTypeOK, DockerInv, OutcomeInv, kind = "docker_hygiene", WrapperExits \/ WrapperDies
  PROVE  OutcomeInv'
<1>1. /\ running /\ touched /\ ~dry /\ approval # {}
      /\ results = NoResults /\ DOMAIN results = {} /\ status # "success"
      /\ node \in {"execute", "end"}
  BY NoLines DEF WrapperExits, WrapperDies, DockerInv, ApprovalHeld, OutcomeInv, Outcome
<1>2. UNCHANGED <<approval, queue, held, removed, said, kind, dry, touched>> /\ ~running'
  BY DEF WrapperExits, WrapperDies, past, Goes, run
<1>3. SaidTrue'
  BY <1>2 DEF OutcomeInv, SaidTrue
<1>4. CASE node = "end"
  <2>1. UNCHANGED <<results, node, status>>
    BY <1>4 DEF WrapperExits, WrapperDies, Waiting, At, run
  <2>2. Outcome'
    BY <1>1, <1>2, <1>4, <2>1 DEF OutcomeInv, Outcome
  <2> QED
    BY <1>3, <2>2 DEF OutcomeInv
<1>5. CASE node = "execute" /\ WrapperDies
  <2>1. results' = results /\ node' = "end" /\ status' = "failed"
    BY <1>1, <1>5 DEF WrapperDies, Waiting, At, Goes
  <2>2. Outcome'
    BY <1>1, <1>2, <2>1 DEF Outcome
  <2> QED
    BY <1>3, <2>2 DEF OutcomeInv
<1>6. CASE node = "execute" /\ WrapperExits
  <2>1. PICK readable \in SUBSET DOMAIN said :
          /\ results' = Parsed(readable)
          /\ node' = "end" /\ status' = Aggregate(Parsed(readable))
    BY <1>1, <1>6 DEF WrapperExits, Waiting, At, Goes
  <2>2. /\ DOMAIN results' = approval
        /\ results' # NoResults
        /\ \A o \in approval : results'[o] = "removed" => o \in removed
        /\ \A o \in removed \cap approval : results'[o] \in {"removed", "failed"}
        /\ status' \in {"success", "failed", "skipped"}
        /\ status' = "success" => removed # {} /\ \A o \in approval : results'[o] # "failed"
    BY <1>1, <2>1, ParsedAccounts DEF OutcomeInv
  <2>3. Outcome'
    BY <1>1, <1>2, <2>1, <2>2 DEF Outcome
  <2> QED
    BY <1>3, <2>3 DEF OutcomeInv
<1> QED
  BY <1>1, <1>4, <1>5, <1>6

\* All of it together.
LEMMA OutcomeHolds ==
  ASSUME RunTypeOK, DockerTypeOK, DockerInv, OutcomeInv, DockerMoves
  PROVE  OutcomeInv'
<1>1. RunTypeOK'
  BY DockerRunTypes
<1>2. WrapperStep => kind = "docker_hygiene"
  BY DEF WrapperStep, WrapperExits, WrapperDies, GateTwo, RemoveHeld, DockerInv, DockerIdle
<1>3. CASE WrapperStep
  BY <1>2, <1>3, LinesAccount, WrapperEndAccounts DEF WrapperStep
<1>4. CASE ~WrapperStep
  BY <1>1, <1>4, GraphAccounts, ExecuteAccounts, OthersAccount DEF DockerMoves, DockerStep, DockerOthers
<1> QED
  BY <1>3, <1>4

\* Other runs leave it alone.
LEMMA OutcomeRests ==
  ASSUME OutcomeInv, kind' # "docker_hygiene", UNCHANGED docker
  PROVE  OutcomeInv'
BY DEF OutcomeInv, SaidTrue, Outcome, docker, gates, past

----------------------------------------------------------------------------
\* Observation reports what moved.

\* Each check captures scopes of its own.
LEMMA ScopesOfChecks ==
  /\ \A k \in Checks \ {"authorized_keys"} : k \in Scopes /\ CheckOf(k) = k
  /\ \A u \in Users : u \in Scopes /\ CheckOf(u) = "authorized_keys"
BY ObservationAssumption DEF Checks, Scopes, CheckOf

\* Observation moves a run of its kind, and its own part of the state only.
LEMMA ObservationFrame ==
  ASSUME ObservationMoves
  PROVE  /\ kind' = "observe"
         /\ kind \in {"none", "observe"}
         /\ UNCHANGED <<packages, docker, house>>
<1>1. UNCHANGED <<packages, docker, house>>
  BY DEF ObservationMoves
<1>2. CASE BeginObservation
  BY <1>1, <1>2 DEF BeginObservation, Enter
<1>3. CASE DiskSnapshot
  BY <1>1, <1>3 DEF DiskSnapshot, LogRaises, Aborts, At, Goes, Raises
<1>4. CASE CaptureSudoers \/ CaptureAuthorizedKeys \/ CaptureListeningPorts \/ CaptureScheduledJobs
  BY <1>1, <1>4 DEF CaptureSudoers, CaptureAuthorizedKeys, CaptureListeningPorts, CaptureScheduledJobs,
     Capture, BetweenCaptures, At, run
<1>5. CASE CompareAndSave \/ StoreFails \/ ReportDrift \/ EndDrift
  BY <1>1, <1>5 DEF CompareAndSave, StoreFails, ReportDrift, EndDrift, LogRaises, Aborts, BetweenCaptures,
     At, Goes, Raises, run
<1>6. CASE FailedLogins
  BY <1>1, <1>6 DEF FailedLogins, LogRaises, Aborts, At, Goes, Raises
<1>7. CASE SomeoneReconfigures
  BY <1>1, <1>7 DEF SomeoneReconfigures, Drifts
<1> QED
  BY <1>2, <1>3, <1>4, <1>5, <1>6, <1>7 DEF ObservationMoves, ObservationStep, DriftBaseline

\* Its steps keep the types of what every run has.
LEMMA ObservationRunTypes ==
  ASSUME RunTypeOK, ObservationMoves
  PROVE  RunTypeOK'
<1>1. "observe" \in Kinds /\ {"disk_snapshot", "drift_baseline", "failed_logins", "end"} \subseteq Nodes
      /\ status \in Statuses
  BY DEF Kinds, Nodes, RunTypeOK
<1>2. CASE BeginObservation \/ SomeoneReconfigures
  BY <1>1, <1>2, EdgeTypes DEF BeginObservation, SomeoneReconfigures
<1>3. CASE DiskSnapshot
  BY <1>1, <1>3, NodeTypes, RaiseTypes DEF DiskSnapshot, LogRaises, Aborts
<1>4. CASE CaptureSudoers \/ CaptureAuthorizedKeys \/ CaptureListeningPorts \/ CaptureScheduledJobs
  BY <1>4 DEF CaptureSudoers, CaptureAuthorizedKeys, CaptureListeningPorts, CaptureScheduledJobs,
     Capture, RunTypeOK, run
<1>5. CASE CompareAndSave \/ StoreFails \/ ReportDrift \/ EndDrift
  <2>1. UNCHANGED run => RunTypeOK'
    BY DEF RunTypeOK, run
  <2>2. UNCHANGED run \/ Raises(FALSE) \/ Goes("failed_logins", status)
    BY <1>5 DEF CompareAndSave, StoreFails, ReportDrift, EndDrift, LogRaises, Aborts
  <2> QED
    BY <1>1, <2>1, <2>2, NodeTypes, RaiseTypes
<1>6. CASE FailedLogins
  BY <1>1, <1>6, NodeTypes, RaiseTypes DEF FailedLogins, LogRaises, Aborts
<1> QED
  BY <1>2, <1>3, <1>4, <1>5, <1>6 DEF ObservationMoves, ObservationStep, DriftBaseline

\* What a node logs or gives up keeps its type.
LEMMA LogTypes ==
  ASSUME SightTypeOK, NEW due \in SUBSET (Scopes \cup Mounts \cup {"failed_logins"}),
         Logs(due) \/ LogRaises(due)
  PROVE  trail' \in SUBSET (Scopes \cup Mounts \cup {"failed_logins"}) /\ lost' \in BOOLEAN
<1>1. PICK rows \in SUBSET due : trail' = trail \cup rows
  BY DEF Logs, LogRaises
<1>2. trail' \in SUBSET (Scopes \cup Mounts \cup {"failed_logins"})
  BY <1>1 DEF SightTypeOK
<1>3. lost' \in BOOLEAN
  BY DEF Logs, LogRaises, SightTypeOK
<1> QED
  BY <1>2, <1>3

\* So do the locals of the drift node, kept or gone.
LEMMA LocalTypes ==
  ASSUME SightTypeOK, UNCHANGED locals \/ Aborts
  PROVE  /\ todo' \in SUBSET Checks
         /\ DOMAIN captures' \subseteq Scopes
         /\ \A s \in DOMAIN captures' : captures'[s] \in Contents
         /\ firsts' \in SUBSET Scopes
         /\ diffs' \in SUBSET Scopes
<1>1. CASE UNCHANGED locals
  BY <1>1 DEF locals, SightTypeOK
<1>2. CASE Aborts
  BY <1>2 DEF Aborts, NoCaptures
<1> QED
  BY <1>1, <1>2

\* A batch of readings keeps the histories sequences of readings.
LEMMA RecordedTypes ==
  ASSUME window \in [Mounts -> Seq(Usages)], NEW named \in SUBSET Mounts, NEW shown \in [named -> Usages]
  PROVE  Recorded(shown) \in [Mounts -> Seq(Usages)]
<1> SUFFICES ASSUME NEW m \in Mounts
             PROVE  (IF m \in DOMAIN shown THEN Append(window[m], shown[m]) ELSE window[m]) \in Seq(Usages)
  BY DEF Recorded
<1>1. window[m] \in Seq(Usages)
  OBVIOUS
<1>2. m \in DOMAIN shown => shown[m] \in Usages
  OBVIOUS
<1>3. \A e \in Usages : Append(window[m], e) \in Seq(Usages)
  BY <1>1
<1> QED
  BY <1>1, <1>2, <1>3

\* Observation keeps the types of its part.
LEMMA SightTypes ==
  ASSUME SightTypeOK, ObservationMoves
  PROVE  SightTypeOK'
<1>1. CASE BeginObservation
  <2> DEFINE on == todo'
  <2>1. PICK now \in [Watched(on) -> Contents \cup {"absent"}], kept \in [Watched(on) -> Contents \cup {"none"}] :
          /\ content' = [s \in Scopes |-> IF s \in Watched(on) THEN now[s] ELSE content[s]]
          /\ baseline' = [s \in Scopes |-> IF s \in Watched(on) THEN kept[s] ELSE baseline[s]]
    BY <1>1 DEF BeginObservation
  <2>2. content' \in [Scopes -> Contents \cup {"absent"}]
    BY <2>1 DEF SightTypeOK
  <2>3. baseline' \in [Scopes -> Contents \cup {"none"}] /\ before' = baseline'
    BY <1>1, <2>1 DEF SightTypeOK, BeginObservation
  <2>4. PICK then \in [Mounts -> Usages \cup {MaxUsage + 1}] :
          window' = [m \in Mounts |-> IF then[m] \in Usages THEN <<then[m]>> ELSE <<>>]
    BY <1>1 DEF BeginObservation
  <2>5. \A u \in Usages : <<u>> \in Seq(Usages)
    OBVIOUS
  <2>6. <<>> \in Seq(Usages)
    OBVIOUS
  <2>7. window' \in [Mounts -> Seq(Usages)]
    BY <2>4, <2>5, <2>6
  <2>8. todo' \in SUBSET Checks /\ UNCHANGED <<captures, firsts, diffs, changes, alerts, summary, trail, lost>>
    BY <1>1 DEF BeginObservation
  <2> QED
    BY <2>2, <2>3, <2>7, <2>8 DEF SightTypeOK
<1>2. CASE DiskSnapshot
  <2>1. UNCHANGED <<content, baseline, before>>
        /\ (UNCHANGED locals \/ Aborts)
    BY <1>2 DEF DiskSnapshot, LogRaises
  <2>2. changes' \in SUBSET Scopes /\ summary' \in {"none", "zero", "some"}
    BY <1>2 DEF DiskSnapshot, LogRaises, Aborts, SightTypeOK
  <2>3. window' \in [Mounts -> Seq(Usages)]
    <3>1. window' = window \/ \E named \in SUBSET Mounts : \E shown \in [named -> Usages] : window' = Recorded(shown)
      BY <1>2 DEF DiskSnapshot, disks
    <3>2. window \in [Mounts -> Seq(Usages)]
      BY DEF SightTypeOK
    <3>3. ASSUME NEW named \in SUBSET Mounts, NEW shown \in [named -> Usages]
          PROVE  Recorded(shown) \in [Mounts -> Seq(Usages)]
      BY <3>2, RecordedTypes
    <3> QED
      BY <3>1, <3>2, <3>3
  <2>4. Grown(window') \in SUBSET Mounts
    BY DEF Grown
  <2>5. alerts' \in SUBSET Mounts
    BY <1>2, <2>4 DEF DiskSnapshot, LogRaises, Aborts, disks, SightTypeOK
  <2>6. UNCHANGED <<trail, lost>> \/ Logs(Grown(window')) \/ LogRaises(Grown(window'))
    BY <1>2 DEF DiskSnapshot
  <2>7. trail' \in SUBSET (Scopes \cup Mounts \cup {"failed_logins"}) /\ lost' \in BOOLEAN
    BY <2>4, <2>6, LogTypes DEF SightTypeOK
  <2>8. /\ todo' \in SUBSET Checks /\ DOMAIN captures' \subseteq Scopes
        /\ \A s \in DOMAIN captures' : captures'[s] \in Contents
        /\ firsts' \in SUBSET Scopes /\ diffs' \in SUBSET Scopes
    BY <2>1, LocalTypes
  <2>9. content' \in [Scopes -> Contents \cup {"absent"}]
        /\ baseline' \in [Scopes -> Contents \cup {"none"}]
        /\ before' \in [Scopes -> Contents \cup {"none"}]
    BY <2>1 DEF SightTypeOK
  <2> QED
    BY <2>2, <2>3, <2>5, <2>7, <2>8, <2>9 DEF SightTypeOK
<1>3. ASSUME NEW k \in Checks, NEW shown \in SUBSET Scopes, Capture(k, shown)
      PROVE  SightTypeOK'
  <2>1. UNCHANGED <<run, content, baseline, before, firsts, diffs, changes, disks, summary, trail, lost>>
        /\ todo' = todo \ {k}
    BY <1>3 DEF Capture
  <2>2. captures' = NoCaptures \/ \E f \in [shown -> Contents] : captures' = f
    BY <1>3 DEF Capture, Kept
  <2>3. DOMAIN captures' \subseteq Scopes /\ \A s \in DOMAIN captures' : captures'[s] \in Contents
    BY <2>2 DEF NoCaptures
  <2> QED
    BY <2>1, <2>3 DEF SightTypeOK, disks
<1>4. CASE CaptureSudoers \/ CaptureAuthorizedKeys \/ CaptureListeningPorts \/ CaptureScheduledJobs
  BY <1>3, <1>4, ScopesOfChecks DEF CaptureSudoers, CaptureAuthorizedKeys, CaptureListeningPorts,
     CaptureScheduledJobs, Checks
<1>5. ASSUME NEW s \in DOMAIN captures, Save(s)
      PROVE  baseline' \in [Scopes -> Contents \cup {"none"}]
  <2>1. s \in Scopes /\ captures[s] \in Contents
    BY DEF SightTypeOK
  <2> QED
    BY <1>5, <2>1 DEF Save, SightTypeOK
<1>6. CASE CompareAndSave
  <2>1. PICK s \in DOMAIN captures :
          /\ Save(s)
          /\ captures' = [r \in DOMAIN captures \ {s} |-> captures[r]]
          /\ firsts' \subseteq {s}
          /\ diffs' \subseteq {s}
    BY <1>6 DEF CompareAndSave
  <2>2. DOMAIN captures' \subseteq Scopes /\ \A r \in DOMAIN captures' : captures'[r] \in Contents
    BY <2>1 DEF SightTypeOK
  <2>3. firsts' \in SUBSET Scopes /\ diffs' \in SUBSET Scopes
    BY <2>1 DEF SightTypeOK
  <2>4. UNCHANGED <<content, before, todo, changes, disks, summary, trail, lost>>
    BY <1>6 DEF CompareAndSave
  <2> QED
    BY <1>5, <2>1, <2>2, <2>3, <2>4 DEF SightTypeOK, disks
<1>7. CASE StoreFails
  <2>1. baseline' \in [Scopes -> Contents \cup {"none"}]
    BY <1>5, <1>7 DEF StoreFails, SightTypeOK
  <2>2. UNCHANGED <<content, before, window, trail, lost>> /\ Aborts
        /\ changes' = {} /\ alerts' = {} /\ summary' = "none"
    BY <1>7 DEF StoreFails, Aborts
  <2>3. /\ todo' \in SUBSET Checks /\ DOMAIN captures' \subseteq Scopes
        /\ \A s \in DOMAIN captures' : captures'[s] \in Contents
        /\ firsts' \in SUBSET Scopes /\ diffs' \in SUBSET Scopes
    BY <2>2, LocalTypes
  <2> QED
    BY <2>1, <2>2, <2>3 DEF SightTypeOK
<1>8. CASE ReportDrift
  <2>1. UNCHANGED <<content, baseline, before, window>>
        /\ ((UNCHANGED <<todo, captures>> /\ firsts' = {} /\ diffs' = {}) \/ Aborts)
    BY <1>8 DEF ReportDrift, LogRaises
  <2>2. changes' \in SUBSET Scopes /\ alerts' \in SUBSET Mounts /\ summary' \in {"none", "zero", "some"}
    BY <1>8 DEF ReportDrift, LogRaises, Aborts, SightTypeOK
  <2>3. trail' \in SUBSET (Scopes \cup Mounts \cup {"failed_logins"}) /\ lost' \in BOOLEAN
    <3>1. firsts \cup diffs \in SUBSET (Scopes \cup Mounts \cup {"failed_logins"})
      BY DEF SightTypeOK
    <3>2. Logs(firsts \cup diffs) \/ LogRaises(firsts \cup diffs)
      BY <1>8 DEF ReportDrift
    <3> QED
      BY <3>1, <3>2, LogTypes
  <2>4. /\ todo' \in SUBSET Checks /\ DOMAIN captures' \subseteq Scopes
        /\ \A s \in DOMAIN captures' : captures'[s] \in Contents
        /\ firsts' \in SUBSET Scopes /\ diffs' \in SUBSET Scopes
    <3>1. CASE UNCHANGED <<todo, captures>> /\ firsts' = {} /\ diffs' = {}
      BY <3>1 DEF SightTypeOK
    <3>2. CASE Aborts
      BY <3>2, LocalTypes
    <3> QED
      BY <2>1, <3>1, <3>2
  <2>5. content' \in [Scopes -> Contents \cup {"absent"}]
        /\ baseline' \in [Scopes -> Contents \cup {"none"}]
        /\ before' \in [Scopes -> Contents \cup {"none"}]
        /\ window' \in [Mounts -> Seq(Usages)]
    BY <2>1 DEF SightTypeOK
  <2> QED
    BY <2>2, <2>3, <2>4, <2>5 DEF SightTypeOK
<1>9. CASE EndDrift
  BY <1>9, KeptTypes DEF EndDrift
<1>10. CASE FailedLogins
  <2>1. UNCHANGED <<content, baseline, before, window>>
        /\ (UNCHANGED locals \/ Aborts)
    BY <1>10 DEF FailedLogins, LogRaises
  <2>2. changes' \in SUBSET Scopes /\ alerts' \in SUBSET Mounts /\ summary' \in {"none", "zero", "some"}
    BY <1>10 DEF FailedLogins, Detected, LogRaises, Aborts, SightTypeOK
  <2>3. UNCHANGED <<trail, lost>> \/ Logs({"failed_logins"}) \/ LogRaises({"failed_logins"})
    BY <1>10 DEF FailedLogins
  <2>4. {"failed_logins"} \in SUBSET (Scopes \cup Mounts \cup {"failed_logins"})
    OBVIOUS
  <2>5. trail' \in SUBSET (Scopes \cup Mounts \cup {"failed_logins"}) /\ lost' \in BOOLEAN
    BY <2>3, <2>4, LogTypes DEF SightTypeOK
  <2>6. /\ todo' \in SUBSET Checks /\ DOMAIN captures' \subseteq Scopes
        /\ \A s \in DOMAIN captures' : captures'[s] \in Contents
        /\ firsts' \in SUBSET Scopes /\ diffs' \in SUBSET Scopes
    BY <2>1, LocalTypes
  <2>7. content' \in [Scopes -> Contents \cup {"absent"}]
        /\ baseline' \in [Scopes -> Contents \cup {"none"}]
        /\ before' \in [Scopes -> Contents \cup {"none"}]
        /\ window' \in [Mounts -> Seq(Usages)]
    BY <2>1 DEF SightTypeOK
  <2> QED
    BY <2>2, <2>5, <2>6, <2>7 DEF SightTypeOK
<1>11. CASE SomeoneReconfigures
  <2>1. PICK s \in Scopes, c \in Contents \cup {"absent"} : content' = [content EXCEPT ![s] = c]
    BY <1>11 DEF SomeoneReconfigures, Watched
  <2>2. UNCHANGED <<baseline, before, todo, captures, firsts, diffs, changes, disks, summary, trail, lost>>
    BY <1>11 DEF SomeoneReconfigures
  <2> QED
    BY <2>1, <2>2 DEF SightTypeOK, disks
<1> QED
  BY <1>1, <1>2, <1>4, <1>6, <1>7, <1>8, <1>9, <1>10, <1>11
     DEF ObservationMoves, ObservationStep, DriftBaseline

\* A run begins with nothing to report.
LEMMA ObservationBegins ==
  ASSUME SightInv, BeginObservation
  PROVE  SightInv'
<1>1. /\ kind = "none" /\ kind' = "observe" /\ node' = "disk_snapshot" /\ ~raised'
      /\ before' = baseline'
      /\ UNCHANGED <<captures, firsts, diffs, changes, alerts, trail, lost>>
  BY DEF BeginObservation, Enter, SightInv, RunIdle
<1>2. captures = NoCaptures /\ firsts = {} /\ diffs = {} /\ changes = {} /\ alerts = {} /\ trail = {} /\ ~lost
  BY <1>1 DEF SightInv, SightIdle
<1>3. Moved' = {}
  BY <1>1 DEF Moved
<1>4. DOMAIN captures' = {}
  BY <1>1, <1>2 DEF NoCaptures
<1>5. SightCourse'
  BY <1>1, <1>2 DEF SightCourse
<1>6. StoredOnce'
  BY <1>1, <1>2, <1>3, <1>4 DEF StoredOnce
<1>7. Reported'
  BY <1>1, <1>2, <1>3 DEF Reported
<1> QED
  BY <1>1, <1>5, <1>6, <1>7 DEF SightInv, RunIdle, SightIdle

\* The parts of the invariant that are about baselines stay when those do.
LEMMA StoredStays ==
  ASSUME StoredOnce, UNCHANGED <<baseline, before, todo, captures>>,
         UNCHANGED <<firsts, diffs>> \/ (firsts' = {} /\ diffs' = {})
  PROVE  StoredOnce' /\ Moved' = Moved
BY DEF StoredOnce, Moved

\* An exception leaves only what the trail and the baselines say.
LEMMA AbortsReported ==
  ASSUME SightInv, kind = "observe", Aborts, before' = before, trail \subseteq trail', lost' = lost,
         dry => UNCHANGED baseline,
         ~lost => \A s, t \in Moved' \ trail : s = t
  PROVE  SightInv'
<1>1. /\ raised' /\ kind' = kind /\ dry' = dry /\ node' = "end"
      /\ todo' = {} /\ captures' = NoCaptures /\ firsts' = {} /\ diffs' = {}
  BY DEF Aborts, Raises
<1>2. Reported'
  BY <1>1 DEF Reported
<1>3. SightCourse'
  BY <1>1 DEF SightInv, SightCourse
<1>4. StoredOnce'
  BY <1>1 DEF StoredOnce, NoCaptures
<1> QED
  BY <1>1, <1>2, <1>3, <1>4 DEF SightInv, RunIdle, SightIdle

\* With the baselines as they were, it leaves no more than there was.
LEMMA AbortsQuietly ==
  ASSUME SightInv, kind = "observe", Aborts, UNCHANGED <<baseline, before, lost>>, trail \subseteq trail'
  PROVE  SightInv'
<1>1. Moved' = Moved
  BY DEF Moved
<1>2. ~lost => \A s, t \in Moved' \ trail : s = t
  BY <1>1 DEF SightInv, Reported
<1> QED
  BY <1>2, AbortsReported

\* The node of disk usage.
LEMMA DisksReported ==
  ASSUME SightInv, DiskSnapshot
  PROVE  SightInv'
<1>1. kind = "observe" /\ node = "disk_snapshot" /\ UNCHANGED <<content, baseline, before>>
  BY DEF DiskSnapshot, At
<1>2. /\ baseline = before /\ changes = {} /\ alerts = {} /\ trail = {} /\ captures = NoCaptures
      /\ firsts \cup diffs = {} /\ ~raised
  BY <1>1 DEF SightInv, SightCourse
<1>3. CASE Aborts /\ UNCHANGED <<window, trail, lost>>
  BY <1>1, <1>3, AbortsQuietly
<1>4. CASE LogRaises(Grown(window'))
  BY <1>1, <1>4, AbortsQuietly DEF LogRaises
<1>5. ASSUME Goes("drift_baseline", status), UNCHANGED <<locals, changes>>,
             raised \/ lost' \/ alerts' \subseteq trail'
      PROVE  SightInv'
  <2>1. /\ kind' = kind /\ node' = "drift_baseline" /\ ~raised' /\ dry' = dry
        /\ UNCHANGED <<todo, captures, firsts, diffs, changes>>
    BY <1>2, <1>5 DEF Goes, locals
  <2>2. StoredOnce' /\ Moved' = Moved
    BY <1>1, <2>1, StoredStays DEF SightInv
  <2>3. Moved = {}
    BY <1>2 DEF Moved
  <2>4. Reported'
    BY <1>1, <1>2, <1>5, <2>1, <2>2, <2>3 DEF Reported
  <2>5. SightCourse'
    BY <1>1, <1>2, <2>1 DEF SightCourse
  <2> QED
    BY <1>1, <2>1, <2>2, <2>4, <2>5 DEF SightInv, RunIdle, SightIdle
<1>6. CASE Goes("drift_baseline", status) /\ UNCHANGED <<locals, disks, changes, summary, trail, lost>>
  BY <1>2, <1>5, <1>6 DEF disks
<1>7. CASE /\ Goes("drift_baseline", status)
           /\ alerts' = Grown(window')
           /\ Logs(Grown(window'))
           /\ UNCHANGED <<locals, changes, summary>>
  BY <1>5, <1>7 DEF Logs
<1> QED
  BY <1>3, <1>4, <1>6, <1>7 DEF DiskSnapshot

\* A capture is of scopes that were not stored yet.
LEMMA CaptureReported ==
  ASSUME SightInv, NEW k \in Checks, NEW shown \in SUBSET Scopes, \A s \in shown : CheckOf(s) = k,
         Capture(k, shown)
  PROVE  SightInv'
<1>1. /\ kind = "observe" /\ node = "drift_baseline" /\ captures = NoCaptures
      /\ firsts \cup diffs = {}
      /\ k \in todo
      /\ todo' = todo \ {k}
      /\ UNCHANGED <<run, content, baseline, before, firsts, diffs, changes, disks, summary, trail, lost>>
  BY DEF Capture, BetweenCaptures, At
<1>2. /\ DOMAIN captures' \subseteq shown
      /\ dry => captures' = NoCaptures
  BY DEF Capture, Kept, NoCaptures
<1>3. Moved' = Moved
  BY <1>1 DEF Moved
<1>4. StoredOnce'
  <2>1. \A s \in Scopes : (CheckOf(s) \in todo \/ s \in DOMAIN captures => baseline[s] = before[s])
    BY DEF SightInv, StoredOnce
  <2>2. \A s \in Scopes : (CheckOf(s) \in todo' \/ s \in DOMAIN captures' => baseline'[s] = before'[s])
    BY <1>1, <1>2, <2>1
  <2>3. \A s \in DOMAIN captures' : CheckOf(s) \notin todo'
    BY <1>1, <1>2
  <2> QED
    BY <1>1, <1>3, <2>2, <2>3 DEF SightInv, StoredOnce
<1>5. Reported'
  BY <1>1, <1>3 DEF run, disks, SightInv, Reported
<1>6. SightCourse'
  BY <1>1, <1>2 DEF run, disks, SightInv, SightCourse
<1> QED
  BY <1>1, <1>4, <1>5, <1>6 DEF SightInv, RunIdle, SightIdle, run

\* Saving a scope that is as it was moves it or not; nothing else moves.
LEMMA SaveMoves ==
  ASSUME SightTypeOK, StoredOnce, NEW s \in DOMAIN captures, Save(s), before' = before
  PROVE  /\ s \in Scopes
         /\ baseline[s] = before[s]
         /\ baseline'[s] = captures[s]
         /\ \A r \in Scopes \ {s} : baseline'[r] = baseline[r]
         /\ Moved' \subseteq Moved \cup {s}
         /\ Moved \subseteq Moved'
         /\ s \in Moved' <=> baseline[s] \notin {"none", captures[s]}
<1>1. s \in Scopes /\ baseline[s] = before[s]
  BY DEF SightTypeOK, StoredOnce
<1>2. baseline'[s] = captures[s] /\ \A r \in Scopes \ {s} : baseline'[r] = baseline[r]
  BY <1>1 DEF Save, SightTypeOK
<1> QED
  BY <1>1, <1>2 DEF Moved

\* A comparison has at most one event to log.
LEMMA CompareReported ==
  ASSUME SightTypeOK, SightInv, CompareAndSave
  PROVE  SightInv'
<1>1. /\ kind = "observe" /\ node = "drift_baseline" /\ firsts \cup diffs = {}
      /\ UNCHANGED <<run, content, before, todo, changes, disks, summary, trail, lost>>
  BY DEF CompareAndSave, At
<1>2. PICK s \in DOMAIN captures :
        /\ Save(s)
        /\ captures' = [r \in DOMAIN captures \ {s} |-> captures[r]]
        /\ firsts' = IF Latest(s) = "none" THEN {s} ELSE {}
        /\ diffs' = IF Latest(s) \notin {"none", captures[s]} THEN {s} ELSE {}
  BY DEF CompareAndSave
<1>3. ~dry /\ ~raised
  <2>1. captures # NoCaptures
    BY <1>2 DEF NoCaptures
  <2> QED
    BY <1>1, <2>1 DEF SightInv, SightCourse
<1>4. /\ s \in Scopes
      /\ baseline[s] = before[s]
      /\ baseline'[s] = captures[s]
      /\ \A r \in Scopes \ {s} : baseline'[r] = baseline[r]
      /\ Moved' \subseteq Moved \cup {s}
      /\ Moved \subseteq Moved'
      /\ s \in Moved' <=> baseline[s] \notin {"none", captures[s]}
  BY <1>1, <1>2, SaveMoves DEF SightInv
<1>5. /\ diffs' = Moved' \ Moved
      /\ firsts' \subseteq {s}
      /\ diffs' \subseteq {s}
      /\ baseline'[s] # before'[s] => s \in firsts' \cup diffs'
  <2>1. s \notin Moved
    BY <1>4 DEF Moved
  <2> QED
    BY <1>1, <1>2, <1>4, <2>1 DEF Latest
<1>6. StoredOnce'
  <2>1. \A r \in Scopes : (CheckOf(r) \in todo' \/ r \in DOMAIN captures' => baseline'[r] = before'[r])
    <3> SUFFICES ASSUME NEW r \in Scopes, CheckOf(r) \in todo' \/ r \in DOMAIN captures'
                 PROVE  baseline'[r] = before'[r]
      OBVIOUS
    <3>1. r # s
      BY <1>1, <1>2 DEF SightInv, StoredOnce
    <3>2. baseline[r] = before[r]
      BY <1>1, <1>2 DEF SightInv, StoredOnce
    <3> QED
      BY <1>1, <1>4, <3>1, <3>2
  <2>2. \A r \in DOMAIN captures' : CheckOf(r) \notin todo'
    BY <1>1, <1>2 DEF SightInv, StoredOnce
  <2> QED
    BY <1>5, <2>1, <2>2 DEF StoredOnce
<1>7. Reported'
  <2>1. raised' = raised /\ lost' = lost /\ trail' = trail /\ changes' = changes /\ alerts' = alerts
    BY <1>1 DEF run, disks
  <2>2. changes' = Moved' \ diffs'
    BY <1>1, <1>3, <1>4, <1>5, <2>1 DEF SightInv, Reported
  <2>3. ~lost => \A r \in Scopes : baseline'[r] # before'[r] => r \in trail' \cup firsts' \cup diffs'
    BY <1>1, <1>3, <1>4, <1>5, <2>1 DEF SightInv, Reported
  <2>4. ~lost => Moved \subseteq trail /\ alerts \subseteq trail
    BY <1>1, <1>3 DEF SightInv, Reported
  <2>5. ~lost => Moved' \ trail' \subseteq diffs'
    BY <1>4, <1>5, <2>1, <2>4
  <2> QED
    BY <1>5, <2>1, <2>2, <2>3, <2>4, <2>5 DEF Reported
<1>8. SightCourse'
  BY <1>1, <1>3 DEF run, SightInv, SightCourse
<1> QED
  BY <1>1, <1>6, <1>7, <1>8 DEF SightInv, RunIdle, SightIdle, run

\* A database error may have stored one scope, and no more is unreported.
LEMMA StoreFailureReported ==
  ASSUME SightTypeOK, SightInv, StoreFails
  PROVE  SightInv'
<1>1. /\ kind = "observe" /\ node = "drift_baseline" /\ firsts \cup diffs = {}
      /\ UNCHANGED <<before, trail, lost>>
      /\ Aborts
  BY DEF StoreFails, At
<1>2. PICK s \in DOMAIN captures : Save(s) \/ UNCHANGED baseline
  BY DEF StoreFails
<1>3. ~dry /\ ~raised
  <2>1. captures # NoCaptures
    BY <1>2 DEF NoCaptures
  <2> QED
    BY <1>1, <2>1 DEF SightInv, SightCourse
<1>4. Moved' \subseteq Moved \cup {s}
  <2>1. CASE Save(s)
    BY <1>1, <2>1, SaveMoves DEF SightInv
  <2>2. CASE UNCHANGED baseline
    BY <1>1, <2>2 DEF Moved
  <2> QED
    BY <1>2, <2>1, <2>2
<1>5. ~lost => Moved \subseteq trail
  BY <1>1, <1>3 DEF SightInv, Reported
<1> QED
  BY <1>1, <1>3, <1>4, <1>5, AbortsReported

\* With its event written or given up, a change is in the report.
LEMMA DriftReported ==
  ASSUME SightTypeOK, SightInv, ReportDrift
  PROVE  SightInv'
<1>1. /\ kind = "observe" /\ node = "drift_baseline" /\ UNCHANGED <<baseline, before>>
      /\ firsts \cup diffs # {}
  BY DEF ReportDrift, At
<1>2. ~dry /\ ~raised
  BY <1>1 DEF SightInv, SightCourse
<1>3. CASE LogRaises(firsts \cup diffs)
  BY <1>1, <1>3, AbortsQuietly DEF LogRaises
<1>4. CASE /\ Logs(firsts \cup diffs)
           /\ changes' = changes \cup diffs
           /\ firsts' = {}
           /\ diffs' = {}
           /\ UNCHANGED <<run, todo, captures, alerts, summary>>
  <2>1. StoredOnce' /\ Moved' = Moved
    BY <1>1, <1>4, StoredStays DEF SightInv
  <2>2. changes' = Moved'
    BY <1>2, <1>4, <2>1 DEF SightInv, Reported, StoredOnce
  <2>3. ~lost' => ~lost /\ trail' = trail \cup firsts \cup diffs
    BY <1>4 DEF Logs, SightTypeOK
  <2>4. ~lost' =>
          /\ \A s \in Scopes : baseline'[s] # before'[s] => s \in trail'
          /\ Moved' \subseteq trail'
          /\ alerts' \subseteq trail'
    BY <1>1, <1>2, <1>4, <2>1, <2>3 DEF SightInv, Reported
  <2>5. Reported'
    BY <1>4, <2>2, <2>4 DEF Reported
  <2>6. SightCourse'
    BY <1>1, <1>2, <1>4 DEF run, SightInv, SightCourse
  <2> QED
    BY <1>1, <1>4, <2>1, <2>5, <2>6 DEF SightInv, RunIdle, SightIdle, run
<1> QED
  BY <1>3, <1>4 DEF ReportDrift

\* The other steps disturb nothing the invariant is about.
LEMMA QuietSight ==
  ASSUME SightTypeOK, SightInv, EndDrift \/ FailedLogins \/ SomeoneReconfigures
  PROVE  SightInv'
<1>1. CASE Aborts /\ FailedLogins
  <2>1. kind = "observe" /\ UNCHANGED <<baseline, before, lost>> /\ trail \subseteq trail'
    BY <1>1 DEF FailedLogins, At, LogRaises, Logs, Goes, Aborts, Raises
  <2> QED
    BY <1>1, <2>1, AbortsQuietly
<1>2. CASE EndDrift
  <2>1. /\ kind = "observe" /\ node = "drift_baseline" /\ kind' = kind /\ node' = "failed_logins"
        /\ UNCHANGED <<dry, raised, baseline, before, todo, captures, firsts, diffs, changes, alerts, trail, lost>>
        /\ firsts \cup diffs = {}
    BY <1>2 DEF EndDrift, BetweenCaptures, At, Goes, sight, drift, locals, disks
  <2>2. StoredOnce' /\ Moved' = Moved
    BY <2>1, StoredStays DEF SightInv
  <2>3. Reported'
    BY <2>1, <2>2 DEF SightInv, Reported
  <2>4. SightCourse'
    BY <2>1 DEF SightInv, SightCourse
  <2> QED
    BY <2>1, <2>2, <2>3, <2>4 DEF SightInv, RunIdle, SightIdle
<1>3. CASE FailedLogins /\ Goes("end", status) /\ UNCHANGED <<locals, changes, alerts>>
  <2>1. /\ kind = "observe" /\ node = "failed_logins" /\ kind' = kind /\ node' = "end"
        /\ UNCHANGED <<dry, raised, baseline, before, todo, captures, firsts, diffs, changes, alerts>>
    BY <1>3 DEF FailedLogins, At, Goes, locals
  <2>2. firsts \cup diffs = {}
    BY <2>1 DEF SightInv, SightCourse
  <2>3. StoredOnce' /\ Moved' = Moved
    BY <2>1, StoredStays DEF SightInv
  <2>4. trail \subseteq trail' /\ (~lost' => ~lost)
    <3>1. CASE UNCHANGED <<trail, lost>>
      BY <3>1
    <3>2. CASE Logs({"failed_logins"})
      BY <3>2 DEF Logs
    <3>3. CASE LogRaises({"failed_logins"})
      BY <3>3 DEF LogRaises
    <3> QED
      BY <1>3, <3>1, <3>2, <3>3 DEF FailedLogins
  <2>5. Reported'
    BY <2>1, <2>3, <2>4 DEF SightInv, Reported
  <2>6. SightCourse'
    BY <2>1, <2>2 DEF SightInv, SightCourse
  <2> QED
    BY <2>1, <2>3, <2>5, <2>6 DEF SightInv, RunIdle, SightIdle
<1>4. CASE SomeoneReconfigures
  <2>1. UNCHANGED <<kind, node, dry, raised, status, touched, baseline, before, todo, captures, firsts, diffs,
                    changes, alerts, trail, lost>>
    BY <1>4 DEF SomeoneReconfigures, Drifts, disks
  <2>2. StoredOnce' /\ Moved' = Moved
    BY <2>1, StoredStays DEF SightInv
  <2>3. Reported'
    BY <2>1, <2>2 DEF SightInv, Reported
  <2>4. SightCourse' /\ RunIdle' /\ SightIdle'
    BY <2>1 DEF SightInv, SightCourse, RunIdle, SightIdle
  <2> QED
    BY <2>2, <2>3, <2>4 DEF SightInv
<1> QED
  BY <1>1, <1>2, <1>3, <1>4 DEF FailedLogins, LogRaises

\* Observation preserves its invariant.
LEMMA SightHolds ==
  ASSUME SightTypeOK, SightInv, ObservationMoves
  PROVE  SightInv'
<1>1. CASE CaptureSudoers \/ CaptureAuthorizedKeys \/ CaptureListeningPorts \/ CaptureScheduledJobs
  <2>1. \E k \in Checks : \E shown \in SUBSET Scopes : (\A s \in shown : CheckOf(s) = k) /\ Capture(k, shown)
    <3>1. CASE CaptureAuthorizedKeys
      <4> DEFINE there == {u \in Users : content[u] # "absent"}
      <4>1. /\ there \in SUBSET Scopes
            /\ \A s \in there : CheckOf(s) = "authorized_keys"
            /\ "authorized_keys" \in Checks
        BY ScopesOfChecks DEF Checks
      <4>2. Capture("authorized_keys", there)
        BY <3>1 DEF CaptureAuthorizedKeys
      <4> HIDE DEF there
      <4> QED
        BY <4>1, <4>2
    <3>2. CASE CaptureSudoers \/ CaptureListeningPorts \/ CaptureScheduledJobs
      <4>1. PICK k \in Checks \ {"authorized_keys"} : Capture(k, {k})
        BY <3>2 DEF CaptureSudoers, CaptureListeningPorts, CaptureScheduledJobs, Checks
      <4>2. {k} \in SUBSET Scopes /\ \A s \in {k} : CheckOf(s) = k
        BY ScopesOfChecks
      <4> QED
        BY <4>1, <4>2
    <3> QED
      BY <1>1, <3>1, <3>2
  <2> QED
    BY <2>1, CaptureReported
<1> QED
  BY <1>1, ObservationBegins, DisksReported, CompareReported, StoreFailureReported, DriftReported, QuietSight
     DEF ObservationMoves, ObservationStep, DriftBaseline

\* Other runs leave it alone.
LEMMA SightRests ==
  ASSUME SightInv, kind' \notin {"none", "observe"}, kind # "observe", UNCHANGED sight
  PROVE  SightInv'
<1>1. Moved = {} /\ Moved' = Moved
  BY DEF SightInv, SightIdle, Moved, sight, drift
<1> QED
  BY <1>1 DEF SightInv, RunIdle, SightIdle, SightCourse, StoredOnce, Reported, sight, drift, locals, disks

----------------------------------------------------------------------------
\* The inductive invariant and the theorems.

IInv == TypeOK /\ PatchInv /\ DockerInv /\ OutcomeInv /\ HouseInv /\ SightInv

\* It holds before a run begins.
LEMMA InvInit ==
  Init => IInv
<1> SUFFICES ASSUME Init PROVE IInv
  OBVIOUS
<1> USE DEF Init
<1>1. RunTypeOK /\ RunIdle /\ kind = "none"
  <2>1. 0 \in 0..MaxDrift
    BY SubGraphAssumption
  <2>2. kind = "none" /\ node = "end" /\ status = "unset" /\ drifts = 0
    BY DEF RunInit
  <2>3. dry \in BOOLEAN /\ raised \in BOOLEAN /\ touched \in BOOLEAN /\ ~touched /\ ~raised
    BY DEF RunInit
  <2>4. node \in Nodes /\ status \in Statuses
    BY <2>2 DEF Nodes, Statuses
  <2> QED
    BY <2>1, <2>2, <2>3, <2>4 DEF RunTypeOK, RunIdle
<1>2. PatchTypeOK
  <2>1. installed \in [Packages -> Versions]
    BY DEF PatchInit, Versions
  <2>2. serviceUp \in BOOLEAN /\ wasUp \in BOOLEAN /\ regression \in BOOLEAN /\ rebootFlag \in BOOLEAN
        /\ stale \in BOOLEAN /\ unread \in BOOLEAN
    BY DEF PatchInit
  <2>3. DOMAIN snapshot = {}
    BY DEF PatchInit, Nothing
  <2> QED
    BY <2>1, <2>2, <2>3 DEF PatchInit, PatchTypeOK
<1>3. DockerTypeOK
  BY DEF DockerInit, StoreInit, NoRow, NoAssessment, NoResults, DockerTypeOK, IsAssessment, IsResult,
     RowStatuses, Conditions
<1>4. HouseTypeOK
  BY DEF HouseInit, HouseTypeOK
<1>5. PatchInv
  BY <1>1 DEF PatchInv, PatchCourse, PatchingTellsTheTruth, Ended, At
<1>6. DockerInv
  <2>1. DockerIdle
    BY DEF DockerInit, StoreInit, DockerIdle
  <2>2. RowKept
    BY DEF DockerInit, StoreInit, NoRow, RowKept
  <2>3. ApprovalHeld
    BY DEF DockerInit, ApprovalHeld, AtWork, RunInit
  <2>4. GateTwoPassed
    BY ConditionsOfTypes DEF DockerInit, GateTwoPassed
  <2> QED
    BY <1>1, <2>1, <2>2, <2>3, <2>4 DEF DockerInv
<1>7. OutcomeInv
  BY <1>1, NoLines DEF DockerInit, OutcomeInv, SaidTrue, Outcome
<1>8. HouseInv
  BY <1>1 DEF RunInit, HouseInit, HouseInv, HouseCourse, CleanupCourse, LogCourse, HousekeepingHoldsBack, Chores,
     Mutating
<1>9. SightTypeOK
  <2>1. <<>> \in Seq(Usages)
    OBVIOUS
  <2>2. window \in [Mounts -> Seq(Usages)]
    BY <2>1 DEF SightInit
  <2> QED
    BY <2>2 DEF SightInit, SightTypeOK, NoCaptures, Contents
<1>10. SightInv
  <2>1. SightIdle
    BY DEF SightInit, SightIdle
  <2>2. Moved = {}
    BY DEF SightInit, Moved
  <2>3. StoredOnce /\ Reported
    BY <2>2 DEF SightInit, StoredOnce, Reported, NoCaptures
  <2>4. SightCourse
    BY <1>1 DEF SightCourse
  <2> QED
    BY <1>1, <2>1, <2>3, <2>4 DEF SightInv
<1> QED
  BY <1>1, <1>2, <1>3, <1>4, <1>5, <1>6, <1>7, <1>8, <1>9, <1>10 DEF TypeOK, IInv

\* Every step preserves it.
LEMMA InvNext ==
  IInv /\ [Next]_vars => IInv'
<1> SUFFICES ASSUME IInv, [Next]_vars PROVE IInv'
  OBVIOUS
<1>0. /\ RunTypeOK /\ PatchTypeOK /\ DockerTypeOK /\ HouseTypeOK /\ SightTypeOK
      /\ PatchInv /\ DockerInv /\ OutcomeInv /\ HouseInv /\ SightInv
      /\ RowKept /\ DockerIdle
  BY DEF IInv, TypeOK, DockerInv
<1>1. CASE PatchingMoves
  <2>1. kind' = "patching" /\ kind \in {"none", "patching"} /\ UNCHANGED <<docker, house, sight>>
    BY <1>1, PatchingFrame DEF PatchingMoves
  <2>2. RunTypeOK' /\ PatchTypeOK'
    BY <1>0, <1>1, PatchingTypes
  <2>3. DockerTypeOK' /\ HouseTypeOK' /\ SightTypeOK'
    BY <1>0, <2>1, KeptTypes
  <2>4. PatchInv'
    BY <1>0, <1>1, PatchingHolds
  <2>5. DockerInv' /\ OutcomeInv'
    BY <1>0, <2>1, DockerRests, OutcomeRests
  <2>6. HouseInv'
    BY <1>0, <2>1, HousekeepingRests DEF Chores
  <2>7. SightInv'
    BY <1>0, <2>1, SightRests
  <2> QED
    BY <2>2, <2>3, <2>4, <2>5, <2>6, <2>7 DEF IInv, TypeOK
<1>2. CASE DockerMoves
  <2>1. kind' = "docker_hygiene" /\ kind \in {"none", "docker_hygiene"} /\ UNCHANGED <<packages, house, sight>>
    BY <1>0, <1>2, DockerFrame DEF DockerMoves
  <2>2. RunTypeOK' /\ DockerTypeOK'
    BY <1>0, <1>2, DockerTypes
  <2>3. PatchTypeOK' /\ HouseTypeOK' /\ SightTypeOK'
    BY <1>0, <2>1, KeptTypes
  <2>4. PatchInv'
    BY <1>0, <2>1, PatchingRests
  <2>5. DockerInv' /\ OutcomeInv'
    BY <1>0, <1>2, DockerHolds, OutcomeHolds
  <2>6. HouseInv'
    BY <1>0, <2>1, HousekeepingRests DEF Chores
  <2>7. SightInv'
    BY <1>0, <2>1, SightRests
  <2> QED
    BY <2>2, <2>3, <2>4, <2>5, <2>6, <2>7 DEF IInv, TypeOK
<1>3. CASE HousekeepingMoves
  <2>1. kind' \in Chores /\ (kind = "none" \/ kind' = kind) /\ UNCHANGED <<packages, docker, sight>>
    BY <1>3, HousekeepingFrame DEF HousekeepingMoves
  <2>2. RunTypeOK' /\ HouseTypeOK'
    BY <1>0, <1>3, HousekeepingTypes
  <2>3. PatchTypeOK' /\ DockerTypeOK' /\ SightTypeOK'
    BY <1>0, <2>1, KeptTypes
  <2>4. PatchInv'
    BY <1>0, <2>1, PatchingRests DEF Chores
  <2>5. DockerInv' /\ OutcomeInv'
    BY <1>0, <2>1, DockerRests, OutcomeRests DEF Chores
  <2>6. HouseInv'
    BY <1>0, <1>3, HousekeepingHolds
  <2>7. SightInv'
    BY <1>0, <2>1, SightRests DEF Chores
  <2> QED
    BY <2>2, <2>3, <2>4, <2>5, <2>6, <2>7 DEF IInv, TypeOK
<1>4. CASE ObservationMoves
  <2>1. kind' = "observe" /\ kind \in {"none", "observe"} /\ UNCHANGED <<packages, docker, house>>
    BY <1>4, ObservationFrame
  <2>2. RunTypeOK' /\ SightTypeOK'
    BY <1>0, <1>4, ObservationRunTypes, SightTypes
  <2>3. PatchTypeOK' /\ DockerTypeOK' /\ HouseTypeOK'
    BY <1>0, <2>1, KeptTypes
  <2>4. PatchInv'
    BY <1>0, <2>1, PatchingRests
  <2>5. DockerInv' /\ OutcomeInv'
    BY <1>0, <2>1, DockerRests, OutcomeRests
  <2>6. HouseInv'
    BY <1>0, <2>1, HousekeepingRests DEF Chores
  <2>7. SightInv'
    BY <1>0, <1>4, SightHolds
  <2> QED
    BY <2>2, <2>3, <2>4, <2>5, <2>6, <2>7 DEF IInv, TypeOK
<1>5. CASE UNCHANGED vars
  <2>1. UNCHANGED run /\ UNCHANGED packages /\ UNCHANGED docker /\ UNCHANGED house /\ UNCHANGED sight
    BY <1>5 DEF vars
  <2>2. RunTypeOK' /\ PatchTypeOK' /\ DockerTypeOK' /\ HouseTypeOK' /\ SightTypeOK'
    BY <1>0, <2>1, KeptTypes DEF run, RunTypeOK
  <2>3. PatchInv'
    BY <1>0, <2>1 DEF run, packages, approvedList, services, PatchInv, RunIdle, PatchCourse, PatchingTellsTheTruth,
       Ended, At, Matched, AtTarget, Restored
  <2>4. DockerInv'
    BY <1>0, <2>1 DEF run, docker, gates, past, DockerInv, RunIdle, DockerIdle, RowKept, Executable,
       ApprovalHeld, AtWork, GateTwoPassed
  <2>5. OutcomeInv'
    BY <1>0, <2>1 DEF run, docker, gates, past, OutcomeInv, SaidTrue, Outcome, AtWork
  <2>6. HouseInv'
    BY <1>0, <2>1 DEF run, house, cleanup, logs, health, HouseInv, RunIdle, HouseCourse, CleanupCourse,
       LogCourse, HousekeepingHoldsBack, Mutating
  <2>7. SightInv'
    <3>1. Moved' = Moved
      BY <2>1 DEF sight, drift, Moved
    <3> QED
      BY <1>0, <2>1, <3>1 DEF run, sight, drift, locals, disks, SightInv, RunIdle, SightIdle, SightCourse,
         StoredOnce, Reported
  <2> QED
    BY <2>2, <2>3, <2>4, <2>5, <2>6, <2>7 DEF IInv, TypeOK
<1> QED
  BY <1>1, <1>2, <1>3, <1>4, <1>5 DEF Next, Rest

\* Of every behaviour, therefore.
LEMMA InvAlways ==
  Spec => []IInv
BY InvInit, InvNext, PTL DEF Spec

\* Every variable of the six sub-graphs and the observation nodes keeps its type
\* (agent/subgraphs/, vm_graph.py).
THEOREM ActionRunsTypeCorrect == Spec => []TypeOK
<1>1. IInv => TypeOK
  BY DEF IInv
<1> QED
  BY <1>1, InvAlways, PTL

\* For any number of packages and of changes by others: a patching run that
\* reports SUCCESS found every approved package at its approved version, one that
\* reports ROLLED_BACK found the captured versions back or could not read them,
\* and one that reports nothing of the kind changed nothing or says that it failed
\* (the verify and rollback nodes of patching.py).
THEOREM PatchingIsTruthful == Spec => []PatchingTellsTheTruth
<1>1. IInv => PatchingTellsTheTruth
  BY DEF IInv, PatchInv
<1> QED
  BY <1>1, InvAlways, PTL

\* For any number of Docker objects and of changes by others, the wrapper removes
\* only what the standing decision ticked and both gates let through.
THEOREM RemovalsAreApproved == Spec => []OnlyApprovedAreRemoved
<1>1. ASSUME IInv
      PROVE  OnlyApprovedAreRemoved
  <2> SUFFICES ASSUME NEW o \in removed
               PROVE  /\ row.status = "approved"
                      /\ o \in row.items
                      /\ assessment = row.shows
                      /\ admitted[o] # "gone"
                      /\ ClassOf[o] # "image_unused" => admitted[o] # "busy"
                      /\ row.shows[o] = "cleanup_candidate" => admitted[o] # "dirty"
    BY DEF OnlyApprovedAreRemoved
  <2>1. ApprovalHeld /\ GateTwoPassed
    BY <1>1 DEF IInv, DockerInv
  <2>2. o \in approval /\ AtWork # {}
    BY <2>1 DEF ApprovalHeld, AtWork
  <2>3. row.status = "approved" /\ approval = row.items /\ assessment = row.shows
    BY <2>1, <2>2 DEF ApprovalHeld
  <2> QED
    BY <2>1, <2>2, <2>3 DEF GateTwoPassed
<1> QED
  BY <1>1, InvAlways, PTL

\* And the run's outcome accounts for them: no removal is kept quiet except by a
\* run that reports FAILED.
THEOREM RemovalsAccounted == Spec => []RemovalsAreAccounted
<1>1. ASSUME IInv
      PROVE  RemovalsAreAccounted
  <2> SUFFICES ASSUME Ended("docker_hygiene")
               PROVE  /\ results # NoResults => DOMAIN results = approval
                      /\ \A o \in DOMAIN results : results[o] = "removed" => o \in removed
                      /\ \A o \in removed \cap DOMAIN results : results[o] \in {"removed", "failed"}
                      /\ ~(removed \subseteq DOMAIN results) => status = "failed"
                      /\ status = "success" => removed # {} /\ \A o \in DOMAIN results : results[o] # "failed"
                      /\ touched => ~dry /\ status \in {"success", "failed", "skipped"}
    BY DEF RemovalsAreAccounted
  <2>1. kind = "docker_hygiene" /\ node = "end"
    BY DEF Ended, At
  <2>2. Outcome
    BY <1>1 DEF IInv, OutcomeInv
  <2>3. removed \subseteq approval
    BY <1>1 DEF IInv, DockerInv, ApprovalHeld, AtWork
  <2>4. removed # {} => touched
    BY <1>1 DEF IInv, DockerInv, ApprovalHeld, AtWork
  <2>5. ~(removed \subseteq DOMAIN results) => status = "failed"
    BY <2>1, <2>2, <2>3, <2>4 DEF Outcome
  <2> QED
    BY <2>1, <2>2, <2>5 DEF Outcome
<1> QED
  BY <1>1, InvAlways, PTL

\* A cleanup removes only what was shown unless the VM changed behind the gate, a
\* rotation loses no line it was given, and no dry run, unvalidated run or backup
\* check changes anything (disk_cleanup.py, log_rotation.py, backup_verify.py,
\* service_restart.py).
THEOREM HousekeepingRestrained == Spec => []HousekeepingHoldsBack
<1>1. IInv => HousekeepingHoldsBack
  BY DEF IInv, HouseInv
<1> QED
  BY <1>1, InvAlways, PTL

\* For any users, mount points, contents and number of checks: of the baselines a
\* run has replaced, all but one at most are in the audit trail wherever it stops;
\* a run that returns reports exactly those, and has a row for each of its events
\* unless the store was let lose one; a dry run replaces none (drift_baseline_node
\* with baselines.py, and log_event).
THEOREM ObservationReported == Spec => []ObservationsAreReported
<1>1. ASSUME IInv
      PROVE  ObservationsAreReported
  <2>1. StoredOnce /\ Reported /\ SightCourse /\ SightIdle
    BY <1>1 DEF IInv, SightInv
  <2> QED
    BY <2>1 DEF ObservationsAreReported, StoredOnce, Reported, SightCourse, SightIdle, Ended, At
<1> QED
  BY <1>1, InvAlways, PTL
=============================================================================
