----------------------------- MODULE Housekeeping -----------------------------
(***************************************************************************)
(* The four smaller sub-graphs: disk_cleanup.py, log_rotation.py,          *)
(* backup_verify.py and service_restart.py, with their runners in          *)
(* agent/vm_graph.py.  Disk cleanup is modelled down to the packages       *)
(* autoremove takes, log rotation down to the lines of one log file, the   *)
(* other two down to what they look at.                                    *)
(***************************************************************************)
EXTENDS SubGraph

CONSTANT Orphans  \* packages autoremove may take

\* Lines of the log: rotated away earlier, in the file when the run begins, written since.
Lines == {"archived", "present", "new"}

VARIABLES good,      \* the inputs pass validate: paths on the whitelist, unit on the list
          optIn,     \* orphaned-deps is among the cleanup paths
          orphans,   \* the VM: packages autoremove would take now
          candidates,\* orphaned_candidates: what the assessment saw
          told,      \* history: every simulation so far has answered
          matched,   \* the drift gate let autoremove through
          moved,     \* history: the orphans changed after the drift gate
          taken,     \* history: packages autoremove took
          compress,  \* the key "compress" of log rotation
          file,      \* the VM: lines of the log file
          begun,     \* history: lines of the log file when the run began
          copy,      \* the VM: lines of file.1
          zip,       \* the VM: lines of file.1.gz
          oversized, \* large_files names the file
          healthy,   \* the VM: backups fresh, service active
          observed   \* what the run saw of healthy last

cleanup == <<optIn, orphans, candidates, told, matched, moved, taken>>
logs == <<compress, file, begun, copy, zip, oversized>>
health == <<healthy, observed>>
house == <<good, cleanup, logs, health>>

Chores == {"disk_cleanup", "log_rotation", "backup_verify", "service_restart"}

HouseTypeOK == /\ good \in BOOLEAN
               /\ optIn \in BOOLEAN
               /\ orphans \in SUBSET Orphans
               /\ candidates \in SUBSET Orphans
               /\ told \in BOOLEAN
               /\ matched \in BOOLEAN
               /\ moved \in BOOLEAN
               /\ taken \in SUBSET Orphans
               /\ compress \in BOOLEAN
               /\ file \in SUBSET Lines
               /\ begun \in SUBSET Lines
               /\ copy \in SUBSET Lines
               /\ zip \in SUBSET Lines
               /\ oversized \in BOOLEAN
               /\ healthy \in BOOLEAN
               /\ observed \in BOOLEAN

HouseInit == /\ good = FALSE
             /\ optIn = FALSE
             /\ orphans = {}
             /\ candidates = {}
             /\ told = TRUE
             /\ matched = FALSE
             /\ moved = FALSE
             /\ taken = {}
             /\ compress = FALSE
             /\ file = {}
             /\ begun = {}
             /\ copy = {}
             /\ zip = {}
             /\ oversized = FALSE
             /\ healthy = FALSE
             /\ observed = FALSE

\* The plan's parameters and the VM as the run finds it.
BeginDiskCleanup == /\ Enter("disk_cleanup", "validate")
                    /\ good' \in BOOLEAN
                    /\ optIn' \in BOOLEAN
                    /\ orphans' \in SUBSET Orphans
                    /\ UNCHANGED <<candidates, told, matched, moved, taken, logs, health>>

BeginLogRotation == /\ Enter("log_rotation", "validate")
                    /\ good' \in BOOLEAN
                    /\ compress' \in BOOLEAN
                    /\ file' \in {{}, {"present"}}
                    /\ begun' = file'
                    /\ copy' \in {{}, {"archived"}}
                    /\ zip' \in {{}, {"archived"}}
                    /\ UNCHANGED <<cleanup, oversized, health>>

BeginCheck == /\ \/ Enter("backup_verify", "validate")
                 \/ Enter("service_restart", "validate")
              /\ good' \in BOOLEAN
              /\ healthy' \in BOOLEAN
              /\ UNCHANGED <<cleanup, logs, observed>>

BeginHousekeeping == BeginDiskCleanup \/ BeginLogRotation \/ BeginCheck

----------------------------------------------------------------------------
\* Disk cleanup.

\* Paths outside the whitelist end the run.
ValidateCleanup == /\ At("disk_cleanup", "validate")
                   /\ IF good THEN Goes("assess", "pending") ELSE Goes("end", "failed")
                   /\ UNCHANGED house

\* What a simulation shows; without an answer the list is taken to be empty.
Shown(answered) == IF answered THEN orphans ELSE {}

\* An empty df is a FAILED that the edge to execute ignores.
AssessCleanup ==
  /\ At("disk_cleanup", "assess")
  /\ \/ \E answered \in BOOLEAN :
          /\ candidates' = IF optIn THEN Shown(answered) ELSE {}
          /\ told' = (told /\ answered)
          /\ Goes("execute", status)
     \/ Goes("execute", "failed") /\ UNCHANGED candidates /\ told' = FALSE
     \/ Raises(FALSE) /\ UNCHANGED <<candidates, told>>
  /\ UNCHANGED <<good, optIn, orphans, matched, moved, taken, logs, health>>

SimulateCleanup == /\ dry
                   /\ Goes("end", "dry_run_ok") \/ Raises(FALSE)
                   /\ UNCHANGED house

\* /tmp, the package cache and the journal are cleaned; each may fail by itself.
CleanPaths == /\ ~dry
              /\ ~optIn
              /\ \/ \E s \in {"success", "failed"} : Acts("verify", s)
                 \/ Raises(TRUE)
              /\ UNCHANGED house

\* A plausible mistake: the gate asks for overlap instead of equality.
FaultyDriftGate(shown) == shown = {} \/ shown \cap candidates # {}
DriftGate(shown) == shown = candidates

\* With orphaned-deps, its list is simulated again first; a list that drifted is
\* left alone and is no failure.
GateOrphans ==
  /\ ~dry
  /\ optIn
  /\ ~matched
  /\ \/ \E answered \in BOOLEAN :
          /\ told' = (told /\ answered)
          /\ IF DriftGate(Shown(answered))
             THEN matched' = TRUE /\ Acts("execute", status)
             ELSE matched' = matched /\ \E s \in {"success", "failed"} : Acts("verify", s)
     \/ Raises(TRUE) /\ UNCHANGED <<told, matched>>
  /\ UNCHANGED <<good, optIn, orphans, candidates, moved, taken, logs, health>>

\* autoremove takes whatever is orphaned when it runs, or a part of it.
Autoremove == /\ matched
              /\ \/ \E s \in {"success", "failed"} : Acts("verify", s)
                 \/ Raises(TRUE)
              /\ taken' \in SUBSET orphans
              /\ orphans' = orphans \ taken'
              /\ UNCHANGED <<good, optIn, candidates, told, matched, moved, logs, health>>

ExecuteCleanup == /\ At("disk_cleanup", "execute")
                  /\ SimulateCleanup \/ CleanPaths \/ GateOrphans \/ Autoremove

\* A failed df sets the error and leaves the status.
VerifyCleanup == /\ At("disk_cleanup", "verify")
                 /\ Goes("end", status) \/ Raises(FALSE)
                 /\ UNCHANGED house

SomeoneOrphans == /\ Drifts("disk_cleanup")
                  /\ orphans' \in (SUBSET Orphans) \ {orphans}
                  /\ moved' = (moved \/ matched)
                  /\ UNCHANGED <<good, optIn, candidates, told, matched, taken, logs, health>>

----------------------------------------------------------------------------
\* Log rotation.

ValidateLogs == /\ At("log_rotation", "validate")
                /\ IF good THEN Goes("assess", "pending") ELSE Goes("end", "failed")
                /\ UNCHANGED house

\* No file over the threshold ends the run; a find that fails is a FAILED with
\* nothing_to_do unset, so the run goes on without files.
AssessLogs ==
  /\ At("log_rotation", "assess")
  /\ \/ /\ file # {}
        /\ oversized' = TRUE
        /\ Goes("execute", status)
     \/ file = {} /\ oversized' = FALSE /\ Goes("end", "skipped")
     \/ oversized' = FALSE /\ Goes("execute", "failed")
     \/ oversized' = FALSE /\ Raises(FALSE)
  /\ UNCHANGED <<good, cleanup, compress, file, begun, copy, zip, health>>

SimulateLogs == /\ dry
                /\ Goes("end", "dry_run_ok") \/ Raises(FALSE)
                /\ UNCHANGED house

NothingToRotate == /\ ~dry
                   /\ ~oversized
                   /\ Goes("verify", "success")
                   /\ UNCHANGED house

\* What cp, gzip and truncate, chained by &&, can leave behind: how far they came,
\* and whether a line was written between the copy and the truncation, which
\* then goes with the rest.  gzip refuses to overwrite file.1.gz.
CopyFails == UNCHANGED <<file, copy, zip>>

Copied == copy' = file /\ UNCHANGED <<file, zip>>

\* A plausible mistake: the file is truncated before it is copied.
FaultyRotated == /\ compress => zip = {}
                 /\ file' = {}
                 /\ copy' = {}
                 /\ zip' = zip
Rotated == /\ compress => zip = {}
           /\ file' = {}
           /\ copy' = IF compress THEN {} ELSE file
           /\ zip' = IF compress THEN file ELSE zip

Zipped == /\ compress
          /\ zip = {}
          /\ zip' = file
          /\ copy' = {}
          /\ file' = file

Rotate == /\ ~dry
          /\ oversized
          /\ \/ Rotated /\ (Acts("verify", "success") \/ Raises(TRUE))
             \/ (CopyFails \/ Copied \/ Zipped) /\ (Acts("verify", "failed") \/ Raises(TRUE))
          /\ UNCHANGED <<good, cleanup, compress, begun, oversized, health>>

ExecuteLogs == /\ At("log_rotation", "execute")
               /\ SimulateLogs \/ NothingToRotate \/ Rotate

\* Files that are still large set the error and leave the status.
VerifyLogs == /\ At("log_rotation", "verify")
              /\ Goes("end", status) \/ Raises(FALSE)
              /\ UNCHANGED house

SomeoneLogs == /\ Drifts("log_rotation")
               /\ file' = file \cup {"new"}
               /\ UNCHANGED <<good, cleanup, compress, begun, copy, zip, oversized, health>>

----------------------------------------------------------------------------
\* Backup verification and service restart.

\* No backup paths end the run; they are the plan's.
ValidateBackup == /\ At("backup_verify", "validate")
                  /\ IF good THEN Goes("assess", "pending") ELSE Goes("end", "skipped")
                  /\ UNCHANGED house

\* stat on every path; no answer reads as missing.  Dry runs do the same.
AssessBackup == /\ At("backup_verify", "assess")
                /\ \/ \E answered \in BOOLEAN : observed' = (answered /\ healthy) /\ Goes("verify", status)
                   \/ observed' = observed /\ Raises(FALSE)
                /\ UNCHANGED <<good, cleanup, logs, healthy>>

VerifyBackup == /\ At("backup_verify", "verify")
                /\ Goes("end", IF observed THEN "success" ELSE "needs_manual")
                /\ UNCHANGED house

\* The unit is on the inventory's list and the wrapper answers.
ValidateRestart == /\ At("service_restart", "validate")
                   /\ \/ good /\ Goes("snapshot", "pending")
                      \/ Goes("end", "failed")
                      \/ Raises(FALSE)
                   /\ UNCHANGED house

SnapshotRestart == /\ At("service_restart", "snapshot")
                   /\ Goes("execute", status) \/ Raises(FALSE)
                   /\ UNCHANGED house

\* The wrapper restarts the unit and prints is-active afterwards.
ExecuteRestart ==
  /\ At("service_restart", "execute")
  /\ \/ dry /\ Goes("end", "dry_run_ok") /\ UNCHANGED <<healthy, observed>>
     \/ /\ ~dry
        /\ healthy' \in BOOLEAN
        /\ \/ Acts("verify", "success") /\ observed' = healthy'
           \/ (Acts("end", "failed") \/ Raises(TRUE)) /\ UNCHANGED observed
  /\ UNCHANGED <<good, cleanup, logs>>

VerifyRestart == /\ At("service_restart", "verify")
                 /\ \/ observed /\ Goes("end", status)
                    \/ ~observed /\ Goes("end", "failed")
                    \/ Raises(FALSE)
                 /\ UNCHANGED house

SomeoneServes == /\ Drifts("backup_verify") \/ Drifts("service_restart")
                 /\ healthy' = ~healthy
                 /\ UNCHANGED <<good, cleanup, logs, observed>>

\* The nodes of the four graphs; where each hands over to is in the node.
CleanupStep == ValidateCleanup \/ AssessCleanup \/ ExecuteCleanup \/ VerifyCleanup

LogStep == ValidateLogs \/ AssessLogs \/ ExecuteLogs \/ VerifyLogs

BackupStep == ValidateBackup \/ AssessBackup \/ VerifyBackup

RestartStep == ValidateRestart \/ SnapshotRestart \/ ExecuteRestart \/ VerifyRestart

HousekeepingStep == CleanupStep \/ LogStep \/ BackupStep \/ RestartStep

HousekeepingOthers == SomeoneOrphans \/ SomeoneLogs \/ SomeoneServes

\* What the four sub-graphs may never do.  autoremove takes only packages the
\* assessment listed, as long as both simulations answered and nobody changed the
\* list after the gate (disk_cleanup.py:369); the lines a log held when the run
\* began survive a rotation, in the file or in a copy of it, however far the
\* commands came; a refused plan, a dry run and a backup check change nothing.
HousekeepingHoldsBack ==
  /\ told /\ ~moved => taken \subseteq candidates
  /\ begun \subseteq file \cup copy \cup zip
  /\ kind \in Chores /\ touched => good /\ ~dry /\ kind # "backup_verify"
=============================================================================
