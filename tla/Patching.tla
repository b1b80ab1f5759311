------------------------------ MODULE Patching ------------------------------
(***************************************************************************)
(* agent/subgraphs/patching.py, the rollback of safety/rollback.py and the *)
(* runner _run_patching of agent/vm_graph.py: an approved list of packages *)
(* with exact versions is installed, verified and, when either fails,      *)
(* rolled back to the versions captured before.  A package is at its old   *)
(* version, at the version the operator approved, or at any other one.     *)
(* Packages the kernel exclusion filters out are not in Packages.  A node  *)
(* returns status FAILED and a non-empty error together, so the error key  *)
(* route_after_verify also looks at is not a variable of its own.          *)
(***************************************************************************)
EXTENDS SubGraph

CONSTANT Packages  \* packages of the VM an update may concern

VARIABLES installed,   \* the VM: package -> installed version
          pinned,      \* approved packages that carry a target version
          bare,        \* approved packages whose preview had no target version
          pending,     \* pending_updates
          snapshot,    \* version_snapshot: package -> version before patching
          serviceUp,   \* the VM: the critical service is active
          wasUp,       \* service_pre_snapshot says active
          regression,  \* service_regressions is not empty
          rebootFlag,  \* vm_state.needs_reboot
          stale,       \* history: a foreign change since the versions were last checked
          unread       \* history: the rollback's own check did not get an answer

packages == <<installed, pinned, bare, pending, snapshot, serviceUp, wasUp, regression, rebootFlag,
              stale, unread>>
approvedList == <<pinned, bare>>
services == <<serviceUp, wasUp, regression, rebootFlag>>

Versions == {"old", "target", "other"}

Nothing == [p \in {} |-> "old"]

Approved == pinned \cup bare

AtTarget(p) == installed[p] = "target"

PatchTypeOK == /\ installed \in [Packages -> Versions]
               /\ pinned \in SUBSET Packages
               /\ bare \in SUBSET Packages
               /\ pending \in SUBSET Packages
               /\ DOMAIN snapshot \subseteq Packages
               /\ \A p \in DOMAIN snapshot : snapshot[p] \in Versions
               /\ serviceUp \in BOOLEAN
               /\ wasUp \in BOOLEAN
               /\ regression \in BOOLEAN
               /\ rebootFlag \in BOOLEAN
               /\ stale \in BOOLEAN
               /\ unread \in BOOLEAN

PatchInit == /\ installed = [p \in Packages |-> "old"]
             /\ pinned = {}
             /\ bare = {}
             /\ pending = {}
             /\ snapshot = Nothing
             /\ serviceUp = TRUE
             /\ wasUp = FALSE
             /\ regression = FALSE
             /\ rebootFlag = FALSE
             /\ stale = FALSE
             /\ unread = FALSE

\* The preview in the approved plan: names with the version to install, and names
\* whose line showed no version.
Preview(yes, no) == yes \cap no = {} /\ pinned' = yes /\ bare' = no

\* The VM as the run finds it, and the approved packages of the plan's preview.
BeginPatching == /\ Enter("patching", "preflight_lock")
                 /\ installed' \in [Packages -> Versions]
                 /\ serviceUp' \in BOOLEAN
                 /\ \E yes, no \in SUBSET Packages : Preview(yes, no)
                 /\ UNCHANGED <<pending, snapshot, wasUp, regression, rebootFlag, stale, unread>>

\* Clear, held, or not to be found out: the last counts as held in a live run only.
PreflightLock ==
  /\ At("patching", "preflight_lock")
  /\ \/ Goes("validate", status)
     \/ Goes("end", "blocked")
     \/ Raises(FALSE)
  /\ UNCHANGED packages

ValidatePatching == /\ At("patching", "validate")
                    /\ Goes("assess", "pending")
                    /\ UNCHANGED packages

RouteAfterAssess(work) == IF work = {} THEN "end" ELSE "snapshot"

\* What an answer of the version query says is not at its target; an output
\* with no name=version line in it says so of every package.
Outdated(parsed) == {p \in pinned : ~(parsed /\ AtTarget(p))}

AssessApproved ==
  /\ Approved # {}
  /\ \/ \E parsed \in BOOLEAN :
          LET work == Outdated(parsed) IN
          /\ pending' = work
          /\ Goes(RouteAfterAssess(work), IF work = {} THEN "skipped" ELSE status)
     \/ Goes("snapshot", "failed") /\ UNCHANGED pending
     \/ Raises(FALSE) /\ UNCHANGED pending
  /\ UNCHANGED <<installed, approvedList, snapshot, services, stale, unread>>

\* The names on the list of upgradable packages, which may be old.
Upgradable == SUBSET Packages

\* No approved list: the upgradable packages without the excluded ones.
AssessFresh ==
  /\ Approved = {}
  /\ \/ \E work \in Upgradable :
          /\ pending' = work
          /\ Goes(RouteAfterAssess(work), IF work = {} THEN "skipped" ELSE status)
     \/ Goes("snapshot", "failed") /\ UNCHANGED pending
     \/ Raises(FALSE) /\ UNCHANGED pending
  /\ UNCHANGED <<installed, approvedList, snapshot, services, stale, unread>>

AssessPatching == At("patching", "assess") /\ (AssessApproved \/ AssessFresh)

\* The versions of the pending packages, as they are when the query runs.
Captured == [p \in pending |-> installed[p]]

\* Nothing pending leaves the snapshot empty; so does a failed or empty query,
\* which also sets FAILED.  The edge to service_pre is unconditional.
Snapshot ==
  /\ At("patching", "snapshot")
  /\ \/ snapshot' = Captured /\ Goes("service_pre", status)
     \/ pending # {} /\ snapshot' = snapshot /\ Goes("service_pre", "failed")
     \/ pending # {} /\ snapshot' = snapshot /\ Raises(FALSE)
  /\ UNCHANGED <<installed, approvedList, pending, services, stale, unread>>

\* is-active of the service, read as not active where the probe has no answer.
CheckServices(heard) == heard /\ serviceUp

ServicePre == /\ At("patching", "service_pre")
              /\ \/ \E heard \in BOOLEAN : wasUp' = CheckServices(heard) /\ Goes("execute", status)
                 \/ wasUp' = wasUp /\ Raises(FALSE)
              /\ UNCHANGED <<installed, approvedList, pending, snapshot, serviceUp,
                             regression, rebootFlag, stale, unread>>

RouteAfterExecute(s) == CASE s = "dry_run_ok" -> "end"
                          [] s = "failed" -> "rollback"
                          [] OTHER -> "verify"

\* What a package manager asked for the versions `wanted` may leave behind: a
\* package it was asked for stays or moves there, any other may move with it.
\* The exit code is not trusted to say which.
AfterInstall(wanted) ==
  {now \in [Packages -> Versions] :
     \A p \in DOMAIN wanted : now[p] \in {installed[p], wanted[p]}}

\* Dry run: the simulation's answer does not matter.
ExecuteDry == /\ dry
              /\ \/ Goes(RouteAfterExecute("dry_run_ok"), "dry_run_ok")
                 \/ Raises(FALSE)
              /\ UNCHANGED packages

\* Live without an approved list, or with a version missing from it.
RefuseExecute == /\ ~dry
                 /\ pinned = {} \/ bare # {}
                 /\ Goes(RouteAfterExecute("failed"), "failed")
                 /\ UNCHANGED packages

\* install_pinned of all approved packages, whatever assess and snapshot returned.
\* An exception may come after the command has done its work.
Install == /\ ~dry
           /\ pinned # {}
           /\ bare = {}
           /\ installed' \in AfterInstall([p \in pinned |-> "target"])
           /\ serviceUp' \in {serviceUp, FALSE}
           /\ \/ Acts(RouteAfterExecute("success"), "success")
              \/ Acts(RouteAfterExecute("failed"), "failed")
              \/ Raises(TRUE)
           /\ UNCHANGED <<approvedList, pending, snapshot, wasUp, regression, rebootFlag,
                          stale, unread>>

ExecutePatching == At("patching", "execute") /\ (ExecuteDry \/ RefuseExecute \/ Install)

\* A plausible mistake: the route names a node the builder does not have.
FaultyRouteAfterVerify(s) == IF s = "failed" THEN "rollback" ELSE "reboot"
RouteAfterVerify(s) == IF s = "failed" THEN "rollback" ELSE "reboot_check"

\* A plausible mistake: ask only for the packages that were pending.
FaultyVersionsMatch == \A p \in pending : AtTarget(p)
\* Every approved package is queried, those already at their target too.
VersionsMatch == \A p \in pinned : AtTarget(p)

VerifyPatching ==
  /\ At("patching", "verify")
  /\ \/ /\ VersionsMatch
        /\ stale' = FALSE
        /\ Goes(RouteAfterVerify(status), status)
     \/ stale' = stale /\ Goes(RouteAfterVerify("failed"), "failed")
     \/ stale' = stale /\ Raises(FALSE)
  /\ UNCHANGED <<installed, approvedList, pending, snapshot, services, unread>>

\* A probe without an answer, or without the program that would know, counts as
\* no reboot required.
RebootRequired(due, heard) == heard /\ due

\* The flag is raised and never lowered: nothing calls clear_needs_reboot.
SetNeedsReboot(required) == rebootFlag' = (rebootFlag \/ required)

RebootCheck == /\ At("patching", "reboot_check")
               /\ \/ /\ \E due, heard \in BOOLEAN : SetNeedsReboot(RebootRequired(due, heard))
                     /\ Goes("service_post", status)
                  \/ rebootFlag' = rebootFlag /\ Raises(FALSE)
               /\ UNCHANGED <<installed, approvedList, pending, snapshot, serviceUp, wasUp,
                              regression, stale, unread>>

\* Active before and not active after; a service missing from the answer is taken
\* to be as it was.
FindRegressions(heard) == wasUp /\ heard /\ ~CheckServices(heard)

ServicePost == /\ At("patching", "service_post")
               /\ \/ \E heard \in BOOLEAN :
                        /\ regression' = FindRegressions(heard)
                        /\ Goes("end", status)
                  \/ regression' = regression /\ Raises(FALSE)
               /\ UNCHANGED <<installed, approvedList, pending, snapshot, serviceUp, wasUp,
                              rebootFlag, stale, unread>>

\* rollback_action without a snapshot.
NoSnapshot == /\ snapshot = Nothing
              /\ Goes("end", "rollback_failed")
              /\ UNCHANGED packages

Restored(now) == \A p \in DOMAIN snapshot : now[p] = snapshot[p]

\* The outcome, by the query that follows the command: a query that fails leaves
\* the rollback a success.
Requery == \/ /\ Acts("end", IF Restored(installed') THEN "rolled_back" ELSE "rollback_failed")
              /\ stale' = FALSE
              /\ unread' = unread
           \/ /\ Acts("end", "rolled_back")
              /\ unread' = TRUE
              /\ stale' = stale

\* The snapshotted versions are installed again, by apt-get install or by dnf
\* downgrade, and queried.
Reinstall ==
  /\ snapshot # Nothing
  /\ installed' \in AfterInstall(snapshot)
  /\ \/ Requery
     \/ /\ Acts("end", "rollback_failed") \/ Raises(TRUE)
        /\ UNCHANGED <<stale, unread>>
  /\ UNCHANGED <<approvedList, pending, snapshot, services>>

Rollback == At("patching", "rollback") /\ (NoSnapshot \/ Reinstall)

PatchingStep == \/ PreflightLock \/ ValidatePatching \/ AssessPatching \/ Snapshot
                \/ ServicePre \/ ExecutePatching \/ VerifyPatching \/ RebootCheck
                \/ ServicePost \/ Rollback

\* unattended-upgrades, an operator.
SomeoneUpdates == /\ Drifts("patching")
                  /\ \E p \in Packages : \E v \in Versions \ {installed[p]} :
                       installed' = [installed EXCEPT ![p] = v]
                  /\ stale' = TRUE
                  /\ UNCHANGED <<approvedList, pending, snapshot, services, unread>>

\* What the final status of a patching run says about the VM is so: SUCCESS,
\* every approved package was at its approved version when it was checked, and
\* none was without one; ROLLED_BACK, the snapshotted versions are back, unless
\* the rollback could not read them; skipped, blocked or dry, nothing was
\* changed; and FAILED is never the last word of the graph itself, only of an
\* exception: a failure inside always ends in the rollback.
PatchingTellsTheTruth ==
  Ended("patching") =>
    /\ status = "success" => bare = {} /\ (stale \/ \A p \in pinned : AtTarget(p))
    /\ status = "rolled_back" => unread \/ stale \/ Restored(installed)
    /\ status \in {"skipped", "blocked", "dry_run_ok"} => ~touched
    /\ status = "failed" => raised
    /\ status \notin {"unset", "pending"}

\* README.md:262 promises a version snapshot before the packages are changed
\* and a rollback on failure; patching.py:295 aborts "to preserve rollback".
\* So the install command is never sent while the snapshot is empty.
NeverInstallsWithoutSnapshot ==
  [][At("patching", "execute") /\ touched' /\ ~touched => snapshot # Nothing]_<<run, packages>>
=============================================================================
