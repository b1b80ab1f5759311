----------------------------- MODULE Observation -----------------------------
(***************************************************************************)
(* The three nodes of agent/vm_graph.py that only look at the VM, between  *)
(* discovery and the drift check: disk_snapshot with                       *)
(* execution/disk_trend.py and safety/disk_history.py, drift_baseline with *)
(* safety/baselines.py and safety/drift_checks/, and failed_logins with    *)
(* execution/failed_logins.py.  A scope is what one baseline is about: the *)
(* sudoers, the listening ports, the scheduled jobs, or the authorized     *)
(* keys of one user.  Contents are taken as the canonical forms the        *)
(* parsers give them: comments, order and process numbers do not count.    *)
(***************************************************************************)
EXTENDS SubGraph, Sequences

CONSTANTS Users,      \* users whose keys are watched
          Texts,      \* contents of a scope that are not empty
          Mounts,     \* mount points of the VM
          MaxUsage,   \* bound: usage of a disk, in steps
          Growth,     \* threshold_pct of disk growth, in the same steps
          MaxChecks   \* bound: drift checks the settings turn on

Checks == {"sudoers", "authorized_keys", "listening_ports", "scheduled_jobs"}

ASSUME ObservationAssumption == /\ Users \cap Checks = {}
                                /\ Texts \cap {"", "absent", "none"} = {}
                                /\ MaxUsage \in Nat
                                /\ Growth \in Nat
                                /\ MaxChecks \in Nat

VARIABLES content,   \* the VM: scope -> its content; a user without an account is "absent"
          baseline,  \* vm_baselines: scope -> the latest content stored, or "none"
          before,    \* history: baseline when the run began
          todo,      \* checks the node has still to run
          captures,  \* captured and not compared yet: scope -> content
          firsts,    \* the scope whose first baseline is being logged
          diffs,     \* the scope whose change is being logged
          changes,   \* drift_changes
          window,    \* vm_disk_history: mount point -> readings in the window
          alerts,    \* disk_growth_alerts
          summary,   \* failed_login_summary
          trail,     \* audit rows of these nodes
          lost       \* history: an audit row could not be written, and the run went on

locals == <<todo, captures, firsts, diffs>>
drift == <<content, baseline, before, locals, changes>>
disks == <<window, alerts>>
sight == <<drift, disks, summary, trail, lost>>

Scopes == (Checks \ {"authorized_keys"}) \cup Users

CheckOf(s) == IF s \in Users THEN "authorized_keys" ELSE s

Contents == Texts \cup {""}

NoCaptures == [s \in {} |-> ""]

Usages == 0..MaxUsage

SightTypeOK == /\ content \in [Scopes -> Contents \cup {"absent"}]
               /\ baseline \in [Scopes -> Contents \cup {"none"}]
               /\ before \in [Scopes -> Contents \cup {"none"}]
               /\ todo \in SUBSET Checks
               /\ DOMAIN captures \subseteq Scopes
               /\ \A s \in DOMAIN captures : captures[s] \in Contents
               /\ firsts \in SUBSET Scopes
               /\ diffs \in SUBSET Scopes
               /\ changes \in SUBSET Scopes
               /\ window \in [Mounts -> Seq(Usages)]
               /\ alerts \in SUBSET Mounts
               /\ summary \in {"none", "zero", "some"}
               /\ trail \in SUBSET (Scopes \cup Mounts \cup {"failed_logins"})
               /\ lost \in BOOLEAN

SightInit == /\ content = [s \in Scopes |-> ""]
             /\ baseline = [s \in Scopes |-> "none"]
             /\ before = baseline
             /\ todo = {}
             /\ captures = NoCaptures
             /\ firsts = {}
             /\ diffs = {}
             /\ changes = {}
             /\ window = [m \in Mounts |-> <<>>]
             /\ alerts = {}
             /\ summary = "none"
             /\ trail = {}
             /\ lost = FALSE

\* The VM and the stored baselines as the run finds them, and the checks the
\* settings turn on.  What no check looks at plays no part.
Watched(on) == {s \in Scopes : CheckOf(s) \in on}

BeginObservation ==
  /\ Enter("observe", "disk_snapshot")
  /\ todo' \in SUBSET Checks
  /\ Cardinality(todo') <= MaxChecks
  /\ \E now \in [Watched(todo') -> Contents \cup {"absent"}],
        kept \in [Watched(todo') -> Contents \cup {"none"}] :
       /\ \A s \in Watched(todo') \ Users : now[s] # "absent"
       /\ content' = [s \in Scopes |-> IF s \in Watched(todo') THEN now[s] ELSE content[s]]
       /\ baseline' = [s \in Scopes |-> IF s \in Watched(todo') THEN kept[s] ELSE baseline[s]]
  /\ before' = baseline'
  /\ \E then \in [Mounts -> Usages \cup {MaxUsage + 1}] :
       window' = [m \in Mounts |-> IF then[m] \in Usages THEN <<then[m]>> ELSE <<>>]
  /\ UNCHANGED <<captures, firsts, diffs, changes, alerts, summary, trail, lost>>

----------------------------------------------------------------------------
\* An exception ends the VM graph, and what its nodes knew or had returned goes with
\* it: the batch reports no observations of this VM at all.
Aborts == /\ Raises(FALSE)
          /\ todo' = {}
          /\ captures' = NoCaptures
          /\ firsts' = {}
          /\ diffs' = {}
          /\ changes' = {}
          /\ alerts' = {}
          /\ summary' = "none"

\* log_event for the rows `due`: written, or lost where the store or a dry run
\* may lose a row.
Logs(due) == \E rows \in SUBSET due : /\ trail' = trail \cup rows
                                      /\ lost' = (lost \/ rows # due)

\* A strict store raises in a live run at the first row it cannot write.
LogRaises(due) == /\ ~dry
                  /\ \E rows \in (SUBSET due) \ {due} : trail' = trail \cup rows
                  /\ lost' = lost
                  /\ Aborts

----------------------------------------------------------------------------
\* Disk usage.

\* What df shows of the mount points it names goes in as one batch, in dry runs too.
Recorded(shown) == [m \in Mounts |-> IF m \in DOMAIN shown THEN Append(window[m], shown[m]) ELSE window[m]]

\* At least two readings, and the newest exceeds the oldest by the threshold: of
\* every mount point with a history, mounted or not.
Grown(w) == {m \in Mounts : Len(w[m]) >= 2 /\ w[m][Len(w[m])] >= w[m][1] + Growth}

\* A df that fails or shows nothing leaves history and alerts alone.
DiskSnapshot ==
  /\ At("observe", "disk_snapshot")
  /\ \/ /\ Goes("drift_baseline", status)
        /\ UNCHANGED <<locals, disks, changes, summary, trail, lost>>
     \/ \E named \in (SUBSET Mounts) \ {{}} : \E shown \in [named -> Usages] :
          /\ window' = Recorded(shown)
          /\ \/ /\ Goes("drift_baseline", status)
                /\ alerts' = Grown(window')
                /\ Logs(Grown(window'))
                /\ UNCHANGED <<locals, changes, summary>>
             \/ LogRaises(Grown(window'))
     \/ Aborts /\ UNCHANGED <<window, trail, lost>>
  /\ UNCHANGED <<content, baseline, before>>

----------------------------------------------------------------------------
\* Configuration drift.

\* The node is between two captures.
BetweenCaptures == /\ At("observe", "drift_baseline")
                   /\ captures = NoCaptures
                   /\ firsts \cup diffs = {}

\* A plausible mistake: a dry run goes on with the captures.
FaultyKept(f) == f
\* Dry runs must not touch the baselines.
Kept(f) == IF dry THEN NoCaptures ELSE f

\* One check: its command always exits 0, and what it may not read it shows as
\* empty.  A check that fails or raises is passed over.
Capture(k, shown) ==
  /\ BetweenCaptures
  /\ k \in todo
  /\ todo' = todo \ {k}
  /\ \/ \E f \in [shown -> Contents] :
          /\ \A s \in shown : f[s] \in {content[s], ""}
          /\ captures' = Kept(f)
     \/ captures' = NoCaptures
  /\ UNCHANGED <<run, content, baseline, before, firsts, diffs, changes, disks, summary, trail, lost>>

CaptureSudoers == Capture("sudoers", {"sudoers"})

\* One capture per account there is; an account that is gone has none.
CaptureAuthorizedKeys == Capture("authorized_keys", {u \in Users : content[u] # "absent"})

CaptureListeningPorts == Capture("listening_ports", {"listening_ports"})

CaptureScheduledJobs == Capture("scheduled_jobs", {"scheduled_jobs"})

\* A plausible mistake: the capture is saved before the latest row is read.
FaultyLatest(s) == captures[s]
Latest(s) == baseline[s]

Save(s) == baseline' = [baseline EXCEPT ![s] = captures[s]]

\* Two transactions: the latest row is read, then the capture becomes the latest.
CompareAndSave ==
  /\ At("observe", "drift_baseline")
  /\ firsts \cup diffs = {}
  /\ \E s \in DOMAIN captures :
       /\ Save(s)
       /\ captures' = [r \in DOMAIN captures \ {s} |-> captures[r]]
       /\ firsts' = IF Latest(s) = "none" THEN {s} ELSE {}
       /\ diffs' = IF Latest(s) \notin {"none", captures[s]} THEN {s} ELSE {}
  /\ UNCHANGED <<run, content, before, todo, changes, disks, summary, trail, lost>>

\* A database error, when the capture may have been saved already.
StoreFails ==
  /\ At("observe", "drift_baseline")
  /\ firsts \cup diffs = {}
  /\ \E s \in DOMAIN captures : Save(s) \/ UNCHANGED baseline
  /\ Aborts
  /\ UNCHANGED <<content, before, window, trail, lost>>

\* The event of a comparison, and then the change in drift_changes.
ReportDrift ==
  /\ At("observe", "drift_baseline")
  /\ firsts \cup diffs # {}
  /\ \/ /\ Logs(firsts \cup diffs)
        /\ changes' = changes \cup diffs
        /\ firsts' = {}
        /\ diffs' = {}
        /\ UNCHANGED <<run, todo, captures, alerts, summary>>
     \/ LogRaises(firsts \cup diffs)
  /\ UNCHANGED <<content, baseline, before, window>>

EndDrift == /\ BetweenCaptures
            /\ todo = {}
            /\ Goes("failed_logins", status)
            /\ UNCHANGED sight

DriftBaseline == \/ CaptureSudoers \/ CaptureAuthorizedKeys
                 \/ CaptureListeningPorts \/ CaptureScheduledJobs
                 \/ CompareAndSave \/ StoreFails \/ ReportDrift \/ EndDrift

----------------------------------------------------------------------------
\* Failed logins.

\* The summary of what the journal shows.
Detected(heard, any) == IF ~heard THEN "none" ELSE IF any THEN "some" ELSE "zero"

\* Turned off or without an answer there is no summary; a count of zero is one
\* without an event.
FailedLogins ==
  /\ At("observe", "failed_logins")
  /\ \/ /\ Goes("end", status)
        /\ \E heard, any \in BOOLEAN : summary' = Detected(heard, any)
        /\ IF summary' = "some" THEN Logs({"failed_logins"}) ELSE UNCHANGED <<trail, lost>>
        /\ UNCHANGED <<locals, changes, alerts>>
     \/ LogRaises({"failed_logins"})
     \/ Aborts /\ UNCHANGED <<trail, lost>>
  /\ UNCHANGED <<content, baseline, before, window>>

ObservationStep == DiskSnapshot \/ DriftBaseline \/ FailedLogins

\* Somebody edits a file, opens a port, adds or deletes a user.
SomeoneReconfigures ==
  /\ Drifts("observe")
  /\ \E s \in Watched(Checks) : \E c \in (Contents \cup (IF s \in Users THEN {"absent"} ELSE {})) \ {content[s]} :
       content' = [content EXCEPT ![s] = c]
  /\ UNCHANGED <<baseline, before, todo, captures, firsts, diffs, changes, disks, summary, trail, lost>>

\* Scopes whose baseline the run replaced by a different one.
Moved == {s \in Scopes : before[s] # "none" /\ baseline[s] # before[s]}

\* The baseline is overwritten before its change is logged, so what is lost in
\* between no later run finds again.  Wherever the run stops, that is one change at
\* most, as long as no row was given up: the others are in the audit trail, even
\* when the exception has taken them from the report.  A run that returns reports
\* exactly what moved, and every event of its own has a row; a dry run stores
\* nothing, so that the live run after it still sees the change (compare_and_save
\* of baselines.py, drift_baseline_node, and the exception branch of the batch).
ObservationsAreReported ==
  /\ ~lost => \A s, t \in Moved \ trail : s = t
  /\ Ended("observe") /\ ~raised => changes = Moved
  /\ Ended("observe") /\ ~raised /\ ~lost =>
       /\ alerts \subseteq trail
       /\ \A s \in Scopes : baseline[s] # before[s] => s \in trail
  /\ dry => baseline = before
=============================================================================
