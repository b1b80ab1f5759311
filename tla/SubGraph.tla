------------------------------ MODULE SubGraph ------------------------------
(***************************************************************************)
(* What the six action sub-graphs of agent/subgraphs/ and the observation  *)
(* nodes of agent/vm_graph.py share: a state                               *)
(* dictionary flows through nodes, every node asks the VM through          *)
(* SandboxExecutor.execute, whose answer is a success, a nonzero exit or   *)
(* an exception, a node's return value overwrites the keys it names,       *)
(* and the runner of agent/vm_graph.py turns an exception that leaves the  *)
(* graph into the status FAILED.  One run of one sub-graph on one VM is    *)
(* modelled; the VM's own state belongs to the modules that extend this    *)
(* one.                                                                    *)
(***************************************************************************)
EXTENDS Naturals, FiniteSets

CONSTANT MaxDrift  \* bound: changes by others to the VM during the run

ASSUME SubGraphAssumption == MaxDrift \in Nat

VARIABLES kind,    \* the action type of the run; "none" before it begins
          node,    \* the node that runs next, or "end"
          status,  \* the key "status" of the state
          dry,     \* the key "dry_run"
          raised,  \* an exception ended the run
          touched, \* history: the run sent the VM a command that changes it
          drifts   \* changes by others so far

run == <<kind, node, status, dry, raised, touched, drifts>>

\* The six action types, and the observation nodes before them taken as a run too.
Kinds == {"patching", "docker_hygiene", "disk_cleanup",
          "log_rotation", "backup_verify", "service_restart", "observe"}

Nodes == {"disk_snapshot", "drift_baseline", "failed_logins",
          "preflight_lock", "validate", "assess", "snapshot", "service_pre", "execute",
          "verify", "reboot_check", "service_post", "rollback", "approval", "end"}

Statuses == {"unset", "pending", "blocked", "dry_run_ok", "success", "failed", "skipped",
             "rolled_back", "rollback_failed", "needs_manual"}

RunTypeOK == /\ kind \in Kinds \cup {"none"}
             /\ node \in Nodes
             /\ status \in Statuses
             /\ dry \in BOOLEAN
             /\ raised \in BOOLEAN
             /\ touched \in BOOLEAN
             /\ drifts \in 0..MaxDrift

RunInit == /\ kind = "none"
           /\ node = "end"
           /\ status = "unset"
           /\ dry = TRUE
           /\ raised = FALSE
           /\ touched = FALSE
           /\ drifts = 0

\* The runner invokes the compiled graph of k at its entry point.
Enter(k, entry) == /\ kind = "none"
                   /\ kind' = k
                   /\ node' = entry
                   /\ dry' \in BOOLEAN
                   /\ UNCHANGED <<status, raised, touched, drifts>>

At(k, n) == kind = k /\ node = n

Ended(k) == At(k, "end")

\* A node whose commands change nothing on the VM returns s and hands over to n.
Goes(n, s) == node' = n /\ status' = s /\ UNCHANGED <<kind, dry, raised, touched, drifts>>

\* A node that sent a changing command returns s and hands over to n.
Acts(n, s) == /\ node' = n
              /\ status' = s
              /\ touched' = TRUE
              /\ UNCHANGED <<kind, dry, raised, drifts>>

\* The exception propagates out of ainvoke; the runner reports FAILED.  `sent`
\* says whether a changing command had already gone out.
Raises(sent) == /\ node' = "end"
                /\ status' = "failed"
                /\ raised' = TRUE
                /\ touched' = (touched \/ sent)
                /\ UNCHANGED <<kind, dry, drifts>>

\* Somebody other than the run changes the VM while k is at work on it: the VM
\* lock keeps out other runs only.
Drifts(k) == /\ kind = k
             /\ drifts < MaxDrift
             /\ drifts' = drifts + 1
             /\ UNCHANGED <<kind, node, status, dry, raised, touched>>
=============================================================================
