--------------------------- MODULE ApprovalStore ---------------------------
(***************************************************************************)
(* The approval_requests table of errander/safety/approval_store.py: one   *)
(* durable row per batch, written by the graph's approval gate, by the web *)
(* UI and by the reconcilers, each write being one SQL transaction.        *)
(*                                                                         *)
(* Each method of ApprovalRequestStore that writes is an operator that     *)
(* describes its UPDATE or INSERT; ApprovalPipeline says who calls it.     *)
(* Timestamps are abstracted to what the WHERE clauses and the callers     *)
(* compare, on the rows for which they do: overdue[b] (now >= expires_at)  *)
(* and settled[b] (decided _RECONCILER_CLAIM_GRACE_SECONDS ago or more).   *)
(***************************************************************************)
CONSTANTS
  Batches,        \* batch_id values, the primary key of the table
  Packages        \* the packages of a patching plan, one checkbox each

VARIABLES
  status,         \* status[b]: the status column, "absent" when there is no row
  overdue,        \* overdue[b]: the row is pending and its expires_at has passed
  items,          \* items[b]: the packages named in approved_items_json
  claimed,        \* claimed[b]: execution_started_at is not NULL
  settled         \* settled[b]: the row is approved, unclaimed, and was decided
                  \* before the reconciler's grace

storeVars == <<status, overdue, items, claimed, settled>>

Verdicts == {"approved", "rejected"}
Decided  == Verdicts \cup {"timeout"}

StoreTypeOK ==
  /\ status  \in [Batches -> {"absent", "pending"} \cup Decided]
  /\ overdue \in [Batches -> BOOLEAN]
  /\ items   \in [Batches -> SUBSET Packages]
  /\ claimed \in [Batches -> BOOLEAN]
  /\ settled \in [Batches -> BOOLEAN]

StoreInit ==
  /\ status  = [b \in Batches |-> "absent"]
  /\ overdue = [b \in Batches |-> FALSE]
  /\ items   = [b \in Batches |-> {}]
  /\ claimed = [b \in Batches |-> FALSE]
  /\ settled = [b \in Batches |-> FALSE]

-----------------------------------------------------------------------------
(* Writes *)

\* create: INSERT ... ON CONFLICT DO UPDATE ... WHERE status = 'pending'.
Create(b) ==
  /\ status'  = [status EXCEPT ![b] = IF @ = "absent" THEN "pending" ELSE @]
  /\ overdue' = [overdue EXCEPT ![b] = FALSE]
  /\ UNCHANGED <<items, claimed, settled>>

\* Faulty variant: the decision overwrites whatever the row says.
FaultyDecide(b, verdict, selection) ==
  /\ status[b] # "absent"
  /\ status' = [status EXCEPT ![b] = verdict]
  /\ items'  = [items EXCEPT ![b] = selection]
  /\ UNCHANGED <<overdue, claimed, settled>>

\* decide: UPDATE ... WHERE status = 'pending'.  A decider that loses the race
\* matches no row and changes nothing, which is a stuttering step.
Decide(b, verdict, selection) ==
  /\ status[b] = "pending"
  /\ status' = [status EXCEPT ![b] = verdict]
  /\ items'  = [items EXCEPT ![b] = selection]
  /\ overdue' = [overdue EXCEPT ![b] = FALSE]
  /\ UNCHANGED <<claimed, settled>>

\* Faulty variants: without the WHERE clause; with the other table's status.
FaultyMarkTimeout(b) ==
  /\ status' = [status EXCEPT ![b] = "timeout"]
  /\ UNCHANGED <<overdue, items, claimed, settled>>

MisspeltMarkTimeout(b) ==
  /\ status' = [status EXCEPT ![b] = IF @ = "pending" THEN "expired" ELSE @]
  /\ UNCHANGED <<overdue, items, claimed, settled>>

\* mark_timeout: UPDATE ... WHERE status = 'pending'.
MarkTimeout(b) ==
  /\ status' = [status EXCEPT ![b] = IF @ = "pending" THEN "timeout" ELSE @]
  /\ overdue' = [overdue EXCEPT ![b] = FALSE]
  /\ UNCHANGED <<items, claimed, settled>>

\* Faulty variant: the pass is not committed.
FaultyExpireOverdue == UNCHANGED storeVars

\* expire_overdue: UPDATE ... WHERE status = 'pending' AND expires_at <= now.
ExpireOverdue ==
  /\ status' = [b \in Batches |->
                  IF status[b] = "pending" /\ overdue[b] THEN "timeout" ELSE status[b]]
  /\ overdue' = [b \in Batches |-> FALSE]
  /\ UNCHANGED <<items, claimed, settled>>

\* Faulty variant: without execution_started_at IS NULL.
FaultyClaimable(b) == status[b] = "approved"

\* The WHERE clause of mark_execution_started.
Claimable(b) == status[b] = "approved" /\ ~claimed[b]

\* Faulty variant: the claim is reported, not recorded.
FaultyMarkExecutionStarted(b) == UNCHANGED storeVars

\* mark_execution_started: returns True exactly when Claimable(b) held.
MarkExecutionStarted(b) ==
  /\ claimed' = [claimed EXCEPT ![b] = @ \/ Claimable(b)]
  /\ settled' = [settled EXCEPT ![b] = @ /\ ~Claimable(b)]
  /\ UNCHANGED <<status, overdue, items>>

-----------------------------------------------------------------------------
(* Reads *)

\* get_orphaned_approved
OrphanedApproved == {b \in Batches : status[b] = "approved" /\ ~claimed[b]}

-----------------------------------------------------------------------------
(* The passage of time, as far as the rows' timestamps are compared with it *)

TimeoutElapses(b) ==
  /\ status[b] = "pending"
  /\ ~overdue[b]
  /\ overdue' = [overdue EXCEPT ![b] = TRUE]
  /\ UNCHANGED <<status, items, claimed, settled>>

\* Only orphaned approvals are compared with the grace.
GraceElapses(b) ==
  /\ b \in OrphanedApproved
  /\ ~settled[b]
  /\ settled' = [settled EXCEPT ![b] = TRUE]
  /\ UNCHANGED <<status, overdue, items, claimed>>
=============================================================================
