--------------------------- MODULE DeferredStore ---------------------------
(***************************************************************************)
(* The deferred_executions table of errander/safety/deferred.py: approved  *)
(* batches that wait for a maintenance window.  stale[b] abstracts the     *)
(* comparison of the row's expiry_at (window_start + 7 days) with now.  The *)
(* table shares its batch_id key, and its database, with ApprovalStore.     *)
(***************************************************************************)
EXTENDS ApprovalStore

VARIABLES
  deferred,       \* deferred[b]: the status column, "absent" when no row
  stale           \* stale[b]: the row's expiry_at has passed

deferredVars == <<deferred, stale>>

DeferredTypeOK ==
  /\ deferred \in [Batches -> {"absent", "pending", "executing", "done", "expired"}]
  /\ stale    \in [Batches -> BOOLEAN]

DeferredInit ==
  /\ deferred = [b \in Batches |-> "absent"]
  /\ stale    = [b \in Batches |-> FALSE]

\* save: an upsert that puts the row back to 'pending' whatever it was.
Save(b) ==
  /\ deferred' = [deferred EXCEPT ![b] = "pending"]
  /\ stale'    = [stale EXCEPT ![b] = FALSE]

\* get_pending: pending rows that have not expired.
Pending == {b \in Batches : deferred[b] = "pending" /\ ~stale[b]}

\* Faulty variant: the row stays pending while it is executed.
FaultyMarkExecuting(b) == UNCHANGED deferredVars

\* mark_executing: an unconditional UPDATE of the row.
MarkExecuting(b) ==
  /\ deferred' = [deferred EXCEPT ![b] = "executing"]
  /\ UNCHANGED stale

\* mark_done: an unconditional UPDATE of the row.
MarkDone(b) ==
  /\ deferred' = [deferred EXCEPT ![b] = "done"]
  /\ UNCHANGED stale

\* expire_old: UPDATE ... WHERE status = 'pending' AND expiry_at <= now.
ExpireOld ==
  /\ deferred' = [b \in Batches |->
                    IF deferred[b] = "pending" /\ stale[b] THEN "expired" ELSE deferred[b]]
  /\ UNCHANGED stale

\* Seven days pass after the window for which the row was saved.
DeferralElapses(b) ==
  /\ deferred[b] = "pending"
  /\ ~stale[b]
  /\ stale' = [stale EXCEPT ![b] = TRUE]
  /\ UNCHANGED deferred
=============================================================================
