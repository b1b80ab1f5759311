---------------------------- MODULE HygieneStore ----------------------------
(***************************************************************************)
(* safety/hygiene_store.py: the row of hygiene_approval_requests for one   *)
(* (batch, VM).  The agent creates it and waits; an operator's POST and    *)
(* the approval reconciler of the process that serves the UI write to it   *)
(* as well.  Every transition is one UPDATE guarded by status = 'pending'. *)
(***************************************************************************)
VARIABLES row,   \* the row: status, the assessment it shows, the items ticked, their hash
          late   \* the clock is past expires_at and past the waiter's own deadline

store == <<row, late>>

NoAssessment == [o \in {} |-> "none"]

NoRow == [status |-> "none", shows |-> NoAssessment, items |-> {}, hash |-> NoAssessment]

RowStatuses == {"none", "pending", "approved", "rejected", "timeout"}

StoreInit == row = NoRow /\ late = FALSE

IsPending == row.status = "pending"

IsDecided == row.status \in {"approved", "rejected", "timeout"}

\* INSERT ... ON CONFLICT DO UPDATE ... WHERE status = 'pending'.
Create(assessment) ==
  row' = IF IsDecided THEN row
         ELSE [status |-> "pending", shows |-> assessment, items |-> {}, hash |-> NoAssessment]

\* A plausible mistake: the UPDATE without its WHERE clause.
FaultyDecide(s, items, hash) ==
  /\ row.status # "none"
  /\ row' = [row EXCEPT !.status = s, !.items = items, !.hash = hash]
\* UPDATE ... WHERE status = 'pending'; a loser changes nothing.
Decide(s, items, hash) ==
  /\ IsPending
  /\ row' = [row EXCEPT !.status = s, !.items = items, !.hash = hash]

\* The waiter's deadline, or expires_at in the reconciler's pass.
MarkTimeout == /\ late
               /\ IsPending
               /\ row' = [row EXCEPT !.status = "timeout"]

TimePasses == /\ ~late
              /\ row.status # "none"
              /\ late' = TRUE
              /\ row' = row
=============================================================================
