--------------------------- MODULE ProposalStore ---------------------------
(***************************************************************************)
(* The agent_proposals table of errander/safety/proposal_store.py: work an *)
(* operator may approve, keyed by the VM and the action it is about.  A    *)
(* partial unique index allows one pending row per key.  Each method that  *)
(* writes is one transaction, and an operator here that describes its      *)
(* UPDATE or INSERT; Proposals says who calls it.                          *)
(*                                                                         *)
(* A proposal_id is a fresh UUID, so which one a row gets does not matter: *)
(* every id is set aside for one key.  When a row is overdue, or a snooze   *)
(* over, is left open: it may be at any time that somebody asks.           *)
(***************************************************************************)
EXTENDS Naturals, FiniteSets

CONSTANTS
  Ids,            \* proposal_id values
  Keys,           \* (vm_id, action_key) pairs
  ActionKeys,     \* those of kind 'action'; the others are review-only
  KeyOf,          \* KeyOf[i]: the key of the proposal i
  Threshold       \* suppression_threshold: rejections that silence a key

ASSUME StoreAssumption ==
  /\ Ids \subseteq Nat /\ Ids # {} /\ IsFiniteSet(Ids)
  /\ ActionKeys \subseteq Keys
  /\ KeyOf \in [Ids -> Keys] /\ Keys # {}
  /\ Threshold \in Nat \ {0}

VARIABLE row      \* row[i]: the row of proposal i

Statuses == {"absent", "pending", "approved", "rejected", "snoozed", "expired"}
Outcomes == {"none", "success", "failed"}

Row == [status  : Statuses,
        recent  : BOOLEAN,    \* rejected, inside suppression_window_days
        claimed : BOOLEAN,    \* execution_started_at is not NULL
        outcome : Outcomes]   \* execution_status

NoRow == [status |-> "absent", recent |-> FALSE, claimed |-> FALSE, outcome |-> "none"]
NewRow == [NoRow EXCEPT !.status = "pending"]

StoreInit == row = [i \in Ids |-> NoRow]

Of(k)    == {i \in Ids : KeyOf[i] = k}
Is(i, s) == row[i].status = s

-----------------------------------------------------------------------------
(* Reads *)

\* get_open: the pending row of a key, of which the index allows one.
Open(k) == {i \in Of(k) : Is(i, "pending")}

Rejections(k) == {i \in Of(k) : Is(i, "rejected")}

\* Faulty variant: it takes one rejection more than the setting says.
FaultySuppressed(k) ==
  /\ Cardinality(Rejections(k)) > Threshold
  /\ \E i \in Rejections(k) : row[i].recent

\* is_suppressed
Suppressed(k) ==
  /\ Cardinality(Rejections(k)) >= Threshold
  /\ \E i \in Rejections(k) : row[i].recent

\* The WHERE clause of mark_execution_started, also of get_approved_unclaimed.
Claimable(i) == Is(i, "approved") /\ KeyOf[i] \in ActionKeys /\ ~row[i].claimed

\* An id for a new proposal of key k.  Bound: a key has as many rows as it has ids.
Fresh(k, i) == i \in Of(k) /\ Is(i, "absent") /\ \A j \in Of(k) : j < i => ~Is(j, "absent")

-----------------------------------------------------------------------------
(* Writes *)

\* create_or_refresh of a proposal with id i.  The open row of the key is given
\* new evidence and a new expires_at.  ON CONFLICT names the index of pending
\* rows only: an id that is taken, by a row no longer pending, raises.
Upsert(k, i) ==
  IF Open(k) = {} /\ Is(i, "absent") THEN row' = [row EXCEPT ![i] = NewRow]
                                     ELSE UNCHANGED row

\* Faulty variant: the decision overwrites whatever the row says.
FaultyDecide(i, verdict) ==
  /\ ~Is(i, "absent")
  /\ row' = [row EXCEPT ![i].status = verdict, ![i].recent = (verdict = "rejected")]

\* decide: UPDATE ... WHERE status = 'pending'.  Whoever loses changes nothing.
Decide(i, verdict) ==
  /\ Is(i, "pending")
  /\ row' = [row EXCEPT ![i].status = verdict, ![i].recent = (verdict = "rejected")]

\* snooze: the same WHERE clause; expires_at is left as it is.
Snooze(i) ==
  /\ Is(i, "pending")
  /\ row' = [row EXCEPT ![i].status = "snoozed"]

Become(these, s) ==
  row' = [i \in Ids |-> IF i \in these THEN [row[i] EXCEPT !.status = s] ELSE row[i]]

Pending == {i \in Ids : Is(i, "pending")}
Snoozed == {i \in Ids : Is(i, "snoozed")}

\* Faulty variant: with the status of the other table.
MisspeltExpireOverdue(overdue) == overdue \subseteq Pending /\ Become(overdue, "timeout")

\* expire_overdue, for the pending rows whose expires_at has passed.
ExpireOverdue(overdue) == overdue \subseteq Pending /\ Become(overdue, "expired")

\* wake_snoozed is one UPDATE of all rows that are due: a second pending row for
\* a key violates the index, and the statement raises.
Collide(due) ==
  \E i \in due, j \in due \cup Pending : i # j /\ KeyOf[i] = KeyOf[j]

WakeSnoozed(due) == due \subseteq Snoozed /\ ~Collide(due) /\ Become(due, "pending")

\* Faulty variant: without execution_started_at IS NULL.
FaultyMarkStarted(i, won) ==
  /\ won = (Is(i, "approved") /\ KeyOf[i] \in ActionKeys)
  /\ row' = IF won THEN [row EXCEPT ![i].claimed = TRUE] ELSE row

\* mark_execution_started: the caller has won when a row matched.
MarkStarted(i, won) ==
  /\ won = Claimable(i)
  /\ row' = IF won THEN [row EXCEPT ![i].claimed = TRUE] ELSE row

\* set_execution_status
SetOutcome(i, o) == row' = [row EXCEPT ![i].outcome = o]

-----------------------------------------------------------------------------
(* The passage of suppression_window_days since a rejection *)

WindowElapses(i) ==
  /\ Is(i, "rejected") /\ row[i].recent
  /\ row' = [row EXCEPT ![i].recent = FALSE]
=============================================================================
