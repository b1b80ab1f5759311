----------------------------- MODULE AgentLease -----------------------------
(***************************************************************************)
(* The one row of errander/safety/agent_lease.py, by which agent processes *)
(* are to exclude each other.  async_main acquires it at its start and     *)
(* releases it in its last finally; nothing calls heartbeat, so the lease  *)
(* of a living process lapses like that of a dead one.                     *)
(***************************************************************************)
CONSTANTS
  Agents,         \* the agent processes, by their pid
  Nobody

ASSUME LeaseAssumption == Nobody \notin Agents

VARIABLE lease    \* holder: the pid of the row; stale: silent for 90 s

Lease == [holder : Agents \cup {Nobody}, stale : BOOLEAN]

NoLease == [holder |-> Nobody, stale |-> FALSE]

LeaseInit == lease = NoLease

LeaseTo(a) == lease' = [holder |-> a, stale |-> FALSE]

\* acquire on a row whose heartbeat is old.  The DELETE holds the row's lock
\* until the INSERT is committed: a second acquirer waits, then sees the new row.
TakeOver(a) == lease.stale /\ LeaseTo(a)

\* acquire on an empty table: DELETE and SELECT lock nothing ...
FoundEmpty == lease.holder = Nobody

\* ... and INSERT ... ON CONFLICT DO UPDATE succeeds for everyone who got here.
InsertLease(a) == LeaseTo(a)

\* release: DELETE ... WHERE pid = :pid.
Release(a) == lease' = IF lease.holder = a THEN NoLease ELSE lease

LeaseLapses ==
  /\ lease.holder # Nobody /\ ~lease.stale
  /\ lease' = [lease EXCEPT !.stale = TRUE]
=============================================================================
