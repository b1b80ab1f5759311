----------------------------- MODULE FileLocker -----------------------------
(***************************************************************************)
(* The lock files of errander/safety/locking.py, one JSON file per lock    *)
(* key, for the keys of one VM.  acquire and release contain no await: in   *)
(* one process they never interleave, between processes any two file       *)
(* operations may, and a process may die between two of them.              *)
(*                                                                         *)
(* A lock file is abstracted to who created it, whether its text is there  *)
(* (a file that O_CREAT|O_EXCL just made is empty, which _read_lock takes  *)
(* for corrupt) and whether its TTL has passed.  A run locks at most once, *)
(* so `by` also tells one file from the next of the same name.             *)
(***************************************************************************)
CONSTANTS
  Runs,           \* whoever locks: a batch, a restart or a proposal, by its id
  AgentRuns,      \* those in the agent process; any other is its own process
  DirectRuns,     \* restarts and proposals, which lock the bare VM name
  NoRun,
  NoFile

LockFile == [by : Runs, full : BOOLEAN, stale : BOOLEAN]

ASSUME LockerAssumption ==
  /\ AgentRuns \subseteq Runs
  /\ DirectRuns \subseteq Runs
  /\ NoRun \notin Runs
  /\ NoFile \notin LockFile

VARIABLES
  file,           \* file[k]: the lock file of key k
  tmp,            \* tmp[k]: whose payload is in the .tmp file beside it
  call            \* call[r]: the locker call r is in, or its result

lockVars == <<file, tmp, call>>

\* run_env_batch names a VM "env/name", the restart command and the proposal
\* reconciler name it "name"; the lock file is named after it.
Keys == {"name", "env_name"}
KeyOf(r) == IF r \in DirectRuns THEN "name" ELSE "env_name"

Ops      == {"acquire", "retry", "release"}
MidCall  == {"look", "read", "purge", "open", "write", "stage", "replace", "unlink"}
Results  == {"granted", "refused", "closed", "raised"}
Idle     == [op |-> "acquire", at |-> "idle"]

LockTypeOK ==
  /\ file \in [Keys -> LockFile \cup {NoFile}]
  /\ tmp  \in [Keys -> Runs \cup {NoRun}]
  /\ call \in [Runs -> [op : Ops, at : MidCall \cup Results \cup {"idle"}]]

LockInit ==
  /\ file = [k \in Keys |-> NoFile]
  /\ tmp  = [k \in Keys |-> NoRun]
  /\ call = [r \in Runs |-> Idle]

InCall(r) == call[r].at \in MidCall

\* No call of another run of the same process is under way.
LoopFree(r) == r \in AgentRuns => \A q \in AgentRuns \ {r} : ~InCall(q)

StartCall(r, op) ==
  /\ LoopFree(r)
  /\ call' = [call EXCEPT ![r] = [op |-> op, at |-> "look"]]
  /\ UNCHANGED <<file, tmp>>

-----------------------------------------------------------------------------
(* The file operations of a call *)

At(r, here) == call[r].at = here
GoesTo(r, there) == call' = [call EXCEPT ![r].at = there]

\* What follows when _read_lock returned no lock.
WithoutLock(r) ==
  CASE call[r].op = "acquire" -> "open"
    [] call[r].op = "retry"   -> "stage"
    [] call[r].op = "release" -> "closed"

\* Faulty variant: a lock is taken over although its TTL has not passed.
FaultyWithLock(r, f) ==
  IF call[r].op = "release"
    THEN IF f.by = r THEN "unlink" ELSE "closed"
    ELSE "stage"

\* What follows when it returned f.
WithLock(r, f) ==
  IF call[r].op = "release"
    THEN IF f.by = r THEN "unlink" ELSE "closed"
    ELSE IF f.stale THEN "stage" ELSE "refused"

\* _read_lock: exists() ...
Look(r) ==
  /\ At(r, "look")
  /\ GoesTo(r, IF file[KeyOf(r)] = NoFile THEN WithoutLock(r) ELSE "read")
  /\ UNCHANGED <<file, tmp>>

\* ... read_text(), which raises FileNotFoundError if the file is gone ...
Read(r) ==
  LET f == file[KeyOf(r)] IN
  /\ At(r, "read")
  /\ GoesTo(r, IF f = NoFile THEN "raised" ELSE IF f.full THEN WithLock(r, f) ELSE "purge")
  /\ UNCHANGED <<file, tmp>>

\* ... and unlink() of what could not be parsed.
Purge(r) ==
  /\ At(r, "purge")
  /\ file' = [file EXCEPT ![KeyOf(r)] = NoFile]
  /\ GoesTo(r, WithoutLock(r))
  /\ UNCHANGED tmp

\* os.open(O_CREAT | O_EXCL); if the name is taken, read it once more.
Open(r) ==
  LET k == KeyOf(r) IN
  /\ At(r, "open")
  /\ IF file[k] = NoFile
       THEN /\ file' = [file EXCEPT ![k] = [by |-> r, full |-> FALSE, stale |-> FALSE]]
            /\ GoesTo(r, "write")
       ELSE /\ call' = [call EXCEPT ![r] = [op |-> "retry", at |-> "look"]]
            /\ UNCHANGED file
  /\ UNCHANGED tmp

\* The text goes into the file that r created, whatever the name stands for now.
Write(r) ==
  LET k == KeyOf(r) IN
  /\ At(r, "write")
  /\ file' = IF file[k] # NoFile /\ file[k].by = r
               THEN [file EXCEPT ![k].full = TRUE] ELSE file
  /\ GoesTo(r, "granted")
  /\ UNCHANGED tmp

\* _write_lock_atomic: the .tmp file has one name for all ...
Stage(r) ==
  /\ At(r, "stage")
  /\ tmp' = [tmp EXCEPT ![KeyOf(r)] = r]
  /\ GoesTo(r, "replace")
  /\ UNCHANGED file

\* ... and os.replace installs what is in it, or raises if it is gone.
Replace(r) ==
  LET k == KeyOf(r) IN
  /\ At(r, "replace")
  /\ IF tmp[k] = NoRun
       THEN GoesTo(r, "raised") /\ UNCHANGED <<file, tmp>>
       ELSE /\ file' = [file EXCEPT ![k] = [by |-> tmp[k], full |-> TRUE, stale |-> FALSE]]
            /\ tmp' = [tmp EXCEPT ![k] = NoRun]
            /\ GoesTo(r, "granted")

Unlink(r) ==
  /\ At(r, "unlink")
  /\ file' = [file EXCEPT ![KeyOf(r)] = NoFile]
  /\ GoesTo(r, "closed")
  /\ UNCHANGED tmp

LockStep(r) ==
  \/ Look(r) \/ Read(r) \/ Purge(r)
  \/ Open(r) \/ Write(r) \/ Stage(r) \/ Replace(r) \/ Unlink(r)

-----------------------------------------------------------------------------
\* A lock that is in force.
Fresh(k) == file[k] # NoFile /\ file[k].full /\ ~file[k].stale

\* Faulty variant: a lock does not expire.
FaultyExpire(k) == FALSE /\ UNCHANGED lockVars

\* is_expired turns true.
Expire(k) ==
  /\ Fresh(k)
  /\ file' = [file EXCEPT ![k].stale = TRUE]
  /\ UNCHANGED <<tmp, call>>
=============================================================================
