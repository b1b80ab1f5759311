---------------------------- MODULE VmLockProofs ----------------------------
(***************************************************************************)
(* Mutual exclusion of the runs of one process: any number of VM graphs    *)
(* and proposals, any faults.  A run's lock file is its own from the end   *)
(* of its acquire to the unlink of its release, because no other call is   *)
(* under way in between and the TTL outlasts the run.                      *)
(***************************************************************************)
EXTENDS VmRunsProofs

USE DEF lockVars, runVars, workVars, OnVm, Active, Ended, GraphRuns,
        Ops, MidCall, Results, Moves, At

\* One process, whose runs end before their locks expire.
OneProcess == AgentRuns = Runs /\ Overruns = {}

OwnLock(r) == [by |-> r, full |-> TRUE, stale |-> FALSE]

\* From the last step of acquire to the last step of release.
Holds(r) ==
  \/ stage[r] \in OnVm \cup {"audit", "release"} /\ locked[r]
  \/ stage[r] = "locking" /\ call[r].at = "granted"
  \/ stage[r] = "releasing" /\ call[r].at \in {"look", "read", "unlink"}

\* What a run in acquire knows of the lock file.
Seen(r) ==
  LET f == file[KeyOf(r)]
      at == call[r].at IN
  /\ at \in {"look", "read", "purge", "open", "write", "stage", "replace", "granted", "refused"}
  /\ call[r].op = "acquire"
  /\ at = "read" => f # NoFile
  /\ at = "purge" => f # NoFile /\ ~f.full
  /\ at = "open" => f = NoFile
  /\ at = "write" => f = [by |-> r, full |-> FALSE, stale |-> FALSE]
  /\ at \in {"stage", "replace"} => f # NoFile /\ f.full /\ f.stale
  /\ at = "replace" => tmp[KeyOf(r)] = r

\* A run in or out of the locker.
Sound(r) ==
  /\ Holds(r) => file[KeyOf(r)] = OwnLock(r)
  /\ stage[r] \in {"new", "lock", "locking"} => ~locked[r]
  /\ stage[r] = "locking" => Seen(r)
  /\ stage[r] = "releasing" => /\ call[r].at \in {"look", "read", "unlink", "closed"}
                               /\ call[r].op = "release" /\ locked[r]
  /\ stage[r] \notin {"locking", "releasing"} => call[r] = Idle

Exclusion ==
  /\ \A r, q \in Runs : InCall(r) /\ InCall(q) => r = q
  /\ \A r \in Runs : Sound(r)

\* The file a run writes names it, is complete and fresh.
LEMMA OwnLockFacts ==
  ASSUME NEW r \in Runs
  PROVE  /\ OwnLock(r) \in LockFile /\ OwnLock(r) # NoFile
         /\ OwnLock(r).by = r /\ OwnLock(r).full = TRUE /\ OwnLock(r).stale = FALSE
<1>1. OwnLock(r) \in LockFile
  BY DEF OwnLock, LockFile
<1> QED
  BY <1>1, LockerAssumption DEF OwnLock

\* The file of a holder is its own.
LEMMA HolderFacts ==
  ASSUME Exclusion, NEW q \in Runs, Holds(q)
  PROVE  /\ file[KeyOf(q)] = OwnLock(q) /\ file[KeyOf(q)] # NoFile
         /\ file[KeyOf(q)].by = q
         /\ file[KeyOf(q)].full = TRUE /\ file[KeyOf(q)].stale = FALSE
<1>1. file[KeyOf(q)] = OwnLock(q)
  BY DEF Exclusion, Sound
<1> QED
  BY <1>1, OwnLockFacts

\* There are no files at first.
LEMMA InitExclusion == Init => Exclusion
  BY DEF Init, LockInit, Idle, Exclusion, Sound, Holds, Seen, InCall

\* While r may run on the loop, nobody else is inside the locker.
LEMMA Alone ==
  ASSUME OneProcess, NEW r \in Runs, LoopFree(r)
  PROVE  \A q \in Runs : q # r => ~InCall(q)
  BY DEF OneProcess, LoopFree

\* A run moves between stages that are not lock calls.
LEMMA QuietStep ==
  ASSUME RunTypeOK, Exclusion, NEW r \in Runs, NEW from, NEW to,
         Moves(r, from, to), UNCHANGED <<lockVars, locked>>,
         from \notin {"locking", "releasing"}, to \notin {"locking", "releasing"},
         to \in OnVm \cup {"audit", "release"} => from \in OnVm \cup {"audit", "release"},
         to \in {"new", "lock"} => from \in {"new", "lock"}
  PROVE  Exclusion'
<1>1. /\ stage[r] = from /\ stage'[r] = to
      /\ \A q \in Runs : q # r => stage'[q] = stage[q]
      /\ UNCHANGED <<file, tmp, call, locked>>
  BY DEF RunTypeOK
<1>2. ASSUME NEW q \in Runs
      PROVE  /\ Holds(q)' => Holds(q)
             /\ InCall(q)' <=> InCall(q)
             /\ Seen(q)' <=> Seen(q)
             /\ OwnLock(q)' = OwnLock(q)
             /\ file'[KeyOf(q)] = file[KeyOf(q)]
  BY <1>1 DEF Holds, InCall, Seen, OwnLock
<1>3. \A q, p \in Runs : InCall(q)' /\ InCall(p)' => q = p
  BY <1>2 DEF Exclusion
<1>4. ASSUME NEW q \in Runs PROVE Sound(q)'
  BY <1>1, <1>2 DEF Exclusion, Sound
<1> QED
  BY <1>3, <1>4 DEF Exclusion

\* A run takes a step in or at the locker, and nobody else is inside.
LEMMA OneMoves ==
  ASSUME Exclusion, NEW r \in Runs, \A q \in Runs : q # r => ~InCall(q),
         \A q \in Runs : q # r =>
           /\ stage'[q] = stage[q] /\ call'[q] = call[q] /\ locked'[q] = locked[q]
           /\ Holds(q) => file'[KeyOf(q)] = file[KeyOf(q)],
         Sound(r)'
  PROVE  Exclusion'
<1>1. ASSUME NEW q \in Runs, q # r PROVE ~InCall(q)'
  BY <1>1 DEF InCall
<1>2. ASSUME NEW q \in Runs, q # r PROVE Sound(q)'
  <2>1. Holds(q)' => Holds(q)
    BY <1>2 DEF Holds
  <2>2. Sound(q) /\ ~InCall(q)
    BY <1>2 DEF Exclusion
  <2>3. stage[q] = "locking" => Seen(q)'
    BY <1>2, <2>2 DEF Sound, Seen, InCall
  <2> QED
    BY <1>2, <2>1, <2>2, <2>3 DEF Sound, OwnLock
<1> QED
  BY <1>1, <1>2 DEF Exclusion

\* The calls begin and end.
LEMMA BeginEndCall ==
  ASSUME OneProcess, LockTypeOK, RunTypeOK, Exclusion, NEW r \in Runs,
         AskForLock(r) \/ Granted(r) \/ Refused(r) \/ LockRaised(r) \/ Release(r) \/ Released(r)
  PROVE  Exclusion'
<1> USE DEF LockTypeOK, RunTypeOK
<1>1. \A q \in Runs : q # r => ~InCall(q)
  BY Alone DEF AskForLock, Granted, Refused, LockRaised, Release, Released
<1>2. UNCHANGED <<file, tmp>>
  BY DEF AskForLock, Granted, Refused, LockRaised, Release, Released, StartCall
<1>3. \A q \in Runs : q # r =>
        stage'[q] = stage[q] /\ call'[q] = call[q] /\ locked'[q] = locked[q]
  BY DEF AskForLock, Granted, Refused, LockRaised, Release, Released, StartCall
<1>4. Sound(r)
  BY DEF Exclusion
<1>5. CASE AskForLock(r)
  <2>1. /\ stage'[r] = "locking" /\ ~locked'[r]
        /\ call'[r] = [op |-> "acquire", at |-> "look"]
    BY <1>4, <1>5 DEF AskForLock, StartCall, Sound
  <2>2. Sound(r)'
    BY <2>1 DEF Sound, Holds, Seen
  <2> QED
    BY <1>1, <1>2, <1>3, <2>2, OneMoves
<1>6. CASE Granted(r)
  <2>1. /\ stage'[r] \in {"acting", "discover"} /\ locked'[r] /\ call'[r] = Idle
        /\ file[KeyOf(r)] = OwnLock(r)
    BY <1>4, <1>6 DEF Granted, Sound, Holds
  <2>2. Sound(r)'
    BY <1>2, <2>1 DEF Sound, OwnLock
  <2> QED
    BY <1>1, <1>2, <1>3, <2>2, OneMoves
<1>7. CASE Refused(r)
  <2>1. stage'[r] \in {"audit", "new", "done"} /\ ~locked'[r] /\ call'[r] = Idle
    BY <1>4, <1>7 DEF Refused, Sound
  <2>2. Sound(r)'
    BY <2>1 DEF Sound, Holds
  <2> QED
    BY <1>1, <1>2, <1>3, <2>2, OneMoves
<1>8. CASE LockRaised(r)
  BY <1>4, <1>8 DEF LockRaised, Sound, Seen
<1>9. CASE Release(r)
  <2>1. /\ stage'[r] = "releasing" /\ locked'[r] /\ call'[r] = [op |-> "release", at |-> "look"]
        /\ file[KeyOf(r)] = OwnLock(r)
    BY <1>4, <1>9 DEF Release, StartCall, Sound, Holds
  <2>2. Sound(r)'
    BY <1>2, <2>1 DEF Sound, OwnLock
  <2> QED
    BY <1>1, <1>2, <1>3, <2>2, OneMoves
<1>10. CASE Released(r)
  <2>1. stage'[r] \in {"done", "crashed"} /\ ~locked'[r] /\ call'[r] = Idle
    BY <1>10 DEF Released
  <2>2. Sound(r)'
    BY <2>1 DEF Sound, Holds
  <2> QED
    BY <1>1, <1>2, <1>3, <2>2, OneMoves
<1> QED
  BY <1>5, <1>6, <1>7, <1>8, <1>9, <1>10

\* A file operation of acquire.
LEMMA AcquireStep ==
  ASSUME LockTypeOK, RunTypeOK, Exclusion, NEW r \in Runs, stage[r] = "locking",
         LockStep(r), UNCHANGED <<stage, locked>>
  PROVE  Sound(r)' /\ \A q \in Runs : q # r /\ Holds(q) => file'[KeyOf(q)] = file[KeyOf(q)]
<1> USE LockerAssumption DEF LockTypeOK, LockFile
<1>0. KeyOf(r) \in Keys
  BY DEF KeyOf, Keys
<1>1. Sound(r) /\ ~locked[r] /\ Seen(r) /\ call[r].op = "acquire"
  BY DEF Exclusion, Sound, Seen
<1>2. \A q \in Runs : Holds(q) => /\ file[KeyOf(q)] = OwnLock(q) /\ file[KeyOf(q)] # NoFile
                                /\ file[KeyOf(q)].by = q
                                /\ file[KeyOf(q)].full = TRUE /\ file[KeyOf(q)].stale = FALSE
  BY HolderFacts
<1>3. ~locked'[r] /\ stage'[r] = "locking"
  BY <1>1
<1>4. ASSUME NEW s \in MidCall \cup Results, GoesTo(r, s)
      PROVE  call'[r] = [op |-> "acquire", at |-> s]
  BY <1>1, <1>4 DEF GoesTo
<1>5. CASE Look(r)
  <2>1. UNCHANGED <<file, tmp>>
    BY <1>5 DEF Look
  <2>2. CASE file[KeyOf(r)] = NoFile
    <3>1. call'[r] = [op |-> "acquire", at |-> "open"]
      BY <1>1, <1>4, <1>5, <2>2 DEF Look, WithoutLock
    <3> QED
      BY <1>3, <2>1, <2>2, <3>1 DEF Sound, Seen, Holds
  <2>3. CASE file[KeyOf(r)] # NoFile
    <3>1. call'[r] = [op |-> "acquire", at |-> "read"]
      BY <1>4, <1>5, <2>3 DEF Look
    <3> QED
      BY <1>3, <2>1, <2>3, <3>1 DEF Sound, Seen, Holds
  <2> QED
    BY <2>2, <2>3
<1>6. CASE Read(r)
  <2> DEFINE f == file[KeyOf(r)]
  <2>1. UNCHANGED <<file, tmp>> /\ f # NoFile
    BY <1>1, <1>6 DEF Read, Seen
  <2>2. CASE ~f.full
    <3>1. call'[r] = [op |-> "acquire", at |-> "purge"]
      BY <1>4, <1>6, <2>1, <2>2 DEF Read
    <3> QED
      BY <1>3, <2>1, <2>2, <3>1 DEF Sound, Seen, Holds
  <2>3. CASE f.full /\ f.stale
    <3>1. call'[r] = [op |-> "acquire", at |-> "stage"]
      BY <1>1, <1>4, <1>6, <2>1, <2>3 DEF Read, WithLock
    <3> QED
      BY <1>3, <2>1, <2>3, <3>1 DEF Sound, Seen, Holds
  <2>4. CASE f.full /\ ~f.stale
    <3>1. call'[r] = [op |-> "acquire", at |-> "refused"]
      BY <1>1, <1>4, <1>6, <2>1, <2>4 DEF Read, WithLock
    <3> QED
      BY <1>3, <2>1, <3>1 DEF Sound, Seen, Holds
  <2> QED
    BY <2>2, <2>3, <2>4
<1>7. CASE Purge(r)
  <2>1. /\ file' = [file EXCEPT ![KeyOf(r)] = NoFile] /\ ~file[KeyOf(r)].full
        /\ call'[r] = [op |-> "acquire", at |-> "open"]
    BY <1>1, <1>4, <1>7 DEF Purge, Seen, WithoutLock
  <2>2. Sound(r)'
    BY <1>0, <1>3, <2>1 DEF Sound, Seen, Holds
  <2>3. \A q \in Runs : Holds(q) => KeyOf(q) # KeyOf(r)
    BY <1>2, <2>1, OwnLockFacts
  <2> QED
    BY <2>1, <2>2, <2>3
<1>8. CASE Open(r)
  <2>1. /\ file[KeyOf(r)] = NoFile
        /\ file' = [file EXCEPT ![KeyOf(r)] = [by |-> r, full |-> FALSE, stale |-> FALSE]]
        /\ call'[r] = [op |-> "acquire", at |-> "write"]
    BY <1>1, <1>4, <1>8 DEF Open, Seen
  <2>2. Sound(r)'
    BY <1>0, <1>3, <2>1 DEF Sound, Seen, Holds
  <2>3. \A q \in Runs : Holds(q) => KeyOf(q) # KeyOf(r)
    BY <1>2, <2>1
  <2> QED
    BY <2>1, <2>2, <2>3
<1>9. CASE Write(r)
  <2>1. file[KeyOf(r)] = [by |-> r, full |-> FALSE, stale |-> FALSE]
    BY <1>1, <1>9 DEF Write, Seen
  <2>2. /\ file' = [file EXCEPT ![KeyOf(r)] = [file[KeyOf(r)] EXCEPT !.full = TRUE]]
        /\ call'[r] = [op |-> "acquire", at |-> "granted"]
    <3>1. file[KeyOf(r)] # NoFile /\ file[KeyOf(r)].by = r
      <4>1. [by |-> r, full |-> FALSE, stale |-> FALSE] \in LockFile
        BY DEF LockFile
      <4>2. file[KeyOf(r)] \in LockFile
        BY <2>1, <4>1
      <4>3. file[KeyOf(r)].by = r
        BY <2>1
      <4> QED
        BY <4>2, <4>3
    <3> QED
      BY <1>4, <1>9, <3>1 DEF Write
  <2>3. file'[KeyOf(r)] = OwnLock(r)
    <3> DEFINE e == [by |-> r, full |-> FALSE, stale |-> FALSE]
               g == [e EXCEPT !.full = TRUE]
    <3>1. g = OwnLock(r)
      <4>1. e \in LockFile
        BY DEF LockFile
      <4>2. g \in LockFile
        BY <4>1 DEF LockFile
      <4>3. g.by = r /\ g.full = TRUE /\ g.stale = FALSE
        BY <4>1 DEF LockFile
      <4> HIDE DEF g
      <4>4. g = [by |-> g.by, full |-> g.full, stale |-> g.stale]
        BY <4>2 DEF LockFile
      <4> QED
        BY <4>3, <4>4 DEF OwnLock
    <3> QED
      BY <1>0, <2>1, <2>2, <3>1
  <2>4. Sound(r)'
    BY <1>3, <2>2, <2>3 DEF Sound, Seen, Holds, OwnLock
  <2>5. \A q \in Runs : Holds(q) => KeyOf(q) # KeyOf(r)
    <3>1. file[KeyOf(r)].full = FALSE
      BY <2>1
    <3> QED
      BY <1>2, <3>1
  <2> QED
    BY <2>2, <2>4, <2>5
<1>10. CASE Stage(r)
  <2>1. /\ UNCHANGED file /\ tmp' = [tmp EXCEPT ![KeyOf(r)] = r]
        /\ call'[r] = [op |-> "acquire", at |-> "replace"]
        /\ file[KeyOf(r)] # NoFile /\ file[KeyOf(r)].full /\ file[KeyOf(r)].stale
    BY <1>1, <1>4, <1>10 DEF Stage, Seen
  <2> QED
    BY <1>0, <1>3, <2>1 DEF Sound, Seen, Holds
<1>11. CASE Replace(r)
  <2>1. tmp[KeyOf(r)] = r /\ file[KeyOf(r)].stale
    BY <1>1, <1>11 DEF Replace, Seen
  <2>2. /\ file' = [file EXCEPT ![KeyOf(r)] = OwnLock(r)]
        /\ call'[r] = [op |-> "acquire", at |-> "granted"]
    BY <1>4, <1>11, <2>1 DEF Replace, OwnLock
  <2>3. Sound(r)'
    BY <1>0, <1>3, <2>2 DEF Sound, Seen, Holds, OwnLock
  <2>4. \A q \in Runs : Holds(q) => KeyOf(q) # KeyOf(r)
    BY <1>2, <2>1, OwnLockFacts
  <2> QED
    BY <2>2, <2>3, <2>4
<1>12. CASE Unlink(r)
  BY <1>1, <1>12 DEF Unlink, Seen
<1> QED
  BY <1>5, <1>6, <1>7, <1>8, <1>9, <1>10, <1>11, <1>12 DEF LockStep

\* A file operation of release.
LEMMA ReleaseStep ==
  ASSUME LockTypeOK, RunTypeOK, Exclusion, NEW r \in Runs, stage[r] = "releasing",
         LockStep(r), UNCHANGED <<stage, locked>>
  PROVE  Sound(r)' /\ \A q \in Runs : q # r /\ Holds(q) => file'[KeyOf(q)] = file[KeyOf(q)]
<1> USE LockerAssumption DEF LockTypeOK, LockFile
<1>0. KeyOf(r) \in Keys
  BY DEF KeyOf, Keys
<1>1. /\ Sound(r) /\ locked[r] /\ call[r].op = "release"
      /\ call[r].at \in {"look", "read", "unlink", "closed"}
  BY DEF Exclusion, Sound
<1>2. \A q \in Runs : Holds(q) => /\ file[KeyOf(q)] = OwnLock(q) /\ file[KeyOf(q)] # NoFile
                                /\ file[KeyOf(q)].by = q
                                /\ file[KeyOf(q)].full = TRUE /\ file[KeyOf(q)].stale = FALSE
  BY HolderFacts
<1>3. locked'[r] /\ stage'[r] = "releasing"
  BY <1>1
<1>4. ASSUME NEW s \in MidCall \cup Results, GoesTo(r, s)
      PROVE  call'[r] = [op |-> "release", at |-> s]
  BY <1>1, <1>4 DEF GoesTo
<1>5. call[r].at \in {"look", "read", "unlink"} => file[KeyOf(r)] = OwnLock(r) /\ OwnLock(r) # NoFile
  BY <1>2 DEF Holds, Exclusion, Sound
<1>6. CASE Look(r)
  <2>1. UNCHANGED <<file, tmp>> /\ call'[r] = [op |-> "release", at |-> "read"]
    BY <1>4, <1>5, <1>6 DEF Look
  <2> QED
    BY <1>3, <1>5, <1>6, <2>1 DEF Look, Sound, OwnLock
<1>7. CASE Read(r)
  <2>1. UNCHANGED <<file, tmp>> /\ file[KeyOf(r)] = OwnLock(r) /\ OwnLock(r) # NoFile
    BY <1>5, <1>7 DEF Read
  <2>2. call'[r] = [op |-> "release", at |-> "unlink"]
    BY <1>1, <1>4, <1>7, <2>1 DEF Read, WithLock, OwnLock
  <2> QED
    BY <1>3, <2>1, <2>2 DEF Sound, OwnLock
<1>8. CASE Unlink(r)
  <2>1. /\ file' = [file EXCEPT ![KeyOf(r)] = NoFile] /\ file[KeyOf(r)] = OwnLock(r)
        /\ call'[r] = [op |-> "release", at |-> "closed"]
    BY <1>4, <1>5, <1>8 DEF Unlink
  <2>2. Sound(r)'
    BY <1>3, <2>1 DEF Sound, Holds
  <2>3. \A q \in Runs : q # r /\ Holds(q) => KeyOf(q) # KeyOf(r)
    <3>1. file[KeyOf(r)].by = r
      BY <2>1, OwnLockFacts
    <3> QED
      BY <1>2, <3>1
  <2> QED
    BY <2>1, <2>2, <2>3
<1> QED
  BY <1>1, <1>6, <1>7, <1>8 DEF LockStep, Purge, Open, Write, Stage, Replace
\* A step inside a lock call keeps the exclusion.
LEMMA CallStep ==
  ASSUME OneProcess, LockTypeOK, RunTypeOK, Exclusion, NEW r \in Runs,
         LockStep(r), UNCHANGED <<stage, locked>>
  PROVE  Exclusion'
<1>1. InCall(r)
  BY DEF LockStep, Look, Read, Purge, Open, Write, Stage, Replace, Unlink, InCall
<1>2. \A q \in Runs : q # r => ~InCall(q) /\ call'[q] = call[q]
  <2>1. \A q \in Runs : q # r => ~InCall(q)
    BY <1>1 DEF Exclusion
  <2>2. \A q \in Runs : q # r => call'[q] = call[q]
    BY DEF LockTypeOK, LockStep, Look, Read, Purge, Open, Write, Stage, Replace, Unlink, GoesTo
  <2> QED
    BY <2>1, <2>2
<1>3. stage[r] \in {"locking", "releasing"}
  BY <1>1 DEF Exclusion, Sound, InCall, Idle
<1>4. Sound(r)' /\ \A q \in Runs : q # r /\ Holds(q) => file'[KeyOf(q)] = file[KeyOf(q)]
  BY <1>3, AcquireStep, ReleaseStep
<1> QED
  BY <1>2, <1>4, OneMoves

\* A lock expires only when its run is over, so nobody's who still counts on it.
LEMMA TimeStep ==
  ASSUME OneProcess, LockTypeOK, RunTypeOK, Exclusion, NEW k \in Keys, Time(k)
  PROVE  Exclusion'
<1>1. /\ file[k] # NoFile /\ file[k].full /\ ~file[k].stale
      /\ file[k].by \in Runs /\ stage[file[k].by] \in Ended
      /\ file' = [file EXCEPT ![k] = [file[k] EXCEPT !.stale = TRUE]]
      /\ UNCHANGED <<tmp, call, stage, locked>>
  BY LockerAssumption DEF Time, Expire, Fresh, OneProcess, LockTypeOK, LockFile
<1>2. ASSUME NEW q \in Runs PROVE Sound(q)'
  <2>1. Sound(q) /\ KeyOf(q) \in Keys
    BY DEF Exclusion, KeyOf, Keys
  <2>2. CASE KeyOf(q) # k
    <3>1. file'[KeyOf(q)] = file[KeyOf(q)]
      BY <1>1, <2>1, <2>2 DEF LockTypeOK
    <3> QED
      BY <1>1, <2>1, <3>1 DEF Sound, Holds, Seen, OwnLock
  <2>3. CASE KeyOf(q) = k
    <3>1. ~Holds(q)
      <4>1. Holds(q) => file[k].by = q
        BY <2>3, HolderFacts
      <4>2. Holds(q) => stage[q] \notin Ended
        BY DEF Holds
      <4> QED
        BY <1>1, <4>1, <4>2
    <3>2. ~Holds(q)'
      BY <1>1, <3>1 DEF Holds
    <3>3. stage[q] = "locking" => Seen(q)'
      <4>1. file'[k] \in LockFile /\ file'[k] # NoFile
        <5>1. file[k] \in LockFile
          BY <1>1 DEF LockTypeOK
        <5>2. [file[k] EXCEPT !.stale = TRUE] \in LockFile
          BY <5>1 DEF LockFile
        <5> QED
          BY <1>1, <5>2, LockerAssumption DEF LockTypeOK
      <4>2. ASSUME stage[q] = "locking"
            PROVE  call[q].at \in {"look", "read", "granted", "refused"} /\ call[q].op = "acquire"
        <5>1. Seen(q) /\ call[q].at \notin {"purge", "open", "stage", "replace"}
          BY <1>1, <2>1, <2>3, <4>2 DEF Sound, Seen
        <5>2. call[q].at # "write"
          BY <1>1, <2>3, <5>1 DEF Seen
        <5> QED
          BY <5>1, <5>2 DEF Seen
      <4> QED
        BY <1>1, <2>3, <4>1, <4>2 DEF Seen
    <3> QED
      BY <1>1, <2>1, <3>2, <3>3 DEF Sound
  <2> QED
    BY <2>2, <2>3
<1>3. \A q, p \in Runs : InCall(q)' /\ InCall(p)' => q = p
  BY <1>1 DEF Exclusion, InCall
<1> QED
  BY <1>2, <1>3 DEF Exclusion

\* All runs die at once, and no call survives them.
LEMMA DieStep ==
  ASSUME OneProcess, RunTypeOK, Exclusion, NEW r \in Runs, Die(r)
  PROVE  Exclusion'
<1>1. ASSUME NEW q \in Runs
      PROVE  /\ call'[q] = Idle /\ locked'[q] = locked[q]
             /\ stage'[q] \in {"new"} \cup Ended
             /\ stage'[q] = "new" => stage[q] = "new"
  BY DEF Die, OneProcess, RunTypeOK
<1>2. ASSUME NEW q \in Runs PROVE Sound(q)' /\ ~InCall(q)'
  BY <1>1 DEF Exclusion, Sound, Holds, InCall, Idle
<1> QED
  BY <1>2 DEF Exclusion

\* Every step keeps it.
LEMMA StepExclusion ==
  ASSUME OneProcess, LockTypeOK, RunTypeOK, Exclusion, [Next]_vars
  PROVE  Exclusion'
<1>1. ASSUME NEW r \in Runs, Dispatch(r) \/ Begin(r) PROVE Exclusion'
  BY <1>1, QuietStep DEF Dispatch, Begin
<1>2. ASSUME NEW r \in Runs, RunStep(r) PROVE Exclusion'
  <2>1. CASE AskForLock(r) \/ Granted(r) \/ Refused(r) \/ LockRaised(r) \/ Release(r) \/ Released(r)
    BY <2>1, BeginEndCall
  <2>2. CASE Discover(r) \/ CheckDrift(r) \/ PlanActions(r) \/ Preflight(r)
    <3>1. PICK from \in {"discover", "drift", "planning", "preflight"},
               to \in OnVm \cup {"audit"} : Moves(r, from, to)
      BY <2>2 DEF Discover, CheckDrift, AfterDrift, PlanActions, Preflight
    <3>2. UNCHANGED <<lockVars, locked>>
      BY <2>2 DEF Discover, CheckDrift, PlanActions, Preflight
    <3> QED
      BY <3>1, <3>2, QuietStep
  <2>3. CASE StartAction(r) \/ SkipAction(r) \/ EndAction(r) \/ Gate(r)
    <3>1. PICK from \in {"dispatch", "acting", "gate"}, to \in OnVm \cup {"audit"} : Moves(r, from, to)
      BY <2>3 DEF StartAction, SkipAction, EndAction, Gate
    <3>2. UNCHANGED <<lockVars, locked>>
      BY <2>3 DEF StartAction, SkipAction, EndAction, Gate
    <3> QED
      BY <3>1, <3>2, QuietStep
  <2>4. CASE LogResult(r) \/ EndAudit(r) \/ EndDirect(r) \/ NothingToRelease(r)
    <3>1. PICK from \in {"audit", "acting", "release"}, to \in {"audit", "release", "done"} : Moves(r, from, to)
      BY <2>4 DEF LogResult, EndAudit, EndDirect, NothingToRelease
    <3>2. UNCHANGED <<lockVars, locked>>
      BY <2>4 DEF LogResult, EndAudit, EndDirect, NothingToRelease
    <3> QED
      BY <3>1, <3>2, QuietStep
  <2>5. CASE LockStep(r) /\ UNCHANGED <<stage, runVars, workVars, logged, locked, error, faults>>
    BY <2>5, CallStep
  <2> QED
    BY <1>2, <2>1, <2>2, <2>3, <2>4, <2>5 DEF RunStep, GraphStep
<1>3. ASSUME NEW r \in Runs, AuditFails(r) \/ Escape(r) PROVE Exclusion'
  <2>1. PICK from \in {"audit", "discover", "drift", "preflight", "acting", "gate"},
             to \in {"audit", "crashed"} : Moves(r, from, to)
    BY <1>3 DEF AuditFails, Escape
  <2>2. UNCHANGED <<lockVars, locked>>
    BY <1>3 DEF AuditFails, Escape
  <2> QED
    BY <2>1, <2>2, QuietStep
<1>4. ASSUME NEW r \in Runs, Die(r) PROVE Exclusion'
  BY <1>4, DieStep
<1>5. ASSUME NEW k \in Keys, Time(k) PROVE Exclusion'
  BY <1>5, TimeStep
<1>6. CASE UNCHANGED vars
  BY <1>6 DEF vars, Exclusion, Sound, Holds, Seen, InCall
<1> QED
  BY <1>1, <1>2, <1>3, <1>4, <1>5, <1>6 DEF Next

\* In one process no two runs that lock a VM under the same name work on it at
\* once, and a working run's lock file stays its own and in force, however many
\* runs there are and whatever fails or dies (locking.py acquire and release,
\* which contain no await).
THEOREM MutualExclusion ==
  ASSUME OneProcess
  PROVE  Spec => [](LockExcludes /\ HoldsOwnLock)
<1>1. Init => Exclusion
  BY InitExclusion
<1>2. LockTypeOK /\ RunTypeOK /\ PlanKept /\ Exclusion /\ [Next]_vars => Exclusion'
  BY StepExclusion
<1>3. Exclusion => HoldsOwnLock
  BY DEF Exclusion, Sound, Holds, HoldsOwnLock, Working, OwnLock
<1>4. HoldsOwnLock => LockExcludes
  <2>1. ASSUME HoldsOwnLock, NEW r \in Runs, NEW q \in Runs, Working(r), Working(q), KeyOf(r) = KeyOf(q)
        PROVE  r = q
    <3>1. file[KeyOf(r)] = OwnLock(r) /\ file[KeyOf(q)] = OwnLock(q)
      BY <2>1 DEF HoldsOwnLock, OwnLock
    <3>2. OwnLock(r).by = r /\ OwnLock(q).by = q
      BY OwnLockFacts
    <3>3. OwnLock(r) = OwnLock(q)
      BY <2>1, <3>1
    <3> QED
      BY <3>2, <3>3
  <2> QED
    BY <2>1 DEF LockExcludes
<1> QED
  BY <1>1, <1>2, <1>3, <1>4, VmInvariant, PTL DEF Spec

-----------------------------------------------------------------------------
(* Whose the lock files are *)

\* Whoever may leave a file with its name behind: a holder, a run that has made its
\* file and not yet written it, and a run that was cut short.
MayOwn(r) == Holds(r) \/ (stage[r] = "locking" /\ call[r].at = "write") \/ stage[r] = "crashed"

Owns(r) == file[KeyOf(r)] # NoFile /\ file[KeyOf(r)].by = r

Owners == \A r \in Runs : Owns(r) => MayOwn(r)

\* A run that moves between nodes.
LEMMA QuietOwner ==
  ASSUME RunTypeOK, Owners, NEW r \in Runs, NEW from, NEW to,
         Moves(r, from, to), UNCHANGED <<lockVars, locked>>,
         from \notin {"locking", "releasing", "crashed"},
         from \in OnVm \cup {"audit", "release"} =>
           to \in OnVm \cup {"audit", "release", "crashed"} \/ ~locked[r]
  PROVE  Owners'
<1>1. /\ stage[r] = from /\ stage'[r] = to
      /\ \A q \in Runs : q # r => stage'[q] = stage[q]
      /\ UNCHANGED <<file, tmp, call, locked>>
  BY DEF RunTypeOK
<1>2. ASSUME NEW q \in Runs, Owns(q) PROVE MayOwn(q)'
  BY <1>1, <1>2 DEF Owners, MayOwn, Holds
<1> QED
  BY <1>1, <1>2 DEF Owners, Owns

\* A run at the beginning or the end of a call.
LEMMA CallOwner ==
  ASSUME RunTypeOK, LockTypeOK, Exclusion, Owners, NEW r \in Runs,
         AskForLock(r) \/ Granted(r) \/ Refused(r) \/ LockRaised(r) \/ Release(r) \/ Released(r)
  PROVE  Owners'
<1> USE DEF LockTypeOK, RunTypeOK
<1>1. UNCHANGED file
  BY DEF AskForLock, Granted, Refused, LockRaised, Release, Released, StartCall
<1>2. \A q \in Runs : q # r =>
        stage'[q] = stage[q] /\ call'[q] = call[q] /\ locked'[q] = locked[q]
  BY DEF AskForLock, Granted, Refused, LockRaised, Release, Released, StartCall
<1>3. Owns(r) => MayOwn(r)' 
  <2>1. CASE AskForLock(r)
    BY <2>1 DEF AskForLock, Owners, MayOwn, Holds
  <2>2. CASE Granted(r)
    <3>1. stage'[r] \in {"acting", "discover"} /\ locked'[r]
      BY <2>2 DEF Granted
    <3> QED
      BY <3>1 DEF MayOwn, Holds
  <2>3. CASE Refused(r) \/ LockRaised(r) \/ Released(r)
    <3>1. ~MayOwn(r)
      BY <2>3 DEF Refused, LockRaised, Released, MayOwn, Holds
    <3> QED
      BY <3>1 DEF Owners
  <2>4. CASE Release(r)
    <3>1. stage'[r] = "releasing" /\ call'[r].at = "look"
      BY <2>4 DEF Release, StartCall
    <3> QED
      BY <3>1 DEF MayOwn, Holds
  <2> QED
    BY <2>1, <2>2, <2>3, <2>4
<1>4. ASSUME NEW q \in Runs, q # r, Owns(q) PROVE MayOwn(q)'
  BY <1>2, <1>4 DEF Owners, MayOwn, Holds
<1> QED
  BY <1>1, <1>3, <1>4 DEF Owners, Owns

\* A file operation leaves the name in the file alone, removes the file, or writes
\* the name of the run whose call it is.
LEMMA FileOwner ==
  ASSUME LockTypeOK, RunTypeOK, Exclusion, Owners, NEW r \in Runs,
         LockStep(r), UNCHANGED <<stage, locked>>
  PROVE  Owners'
<1> USE LockerAssumption DEF LockTypeOK
<1>0. KeyOf(r) \in Keys /\ \A q \in Runs : KeyOf(q) \in Keys
  BY DEF KeyOf, Keys
<1>1. stage[r] \in {"locking", "releasing"} /\ Sound(r)
  <2>1. InCall(r)
    BY DEF LockStep, Look, Read, Purge, Open, Write, Stage, Replace, Unlink, InCall
  <2> QED
    BY <2>1 DEF Exclusion, Sound, InCall, Idle
<1>2. \A q \in Runs : q # r => call'[q] = call[q]
  BY DEF LockStep, Look, Read, Purge, Open, Write, Stage, Replace, Unlink, GoesTo
<1>3. ASSUME NEW q \in Runs, q # r, MayOwn(q) PROVE MayOwn(q)'
  BY <1>2, <1>3 DEF MayOwn, Holds
<1>4. CASE Look(r) \/ Read(r) \/ Stage(r)
  <2>1. UNCHANGED file
    BY <1>4 DEF Look, Read, Stage
  <2>2. ASSUME Owns(r) PROVE MayOwn(r)'
    <3>1. Holds(r) /\ stage[r] = "releasing" /\ file[KeyOf(r)] = OwnLock(r)
      BY <1>1, <1>4, <2>2 DEF Owners, MayOwn, Holds, Look, Read, Stage, Sound
    <3>2. call[r].op = "release" /\ call[r].at \in {"look", "read"}
      BY <1>1, <1>4, <3>1 DEF Sound, Look, Read, Stage
    <3>3. call'[r].at \in {"read", "unlink"}
      <4>1. ASSUME NEW s, GoesTo(r, s) PROVE call'[r].at = s
        BY <4>1 DEF GoesTo
      <4>2. CASE Look(r)
        <5>1. file[KeyOf(r)] # NoFile
          BY <2>2 DEF Owns
        <5>2. GoesTo(r, "read")
          BY <4>2, <5>1 DEF Look
        <5> QED
          BY <4>1, <5>2
      <4>3. CASE Read(r)
        <5>1. file[KeyOf(r)] # NoFile /\ file[KeyOf(r)].full /\ file[KeyOf(r)].by = r
          <6>1. OwnLock(r).full = TRUE
            BY OwnLockFacts
          <6> QED
            BY <2>2, <3>1, <6>1 DEF Owns
        <5>2. WithLock(r, file[KeyOf(r)]) = "unlink"
          BY <3>2, <5>1 DEF WithLock
        <5>3. GoesTo(r, "unlink")
          BY <4>3, <5>1, <5>2 DEF Read
        <5> QED
          BY <4>1, <5>3
      <4>4. CASE Stage(r)
        BY <3>2, <4>4 DEF Stage, At
      <4> QED
        BY <1>4, <4>2, <4>3, <4>4
    <3> QED
      BY <3>1, <3>3 DEF MayOwn, Holds
  <2> QED
    BY <1>3, <2>1, <2>2 DEF Owners, Owns
<1>5. CASE Purge(r) \/ Unlink(r)
  <2>1. file' = [file EXCEPT ![KeyOf(r)] = NoFile]
    BY <1>5 DEF Purge, Unlink
  <2>2. ASSUME NEW q \in Runs, Owns(q)' PROVE Owns(q) /\ q # r
    BY <1>0, <2>1, <2>2 DEF Owns
  <2> QED
    BY <1>3, <2>2 DEF Owners
<1>6. CASE Open(r) \/ Write(r) \/ Replace(r)
  <2>1. stage[r] = "locking" /\ Seen(r)
    BY <1>1, <1>6 DEF Sound, Open, Write, Replace
  <2>2. call'[r].at \in {"write", "granted"}
    <3>1. CASE Open(r)
      BY <2>1, <3>1 DEF Open, Seen, GoesTo
    <3>2. CASE Write(r)
      BY <3>2 DEF Write, GoesTo
    <3>3. CASE Replace(r)
      BY <2>1, <3>3 DEF Replace, Seen, GoesTo
    <3> QED
      BY <1>6, <3>1, <3>2, <3>3
  <2>3. MayOwn(r)'
    BY <2>1, <2>2 DEF MayOwn, Holds
  <2>4. ASSUME NEW q \in Runs, q # r, Owns(q)' PROVE Owns(q)
    <3>1. CASE KeyOf(q) # KeyOf(r)
      BY <1>0, <1>6, <2>4, <3>1 DEF Open, Write, Replace, Owns
    <3>2. CASE KeyOf(q) = KeyOf(r)
      <4>1. file'[KeyOf(r)].by = r
        <5>1. CASE Open(r)
          BY <1>0, <2>1, <5>1 DEF Open, Seen
        <5>2. CASE Write(r)
          <6>1. /\ file[KeyOf(r)] \in LockFile /\ file[KeyOf(r)] # NoFile
                /\ file[KeyOf(r)].by = r
            <7>1. file[KeyOf(r)] = [by |-> r, full |-> FALSE, stale |-> FALSE]
              BY <2>1, <5>2 DEF Seen, Write, At
            <7>2. [by |-> r, full |-> FALSE, stale |-> FALSE] \in LockFile
              BY DEF LockFile
            <7>3. file[KeyOf(r)] \in LockFile
              BY <7>1, <7>2
            <7>4. file[KeyOf(r)].by = r
              BY <7>1
            <7> QED
              BY <7>3, <7>4
          <6>2. file' = [file EXCEPT ![KeyOf(r)] = [file[KeyOf(r)] EXCEPT !.full = TRUE]]
            BY <5>2, <6>1 DEF Write
          <6>3. [file[KeyOf(r)] EXCEPT !.full = TRUE].by = r
            BY <6>1 DEF LockFile
          <6> QED
            BY <1>0, <6>2, <6>3
        <5>3. CASE Replace(r)
          BY <1>0, <2>1, <5>3 DEF Replace, Seen
        <5> QED
          BY <1>6, <5>1, <5>2, <5>3
      <4> QED
        BY <2>4, <3>2, <4>1 DEF Owns
    <3> QED
      BY <3>1, <3>2
  <2> QED
    BY <1>3, <2>3, <2>4 DEF Owners
<1> QED
  BY <1>4, <1>5, <1>6 DEF LockStep

\* Every step keeps the files with those that may own them.
LEMMA OwnerStep ==
  ASSUME OneProcess, LockTypeOK, RunTypeOK, Exclusion, Owners, [Next]_vars
  PROVE  Owners'
<1>1. ASSUME NEW r \in Runs, Dispatch(r) \/ Begin(r) PROVE Owners'
  BY <1>1, QuietOwner DEF Dispatch, Begin
<1>2. ASSUME NEW r \in Runs, RunStep(r) PROVE Owners'
  <2>1. CASE AskForLock(r) \/ Granted(r) \/ Refused(r) \/ LockRaised(r) \/ Release(r) \/ Released(r)
    BY <2>1, CallOwner
  <2>2. CASE Discover(r) \/ CheckDrift(r) \/ PlanActions(r) \/ Preflight(r)
    <3>1. PICK from \in {"discover", "drift", "planning", "preflight"},
               to \in OnVm \cup {"audit"} : Moves(r, from, to)
      BY <2>2 DEF Discover, CheckDrift, AfterDrift, PlanActions, Preflight
    <3>2. UNCHANGED <<lockVars, locked>>
      BY <2>2 DEF Discover, CheckDrift, PlanActions, Preflight
    <3> QED
      BY <3>1, <3>2, QuietOwner
  <2>3. CASE StartAction(r) \/ SkipAction(r) \/ EndAction(r) \/ Gate(r)
    <3>1. PICK from \in {"dispatch", "acting", "gate"}, to \in OnVm \cup {"audit"} : Moves(r, from, to)
      BY <2>3 DEF StartAction, SkipAction, EndAction, Gate
    <3>2. UNCHANGED <<lockVars, locked>>
      BY <2>3 DEF StartAction, SkipAction, EndAction, Gate
    <3> QED
      BY <3>1, <3>2, QuietOwner
  <2>4. CASE LogResult(r) \/ EndAudit(r) \/ EndDirect(r)
    <3>1. PICK from \in {"audit", "acting"}, to \in {"audit", "release"} : Moves(r, from, to)
      BY <2>4 DEF LogResult, EndAudit, EndDirect
    <3>2. UNCHANGED <<lockVars, locked>>
      BY <2>4 DEF LogResult, EndAudit, EndDirect
    <3> QED
      BY <3>1, <3>2, QuietOwner
  <2>5. CASE NothingToRelease(r)
    <3>1. Moves(r, "release", "done") /\ ~locked[r] /\ UNCHANGED <<lockVars, locked>>
      BY <2>5 DEF NothingToRelease
    <3> QED
      BY <3>1, QuietOwner
  <2>6. CASE LockStep(r) /\ UNCHANGED <<stage, runVars, workVars, logged, locked, error, faults>>
    BY <2>6, FileOwner
  <2> QED
    BY <1>2, <2>1, <2>2, <2>3, <2>4, <2>5, <2>6 DEF RunStep, GraphStep
<1>3. ASSUME NEW r \in Runs, AuditFails(r) \/ Escape(r) PROVE Owners'
  <2>1. PICK from \in {"audit", "discover", "drift", "preflight", "acting", "gate"},
             to \in {"audit", "crashed"} : Moves(r, from, to)
    BY <1>3 DEF AuditFails, Escape
  <2>2. UNCHANGED <<lockVars, locked>>
    BY <1>3 DEF AuditFails, Escape
  <2> QED
    BY <2>1, <2>2, QuietOwner
<1>4. ASSUME NEW r \in Runs, Die(r) PROVE Owners'
  <2>1. /\ UNCHANGED file
        /\ \A q \in Runs : stage[q] \in Active \cup {"crashed"} => stage'[q] = "crashed"
    BY <1>4 DEF Die, OneProcess, RunTypeOK
  <2>2. \A q \in Runs : MayOwn(q) => stage[q] \in Active \cup {"crashed"}
    BY DEF MayOwn, Holds
  <2> QED
    BY <2>1, <2>2 DEF Owners, Owns, MayOwn
<1>5. ASSUME NEW k \in Keys, Time(k) PROVE Owners'
  <2>1. /\ file[k] \in LockFile /\ UNCHANGED <<stage, call, locked>>
        /\ file' = [file EXCEPT ![k] = [file[k] EXCEPT !.stale = TRUE]]
    BY <1>5, LockerAssumption DEF Time, Expire, Fresh, LockTypeOK
  <2>2. [file[k] EXCEPT !.stale = TRUE].by = file[k].by /\ file[k] # NoFile
    BY <2>1, LockerAssumption DEF LockFile
  <2>3. \A q \in Runs : Owns(q)' => Owns(q)
    BY <2>1, <2>2 DEF Owns, LockTypeOK, KeyOf, Keys
  <2> QED
    BY <2>1, <2>3 DEF Owners, MayOwn, Holds
<1>6. CASE UNCHANGED vars
  BY <1>6 DEF vars, Owners, Owns, MayOwn, Holds
<1> QED
  BY <1>1, <1>2, <1>3, <1>4, <1>5, <1>6 DEF Next

\* In one process the lock file of a VM follows its runs, for any number of runs and
\* any faults: a file that names a run is held by it, or the run was cut short before
\* its release; one that came to its regular end has removed it.
THEOREM LocksGoWithRuns ==
  ASSUME OneProcess
  PROVE  Spec => []LocksFollowRuns
<1>1. Init => Exclusion /\ Owners
  BY InitExclusion DEF Init, LockInit, Owners, Owns, KeyOf, Keys
<1>2. LockTypeOK /\ RunTypeOK /\ PlanKept /\ Exclusion /\ Owners /\ [Next]_vars => Exclusion' /\ Owners'
  BY StepExclusion, OwnerStep
<1>3. Exclusion => HoldsOwnLock
  BY DEF Exclusion, Sound, Holds, HoldsOwnLock, Working, OwnLock
<1>4. Owners => DoneLeavesNoLock
  <2> SUFFICES ASSUME Owners, NEW r \in Runs, stage[r] = "done", Owns(r)
               PROVE  FALSE
    BY DEF DoneLeavesNoLock, Owns
  <2> QED
    BY DEF Owners, MayOwn, Holds
<1> QED
  BY <1>1, <1>2, <1>3, <1>4, VmInvariant, PTL DEF Spec, LocksFollowRuns


-----------------------------------------------------------------------------
(* Several processes *)

\* A run that has looked at the lock file of its name and may yet change that file,
\* or be granted the lock, by what it saw.
Committed(r) ==
  call[r].at \in {"purge", "write", "stage", "replace", "unlink", "granted"}

\* A run works under its lock, and nobody who asked under this name saw anything else.
Settled(q) ==
  /\ Working(q)
  /\ file[KeyOf(q)] = OwnLock(q)
  /\ \A r \in Runs \ {q} : KeyOf(r) = KeyOf(q) => ~Working(r) /\ ~Committed(r)

\* A lock that has settled stays settled until its run is through with the VM.
SettledLocksStay ==
  [][\A q \in Runs \ Overruns : Settled(q) => Settled(q)' \/ ~Working(q)']_vars

\* Outside the two places that call the locker, no run is in a call.
CallsInPlace ==
  \A r \in Runs : stage[r] \notin {"locking", "releasing"} => call[r] = Idle

LEMMA InitCallsInPlace == Init => CallsInPlace
  BY DEF Init, LockInit, CallsInPlace

\* Only a run in a call takes a file operation, and it concerns the file of its name.
LEMMA LockStepOwn ==
  ASSUME LockTypeOK, NEW r \in Runs, LockStep(r)
  PROVE  /\ InCall(r)
         /\ \A q \in Runs : q # r => call'[q] = call[q]
         /\ \A q \in Runs : KeyOf(q) # KeyOf(r) => file'[KeyOf(q)] = file[KeyOf(q)]
<1>1. InCall(r)
  BY DEF LockStep, Look, Read, Purge, Open, Write, Stage, Replace, Unlink, InCall
<1>2. \A q \in Runs : q # r => call'[q] = call[q]
  BY DEF LockTypeOK, LockStep, Look, Read, Purge, Open, Write, Stage, Replace, Unlink, GoesTo
<1>3. ASSUME NEW q \in Runs, KeyOf(q) # KeyOf(r) PROVE file'[KeyOf(q)] = file[KeyOf(q)]
  <2>1. KeyOf(q) \in Keys /\ KeyOf(r) \in Keys
    BY DEF KeyOf, Keys
  <2> QED
    BY <1>3, <2>1 DEF LockTypeOK, LockStep, Look, Read, Purge, Open, Write, Stage, Replace, Unlink
<1> QED
  BY <1>1, <1>2, <1>3

\* What a step of run r does when it is no file operation and no death: it leaves the
\* files alone and moves r only; r starts to work only when it was granted the lock.
LEMMA NodeStep ==
  ASSUME LockTypeOK, RunTypeOK, CallsInPlace, NEW r \in Runs,
         \/ Dispatch(r) \/ Begin(r) \/ AuditFails(r) \/ Escape(r)
         \/ RunStep(r) /\ ~LockStep(r)
  PROVE  /\ UNCHANGED file
         /\ \A q \in Runs : q # r =>
              stage'[q] = stage[q] /\ call'[q] = call[q] /\ locked'[q] = locked[q]
         /\ Working(r)' => Working(r) \/ At(r, "granted")
         /\ Committed(r)' => Committed(r)
         /\ stage'[r] \notin {"locking", "releasing"} => call'[r] = Idle
<1> USE DEF LockTypeOK, RunTypeOK
<1>1. stage[r] \notin {"locking", "releasing"} => call[r] = Idle
  BY DEF CallsInPlace
<1>2. CASE AskForLock(r) \/ Release(r)
  BY <1>1, <1>2 DEF AskForLock, Release, StartCall, Working, Committed
<1>3. CASE Granted(r) \/ Refused(r) \/ LockRaised(r) \/ Released(r)
  BY <1>1, <1>3 DEF Granted, Refused, LockRaised, Released, Working, Committed, Idle
<1>4. ASSUME NEW from, NEW to, Moves(r, from, to), UNCHANGED <<lockVars, locked>>,
             from \notin {"locking", "releasing"}, to \notin {"locking", "releasing"},
             to \in OnVm => from \in OnVm
      PROVE  /\ UNCHANGED file
             /\ \A q \in Runs : q # r =>
                  stage'[q] = stage[q] /\ call'[q] = call[q] /\ locked'[q] = locked[q]
             /\ Working(r)' => Working(r) \/ At(r, "granted")
             /\ Committed(r)' => Committed(r)
             /\ stage'[r] \notin {"locking", "releasing"} => call'[r] = Idle
  BY <1>1, <1>4 DEF Working, Committed
<1>5. CASE Dispatch(r) \/ Begin(r)
  BY <1>4, <1>5 DEF Dispatch, Begin
<1>6. CASE Discover(r) \/ CheckDrift(r) \/ PlanActions(r) \/ Preflight(r)
  <2>1. PICK from \in {"discover", "drift", "planning", "preflight"},
             to \in OnVm \cup {"audit"} : Moves(r, from, to)
    BY <1>6 DEF Discover, CheckDrift, AfterDrift, PlanActions, Preflight
  <2>2. UNCHANGED <<lockVars, locked>>
    BY <1>6 DEF Discover, CheckDrift, PlanActions, Preflight
  <2> QED
    BY <1>4, <2>1, <2>2
<1>7. CASE StartAction(r) \/ SkipAction(r) \/ EndAction(r) \/ Gate(r)
  <2>1. PICK from \in {"dispatch", "acting", "gate"}, to \in OnVm \cup {"audit"} : Moves(r, from, to)
    BY <1>7 DEF StartAction, SkipAction, EndAction, Gate
  <2>2. UNCHANGED <<lockVars, locked>>
    BY <1>7 DEF StartAction, SkipAction, EndAction, Gate
  <2> QED
    BY <1>4, <2>1, <2>2
<1>8. CASE LogResult(r) \/ EndAudit(r) \/ EndDirect(r) \/ NothingToRelease(r)
  <2>1. PICK from \in {"audit", "acting", "release"}, to \in {"audit", "release", "done"} : Moves(r, from, to)
    BY <1>8 DEF LogResult, EndAudit, EndDirect, NothingToRelease
  <2>2. UNCHANGED <<lockVars, locked>>
    BY <1>8 DEF LogResult, EndAudit, EndDirect, NothingToRelease
  <2> QED
    BY <1>4, <2>1, <2>2
<1>9. CASE AuditFails(r) \/ Escape(r)
  <2>1. PICK from \in {"audit", "discover", "drift", "preflight", "acting", "gate"},
             to \in {"audit", "crashed"} : Moves(r, from, to)
    BY <1>9 DEF AuditFails, Escape
  <2>2. UNCHANGED <<lockVars, locked>>
    BY <1>9 DEF AuditFails, Escape
  <2> QED
    BY <1>4, <2>1, <2>2
<1> QED
  BY <1>2, <1>3, <1>5, <1>6, <1>7, <1>8, <1>9 DEF RunStep, GraphStep

\* Every step keeps calls in their places.
LEMMA StepCallsInPlace ==
  ASSUME LockTypeOK, RunTypeOK, CallsInPlace, [Next]_vars
  PROVE  CallsInPlace'
<1>1. ASSUME NEW r \in Runs,
             \/ Dispatch(r) \/ Begin(r) \/ AuditFails(r) \/ Escape(r)
             \/ RunStep(r) /\ ~LockStep(r)
      PROVE  CallsInPlace'
  BY <1>1, NodeStep DEF CallsInPlace
<1>2. ASSUME NEW r \in Runs, RunStep(r), LockStep(r) PROVE CallsInPlace'
  <2>1. InCall(r) /\ \A q \in Runs : q # r => call'[q] = call[q]
    BY <1>2, LockStepOwn
  <2>2. stage[r] \in {"locking", "releasing"}
    BY <2>1 DEF CallsInPlace, InCall, Idle
  <2>3. UNCHANGED stage
    <3>1. call[r].at \in MidCall /\ stage[r] \in {"locking", "releasing"}
      BY <2>1, <2>2 DEF InCall
    <3> QED
      BY <1>2, <3>1 DEF RunStep, GraphStep, AskForLock, Granted, Refused, LockRaised,
         Discover, CheckDrift, PlanActions, Preflight, StartAction, SkipAction, EndAction,
         Gate, LogResult, EndAudit, EndDirect, Release, NothingToRelease, Released
  <2> QED
    BY <2>1, <2>2, <2>3 DEF CallsInPlace
<1>3. ASSUME NEW r \in Runs, Die(r) PROVE CallsInPlace'
  BY <1>3 DEF Die, CallsInPlace
<1>4. CASE UNCHANGED vars \/ \E k \in Keys : Time(k)
  BY <1>4 DEF vars, Time, Expire, CallsInPlace
<1> QED
  BY <1>1, <1>2, <1>3, <1>4 DEF Next

\* Whoever asks under the name of a settled lock reads it, and is refused or, if it
\* wants to release, told that the lock is not its own.
LEMMA SettledReads ==
  ASSUME LockTypeOK, NEW q \in Runs, Settled(q), NEW r \in Runs, r # q, LockStep(r)
  PROVE  /\ file'[KeyOf(q)] = file[KeyOf(q)]
         /\ KeyOf(r) = KeyOf(q) => ~Committed(r)'
<1>1. CASE KeyOf(r) # KeyOf(q)
  BY <1>1, LockStepOwn
<1>2. CASE KeyOf(r) = KeyOf(q)
  <2> DEFINE f == file[KeyOf(r)]
  <2>1. /\ f # NoFile /\ f.by = q /\ f.full = TRUE /\ f.stale = FALSE
    BY <1>2, OwnLockFacts DEF Settled
  <2>2. ~Committed(r)
    BY <1>2 DEF Settled
  <2>3. ASSUME NEW s, GoesTo(r, s) PROVE call'[r].at = s
    BY <2>3 DEF GoesTo, LockTypeOK
  <2>4. CASE Look(r)
    BY <2>1, <2>3, <2>4 DEF Look, Committed
  <2>5. CASE Read(r)
    <3>1. UNCHANGED file /\ GoesTo(r, WithLock(r, f))
      BY <2>1, <2>5 DEF Read
    <3>2. WithLock(r, f) \in {"closed", "refused"}
      BY <2>1 DEF WithLock
    <3> QED
      BY <2>3, <3>1, <3>2 DEF Committed
  <2>6. CASE Open(r)
    <3>1. UNCHANGED file /\ call' = [call EXCEPT ![r] = [op |-> "retry", at |-> "look"]]
      BY <2>1, <2>6 DEF Open
    <3> QED
      BY <3>1 DEF Committed, LockTypeOK
  <2>7. ~(Purge(r) \/ Write(r) \/ Stage(r) \/ Replace(r) \/ Unlink(r))
    BY <2>2 DEF Purge, Write, Stage, Replace, Unlink, Committed
  <2> QED
    BY <2>4, <2>5, <2>6, <2>7 DEF LockStep
<1> QED
  BY <1>1, <1>2

\* A step of a run, its own or another's, and a settled lock.
LEMMA SettledStep ==
  ASSUME LockTypeOK, RunTypeOK, CallsInPlace, NEW q \in Runs \ Overruns, Settled(q),
         [Next]_vars, Working(q)'
  PROVE  Settled(q)'
<1> USE DEF LockTypeOK, RunTypeOK
<1>0. /\ Working(q) /\ file[KeyOf(q)] = OwnLock(q) /\ call[q] = Idle /\ KeyOf(q) \in Keys
      /\ \A r \in Runs \ {q} : KeyOf(r) = KeyOf(q) => ~Working(r) /\ ~Committed(r)
  BY DEF Settled, Working, CallsInPlace, KeyOf, Keys
<1>1. OwnLock(q)' = OwnLock(q) /\ \A r \in Runs : KeyOf(r)' = KeyOf(r)
  BY DEF OwnLock, KeyOf
<1>2. ASSUME NEW r \in Runs,
             \/ Dispatch(r) \/ Begin(r) \/ AuditFails(r) \/ Escape(r)
             \/ RunStep(r) /\ ~LockStep(r)
      PROVE  Settled(q)'
  <2>1. /\ UNCHANGED file
        /\ \A p \in Runs : p # r =>
             stage'[p] = stage[p] /\ call'[p] = call[p] /\ locked'[p] = locked[p]
        /\ Working(r)' => Working(r) \/ At(r, "granted")
        /\ Committed(r)' => Committed(r)
    BY <1>2, NodeStep
  <2>2. ASSUME NEW p \in Runs \ {q}, KeyOf(p) = KeyOf(q)
        PROVE  ~Working(p)' /\ ~Committed(p)'
    <3>1. ~Working(p) /\ ~Committed(p)
      BY <1>0, <2>2
    <3>2. CASE p = r
      BY <2>1, <3>1, <3>2 DEF Committed
    <3>3. CASE p # r
      BY <2>1, <3>1, <3>3 DEF Working, Committed
    <3> QED
      BY <3>2, <3>3
  <2> QED
    BY <1>0, <1>1, <2>1, <2>2 DEF Settled
<1>3. ASSUME NEW r \in Runs, RunStep(r), LockStep(r) PROVE Settled(q)'
  <2>1. InCall(r) /\ \A p \in Runs : p # r => call'[p] = call[p]
    BY <1>3, LockStepOwn
  <2>2. r # q
    BY <1>0, <2>1 DEF InCall, Idle
  <2>3. /\ file'[KeyOf(q)] = file[KeyOf(q)]
        /\ KeyOf(r) = KeyOf(q) => ~Committed(r)'
    BY <1>3, <2>2, SettledReads
  <2>4. UNCHANGED <<stage, locked>>
    <3>1. call[r].at \in MidCall /\ stage[r] \in {"locking", "releasing"}
      BY <2>1 DEF InCall, CallsInPlace, Idle
    <3> QED
      BY <1>3, <3>1 DEF RunStep, GraphStep, AskForLock, Granted, Refused, LockRaised,
         Discover, CheckDrift, PlanActions, Preflight, StartAction, SkipAction, EndAction,
         Gate, LogResult, EndAudit, EndDirect, Release, NothingToRelease, Released
  <2>5. ASSUME NEW p \in Runs \ {q}, KeyOf(p) = KeyOf(q)
        PROVE  ~Working(p)' /\ ~Committed(p)'
    <3>1. ~Working(p)'
      BY <1>0, <2>4, <2>5 DEF Working
    <3>2. CASE p = r
      BY <2>3, <2>5, <3>1, <3>2
    <3>3. CASE p # r
      BY <1>0, <2>1, <2>5, <3>1, <3>3 DEF Committed
    <3> QED
      BY <3>2, <3>3
  <2> QED
    BY <1>0, <1>1, <2>3, <2>5 DEF Settled
<1>4. ASSUME NEW r \in Runs, Die(r) PROVE Settled(q)'
  <2>1. ASSUME NEW p \in Runs
        PROVE  /\ stage'[p] \in {stage[p], "crashed"} /\ locked'[p] = locked[p]
               /\ call'[p] \in {call[p], Idle}
    BY <1>4 DEF Die
  <2>2. UNCHANGED file
    BY <1>4 DEF Die
  <2>3. ASSUME NEW p \in Runs \ {q}, KeyOf(p) = KeyOf(q)
        PROVE  ~Working(p)' /\ ~Committed(p)'
    <3>1. ~Working(p) /\ ~Committed(p)
      BY <1>0, <2>3
    <3>2. ~Working(p)'
      BY <2>1, <3>1 DEF Working
    <3>3. ~Committed(p)'
      <4>1. CASE call'[p] = call[p]
        BY <3>1, <4>1 DEF Committed
      <4>2. CASE call'[p] = Idle
        BY <4>2 DEF Committed, Idle
      <4> QED
        BY <2>1, <4>1, <4>2
    <3> QED
      BY <3>2, <3>3
  <2> QED
    BY <1>0, <1>1, <2>2, <2>3 DEF Settled
<1>5. ASSUME NEW k \in Keys, Time(k) PROVE Settled(q)'
  <2>1. k # KeyOf(q)
    <3>1. OwnLock(q).by = q /\ stage[q] \notin Ended /\ q \notin Overruns
      BY <1>0, OwnLockFacts DEF Working
    <3> QED
      BY <1>0, <1>5, <3>1 DEF Time
  <2>2. file'[KeyOf(q)] = file[KeyOf(q)] /\ UNCHANGED <<call, stage, locked>>
    BY <1>0, <1>5, <2>1 DEF Time, Expire
  <2> QED
    BY <1>0, <1>1, <2>2 DEF Settled, Working, Committed
<1>6. CASE UNCHANGED vars
  BY <1>0, <1>1, <1>6 DEF vars, Settled, Working, Committed
<1> QED
  BY <1>2, <1>3, <1>4, <1>5, <1>6 DEF Next

\* Processes exclude each other once a lock has settled: with any number of runs and
\* processes, whatever dies, nobody who asks from then on is granted the lock, and
\* nothing removes, replaces or takes over its file while its run works within the
\* TTL.  What vm_create finds needs a call that was under way when the file was made
\* (locking.py acquire, _read_lock, _write_lock_atomic, release).
THEOREM SettledLocksAreKept == Spec => SettledLocksStay
<1>1. Init => CallsInPlace
  BY InitCallsInPlace
<1>2. LockTypeOK /\ RunTypeOK /\ CallsInPlace /\ [Next]_vars => CallsInPlace'
  BY StepCallsInPlace
<1>3. LockTypeOK /\ RunTypeOK /\ CallsInPlace /\ [Next]_vars =>
        [\A q \in Runs \ Overruns : Settled(q) => Settled(q)' \/ ~Working(q)']_vars
  BY SettledStep
<1> QED
  BY <1>1, <1>2, <1>3, VmInvariant, PTL DEF Spec, SettledLocksStay

-----------------------------------------------------------------------------
(* The calls are atomic *)

\* What is held follows the files.
LEMMA HolderKept ==
  ASSUME UNCHANGED file
  PROVE  \A k \in Keys : Holder(k)' = Holder(k)
  BY DEF Holder, Fresh

\* Who is outside acquire has no answer to wait for.
LEMMA NoAnswer ==
  ASSUME NEW r \in Runs, stage[r] # "locking"
  PROVE  Answer(r) = "none"
  BY DEF Answer

\* A run that neither begins nor ends a call of acquire: it goes on, or it ends.
LEMMA QuietService ==
  ASSUME RunTypeOK, NEW r \in Runs, NEW from, NEW to, Moves(r, from, to), UNCHANGED file,
         \A q \in Runs : q # r => call'[q] = call[q],
         from \notin {"locking"} \cup Ended, to # "locking"
  PROVE  [Service!Next]_(Service!vars)
<1>1. /\ stage[r] = from /\ stage'[r] = to
      /\ \A q \in Runs : q # r => stage'[q] = stage[q]
  BY DEF RunTypeOK
<1>2. \A k \in Keys : Holder(k)' = Holder(k)
  BY HolderKept
<1>3. \A q \in Runs : Answer(q)' = Answer(q)
  BY <1>1 DEF Answer
<1>4. Answer(r) = "none"
  BY <1>1, NoAnswer
<1>5. CASE to \notin Ended
  <2>1. {q \in Runs : stage[q] \in Ended}' = {q \in Runs : stage[q] \in Ended}
    BY <1>1, <1>5
  <2> QED
    BY <1>2, <1>3, <2>1 DEF Service!vars
<1>6. CASE to \in Ended
  <2>1. {q \in Runs : stage[q] \in Ended}' = {q \in Runs : stage[q] \in Ended} \cup {r}
    BY <1>1, <1>6
  <2>2. Service!End({r})
    BY <1>2, <1>3, <1>4, <2>1 DEF Service!End
  <2> QED
    BY <2>2 DEF Service!Next
<1> QED
  BY <1>5, <1>6

\* A run asks for its lock, or goes on with the answer.
LEMMA AskService ==
  ASSUME OneProcess, RunTypeOK, LockTypeOK, Exclusion, NEW r \in Runs,
         AskForLock(r) \/ Granted(r) \/ Refused(r) \/ LockRaised(r)
  PROVE  [Service!Next]_(Service!vars)
<1> USE DEF RunTypeOK, LockTypeOK
<1>1. UNCHANGED file
  BY DEF AskForLock, Granted, Refused, LockRaised, StartCall
<1>2. \A k \in Keys : Holder(k)' = Holder(k)
  BY <1>1, HolderKept
<1>3. \A q \in Runs : q # r => stage'[q] = stage[q] /\ call'[q] = call[q]
  BY DEF AskForLock, Granted, Refused, LockRaised, StartCall
<1>4. \A q \in Runs : q # r => Answer(q)' = Answer(q)
  BY <1>3 DEF Answer
<1>5. CASE AskForLock(r)
  <2>1. stage[r] = "lock" /\ stage'[r] = "locking" /\ call'[r].at = "look"
    BY <1>5 DEF AskForLock, StartCall
  <2>2. Answer(r) = "none" /\ Answer(r)' = "asked"
    BY <2>1 DEF Answer
  <2>3. {q \in Runs : stage[q] \in Ended}' = {q \in Runs : stage[q] \in Ended}
    BY <1>3, <2>1
  <2>4. r \notin {q \in Runs : stage[q] \in Ended}
    BY <2>1
  <2>5. Service!Ask(r)
    BY <1>2, <1>4, <2>2, <2>3, <2>4 DEF Service!Ask, Service!Answers
  <2> QED
    BY <2>5 DEF Service!Next
<1>6. CASE Granted(r) \/ Refused(r)
  <2>1. /\ stage[r] = "locking" /\ call[r].at \in {"granted", "refused"}
        /\ stage'[r] \notin {"locking"} \cup Ended
    BY <1>6 DEF Granted, Refused, OneProcess
  <2>2. Answer(r) \in {"granted", "refused"} /\ Answer(r)' = "none"
    BY <2>1 DEF Answer
  <2>3. {q \in Runs : stage[q] \in Ended}' = {q \in Runs : stage[q] \in Ended}
    BY <1>3, <2>1
  <2>4. Service!Return(r)
    BY <1>2, <1>4, <2>2, <2>3 DEF Service!Return, Service!Answers
  <2> QED
    BY <2>4 DEF Service!Next
<1>7. CASE LockRaised(r)
  BY <1>7 DEF LockRaised, Exclusion, Sound, Seen
<1> QED
  BY <1>5, <1>6, <1>7

\* A file operation of acquire: the lock is taken when its text is in the file, and
\* found taken when it is read.
LEMMA AcquireService ==
  ASSUME LockTypeOK, RunTypeOK, Exclusion, Owners, NEW r \in Runs, stage[r] = "locking",
         LockStep(r), UNCHANGED <<stage, locked>>
  PROVE  [Service!Next]_(Service!vars)
<1> USE LockerAssumption DEF LockTypeOK, LockFile
<1> DEFINE k == KeyOf(r)
<1>0. k \in Keys
  BY DEF KeyOf, Keys
<1>1. Seen(r) /\ ~locked[r] /\ call[r].op = "acquire"
  BY DEF Exclusion, Sound, Seen
<1>2. \A q \in Runs : q # r => Answer(q)' = Answer(q)
  BY LockStepOwn DEF Answer
<1>3. {q \in Runs : stage[q] \in Ended}' = {q \in Runs : stage[q] \in Ended}
  OBVIOUS
<1>4. ASSUME NEW s, GoesTo(r, s)
      PROVE  /\ call'[r].at = s
             /\ Answer(r)' = IF s \in {"granted", "refused"} THEN s ELSE "asked"
  BY <1>4 DEF GoesTo, Answer
<1>5. call[r].at \notin {"granted", "refused"} /\ Answer(r) = "asked"
  BY DEF LockStep, Look, Read, Purge, Open, Write, Stage, Replace, Unlink, Answer
<1>6. ASSUME \A n \in Keys : Holder(n)' = Holder(n), Answer(r)' = "asked"
      PROVE  UNCHANGED Service!vars
  BY <1>2, <1>3, <1>5, <1>6 DEF Service!vars
<1>7. ASSUME Holder(k) = NoRun, Holder(k)' = r, Answer(r)' = "granted",
             \A n \in Keys : n # k => Holder(n)' = Holder(n)
      PROVE  Service!Next
  <2>1. Service!Grant(r)
    BY <1>0, <1>2, <1>3, <1>5, <1>7 DEF Service!Grant, Service!Answers
  <2> QED
    BY <2>1 DEF Service!Next
<1>8. CASE Look(r)
  <2>1. UNCHANGED file /\ Answer(r)' = "asked"
    BY <1>1, <1>4, <1>8 DEF Look, WithoutLock
  <2> QED
    BY <1>6, <2>1, HolderKept
<1>9. CASE Read(r)
  <2> DEFINE f == file[k]
  <2>1. UNCHANGED file /\ f # NoFile /\ GoesTo(r, IF f.full THEN WithLock(r, f) ELSE "purge")
    BY <1>1, <1>9 DEF Read, Seen
  <2>2. CASE f.full /\ ~f.stale
    <3>1. Answer(r)' = "refused"
      BY <1>1, <1>4, <2>1, <2>2 DEF WithLock
    <3>2. Holder(k) = f.by
      BY <2>1, <2>2 DEF Holder, Fresh
    <3>3. f.by # r
      <4>1. ~MayOwn(r)
        BY <1>9 DEF Read, MayOwn, Holds
      <4> QED
        BY <2>1, <4>1 DEF Owners, Owns
    <3>4. f.by \in Runs
      BY <1>0, <2>1
    <3>5. Service!Refuse(r)
      BY <1>0, <1>2, <1>3, <1>5, <2>1, <3>1, <3>2, <3>3, <3>4, HolderKept
         DEF Service!Refuse, Service!Answers
    <3> QED
      BY <3>5 DEF Service!Next
  <2>3. CASE ~(f.full /\ ~f.stale)
    <3>1. Answer(r)' = "asked"
      BY <1>1, <1>4, <2>1, <2>3 DEF WithLock
    <3> QED
      BY <1>6, <2>1, <3>1, HolderKept
  <2> QED
    BY <2>2, <2>3
<1>10. CASE Purge(r)
  <2>1. /\ file' = [file EXCEPT ![k] = NoFile] /\ ~file[k].full /\ Answer(r)' = "asked"
    BY <1>1, <1>4, <1>10 DEF Purge, Seen, WithoutLock
  <2>2. \A n \in Keys : Holder(n)' = Holder(n)
    BY <1>0, <2>1 DEF Holder, Fresh
  <2> QED
    BY <1>6, <2>1, <2>2
<1>11. CASE Open(r)
  <2> DEFINE e == [by |-> r, full |-> FALSE, stale |-> FALSE]
  <2>1. file[k] = NoFile /\ file' = [file EXCEPT ![k] = e] /\ Answer(r)' = "asked"
    BY <1>1, <1>4, <1>11 DEF Open, Seen
  <2>2. ~e.full
    OBVIOUS
  <2>3. \A n \in Keys : Holder(n)' = Holder(n)
    BY <1>0, <2>1, <2>2 DEF Holder, Fresh
  <2> QED
    BY <1>6, <2>1, <2>3
<1>12. CASE Write(r) \/ Replace(r)
  <2>1. Answer(r)' = "granted"
    <3>1. CASE Write(r)
      BY <1>4, <3>1 DEF Write
    <3>2. CASE Replace(r)
      <4>1. tmp[k] # NoRun
        BY <1>1, <3>2 DEF Replace, Seen
      <4> QED
        BY <1>4, <3>2, <4>1 DEF Replace
    <3> QED
      BY <1>12, <3>1, <3>2
  <2>2. file'[k] = OwnLock(r)
    <3>1. Sound(r)' /\ call'[r].at = "granted"
      <4>1. call'[r].at = "granted"
        BY <1>1, <1>4, <1>12 DEF Write, Replace, Seen
      <4> QED
        BY <4>1, AcquireStep
    <3> QED
      BY <3>1 DEF Sound, Holds, OwnLock
  <2>3. Holder(k)' = r
    BY <2>2, OwnLockFacts DEF Holder, Fresh
  <2>4. Holder(k) = NoRun
    <3>1. CASE Write(r)
      <4>1. file[k].full = FALSE
        BY <1>1, <3>1 DEF Write, Seen
      <4> QED
        BY <4>1 DEF Holder, Fresh
    <3>2. CASE Replace(r)
      BY <1>1, <3>2 DEF Replace, Seen, Holder, Fresh
    <3> QED
      BY <1>12, <3>1, <3>2
  <2>5. \A n \in Keys : n # k => file'[n] = file[n]
    BY <1>12 DEF Write, Replace
  <2>6. \A n \in Keys : n # k => Holder(n)' = Holder(n)
    BY <2>5 DEF Holder, Fresh
  <2> QED
    BY <1>7, <2>1, <2>3, <2>4, <2>6
<1>13. CASE Stage(r)
  <2>1. UNCHANGED file /\ Answer(r)' = "asked"
    BY <1>4, <1>13 DEF Stage
  <2> QED
    BY <1>6, <2>1, HolderKept
<1>14. CASE Unlink(r)
  BY <1>1, <1>14 DEF Unlink, Seen
<1> QED
  BY <1>8, <1>9, <1>10, <1>11, <1>12, <1>13, <1>14 DEF LockStep

\* A file operation of release: the lock is given back when its file goes.
LEMMA ReleaseService ==
  ASSUME LockTypeOK, RunTypeOK, Exclusion, NEW r \in Runs, stage[r] = "releasing",
         LockStep(r), UNCHANGED <<stage, locked>>
  PROVE  [Service!Next]_(Service!vars)
<1> USE LockerAssumption DEF LockTypeOK, LockFile
<1> DEFINE k == KeyOf(r)
<1>0. k \in Keys
  BY DEF KeyOf, Keys
<1>1. /\ call[r].op = "release" /\ call[r].at \in {"look", "read", "unlink", "closed"}
      /\ call[r].at # "closed" => file[k] = OwnLock(r)
  BY DEF Exclusion, Sound, Holds
<1>2. \A q \in Runs : Answer(q)' = Answer(q)
  BY LockStepOwn DEF Answer
<1>3. {q \in Runs : stage[q] \in Ended}' = {q \in Runs : stage[q] \in Ended}
  OBVIOUS
<1>4. CASE Look(r) \/ Read(r)
  <2>1. UNCHANGED file
    BY <1>4 DEF Look, Read
  <2> QED
    BY <1>2, <1>3, <2>1, HolderKept DEF Service!vars
<1>5. CASE Unlink(r)
  <2>1. /\ file[k] = OwnLock(r) /\ file' = [file EXCEPT ![k] = NoFile]
    BY <1>1, <1>5 DEF Unlink
  <2>2. Holder(k) = r
    BY <2>1, OwnLockFacts DEF Holder, Fresh
  <2>3. Holder(k)' = NoRun /\ \A n \in Keys : n # k => Holder(n)' = Holder(n)
    BY <1>0, <2>1 DEF Holder, Fresh
  <2>4. Answer(r) = "none" /\ r \notin {q \in Runs : stage[q] \in Ended}
    BY NoAnswer
  <2>5. Service!Release(r)
    BY <1>0, <1>2, <1>3, <2>2, <2>3, <2>4 DEF Service!Release
  <2> QED
    BY <2>5 DEF Service!Next
<1> QED
  BY <1>1, <1>4, <1>5 DEF LockStep, Purge, Open, Write, Stage, Replace

\* The process dies with all its runs.
LEMMA DieService ==
  ASSUME OneProcess, RunTypeOK, NEW r \in Runs, Die(r)
  PROVE  Service!Next
<1> DEFINE S == {q \in Runs : stage[q] \in Active}
<1>1. /\ UNCHANGED file
      /\ \A q \in Runs : stage'[q] = IF q \in S THEN "crashed" ELSE stage[q]
  BY DEF Die, OneProcess, RunTypeOK
<1>2. \A k \in Keys : Holder(k)' = Holder(k)
  BY <1>1, HolderKept
<1>3. \A q \in Runs : Answer(q)' = "none" /\ (q \notin S => Answer(q) = "none")
  BY <1>1 DEF Answer
<1>4. {q \in Runs : stage[q] \in Ended}' = {q \in Runs : stage[q] \in Ended} \cup S
  BY <1>1
<1>5. Service!End(S)
  BY <1>2, <1>3, <1>4 DEF Service!End
<1>6. S \in SUBSET Runs
  OBVIOUS
<1>7. \E T \in SUBSET Runs : Service!End(T)
  BY <1>5, <1>6 DEF Service!End
<1> QED
  BY <1>7 DEF Service!Next

\* A lock lapses only when its run is over.
LEMMA TimeService ==
  ASSUME OneProcess, LockTypeOK, NEW k \in Keys, Time(k)
  PROVE  Service!Next
<1>1. /\ Fresh(k) /\ file[k].by \in Runs /\ stage[file[k].by] \in Ended
      /\ file' = [file EXCEPT ![k] = [file[k] EXCEPT !.stale = TRUE]]
      /\ UNCHANGED <<call, stage>>
  BY LockerAssumption DEF Time, Expire, Fresh, OneProcess, LockTypeOK, LockFile
<1>2. Holder(k) = file[k].by
  BY <1>1 DEF Holder
<1>3. Holder(k)' = NoRun /\ \A n \in Keys : n # k => Holder(n)' = Holder(n)
  <2>1. file'[k].stale
    BY <1>1, LockerAssumption DEF LockTypeOK, LockFile, Fresh
  <2> QED
    BY <1>1, <2>1 DEF Holder, Fresh, LockTypeOK
<1>4. \A q \in Runs : Answer(q)' = Answer(q)
  BY <1>1 DEF Answer
<1>5. Service!Expire(k)
  BY <1>1, <1>2, <1>3, <1>4 DEF Service!Expire
<1> QED
  BY <1>5 DEF Service!Next

\* Every step is a step of the service, or none that it can see.
LEMMA StepService ==
  ASSUME OneProcess, LockTypeOK, RunTypeOK, Exclusion, Owners, [Next]_vars
  PROVE  [Service!Next]_(Service!vars)
<1> USE DEF LockTypeOK, RunTypeOK
<1>1. ASSUME NEW r \in Runs, Dispatch(r) \/ Begin(r) \/ AuditFails(r) \/ Escape(r)
      PROVE  [Service!Next]_(Service!vars)
  <2>1. PICK from \in {"new", "audit", "discover", "drift", "preflight", "acting", "gate"},
             to \in {"lock", "audit", "crashed"} : Moves(r, from, to)
    BY <1>1 DEF Dispatch, Begin, AuditFails, Escape
  <2>2. UNCHANGED lockVars
    BY <1>1 DEF Dispatch, Begin, AuditFails, Escape
  <2> QED
    BY <2>1, <2>2, QuietService
<1>2. ASSUME NEW r \in Runs, RunStep(r) PROVE [Service!Next]_(Service!vars)
  <2>1. CASE AskForLock(r) \/ Granted(r) \/ Refused(r) \/ LockRaised(r)
    BY <2>1, AskService
  <2>2. CASE Discover(r) \/ CheckDrift(r) \/ PlanActions(r) \/ Preflight(r)
    <3>1. PICK from \in {"discover", "drift", "planning", "preflight"},
               to \in OnVm \cup {"audit"} : Moves(r, from, to)
      BY <2>2 DEF Discover, CheckDrift, AfterDrift, PlanActions, Preflight
    <3>2. UNCHANGED lockVars
      BY <2>2 DEF Discover, CheckDrift, PlanActions, Preflight
    <3> QED
      BY <3>1, <3>2, QuietService
  <2>3. CASE StartAction(r) \/ SkipAction(r) \/ EndAction(r) \/ Gate(r)
    <3>1. PICK from \in {"dispatch", "acting", "gate"}, to \in OnVm \cup {"audit"} : Moves(r, from, to)
      BY <2>3 DEF StartAction, SkipAction, EndAction, Gate
    <3>2. UNCHANGED lockVars
      BY <2>3 DEF StartAction, SkipAction, EndAction, Gate
    <3> QED
      BY <3>1, <3>2, QuietService
  <2>4. CASE LogResult(r) \/ EndAudit(r) \/ EndDirect(r) \/ NothingToRelease(r)
    <3>1. PICK from \in {"audit", "acting", "release"}, to \in {"audit", "release", "done"} : Moves(r, from, to)
      BY <2>4 DEF LogResult, EndAudit, EndDirect, NothingToRelease
    <3>2. UNCHANGED lockVars
      BY <2>4 DEF LogResult, EndAudit, EndDirect, NothingToRelease
    <3> QED
      BY <3>1, <3>2, QuietService
  <2>5. CASE Release(r) \/ Released(r)
    <3>1. PICK from \in {"release", "releasing"}, to \in {"releasing", "done", "crashed"} : Moves(r, from, to)
      BY <2>5 DEF Release, Released
    <3>2. UNCHANGED file /\ \A q \in Runs : q # r => call'[q] = call[q]
      BY <2>5 DEF Release, Released, StartCall
    <3> QED
      BY <3>1, <3>2, QuietService
  <2>6. CASE LockStep(r) /\ UNCHANGED <<stage, runVars, workVars, logged, locked, error, faults>>
    <3>1. stage[r] \in {"locking", "releasing"}
      <4>1. call[r].at \in MidCall
        BY <2>6, LockStepOwn DEF InCall
      <4>2. call[r] # Idle
        BY <4>1 DEF Idle
      <4> QED
        BY <4>2 DEF Exclusion, Sound
    <3> QED
      BY <2>6, <3>1, AcquireService, ReleaseService
  <2> QED
    BY <1>2, <2>1, <2>2, <2>3, <2>4, <2>5, <2>6 DEF RunStep, GraphStep
<1>3. ASSUME NEW r \in Runs, Die(r) PROVE [Service!Next]_(Service!vars)
  BY <1>3, DieService
<1>4. ASSUME NEW k \in Keys, Time(k) PROVE [Service!Next]_(Service!vars)
  BY <1>4, TimeService
<1>5. CASE UNCHANGED vars
  BY <1>5 DEF vars, Service!vars, Holder, Fresh, Answer
<1> QED
  BY <1>1, <1>2, <1>3, <1>4, <1>5 DEF Next

LEMMA InitService == Init => Service!Init
  BY DEF Init, LockInit, Service!Init, Holder, Fresh, Answer

\* To the runs of one process the lock files are a lock whose calls take effect at one
\* moment: acquire is granted when the lock is free and refused while another holds
\* it, and the lock goes only with its release or, when its run is over, with its TTL.
\* This holds for any number of runs, plans and faults (locking.py).
THEOREM LocksImplementService ==
  ASSUME OneProcess
  PROVE  Spec => LocksAreAtomic
<1>1. Init => Exclusion /\ Owners
  BY InitExclusion DEF Init, LockInit, Owners, Owns, KeyOf, Keys
<1>2. LockTypeOK /\ RunTypeOK /\ PlanKept /\ Exclusion /\ Owners /\ [Next]_vars => Exclusion' /\ Owners'
  BY StepExclusion, OwnerStep
<1>3. LockTypeOK /\ RunTypeOK /\ Exclusion /\ Owners /\ [Next]_vars => [Service!Next]_(Service!vars)
  BY StepService
<1> QED
  BY <1>1, <1>2, <1>3, InitService, VmInvariant, PTL DEF Spec, LocksAreAtomic, Service!Spec
=============================================================================
