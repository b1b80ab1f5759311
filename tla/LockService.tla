---------------------------- MODULE LockService ----------------------------
(***************************************************************************)
(* What the locker promises those who use it: every call of acquire takes  *)
(* effect at one moment, at which the lock is free and now the caller's,   *)
(* or another's and stays that; and a lock goes only when its holder gives *)
(* it back, or with its TTL after the holder is over.                      *)
(* VmRuns is shown to implement this for the runs of one process.          *)
(***************************************************************************)
CONSTANTS Names, Users, NoUser,
          NameOf          \* the name under which a user locks

VARIABLES
  holder,         \* holder[n]: whose lock is in force under the name n
  answer,         \* answer[u]: "none", "asked", "granted" or "refused"
  over            \* the users that are over, at their end or cut short

vars == <<holder, answer, over>>

Init ==
  /\ holder = [n \in Names |-> NoUser]
  /\ answer = [u \in Users |-> "none"]
  /\ over = {}

Answers(u, before, after) ==
  /\ answer[u] = before
  /\ answer' = [answer EXCEPT ![u] = after]

Ask(u) ==
  /\ u \notin over
  /\ Answers(u, "none", "asked")
  /\ UNCHANGED <<holder, over>>

Grant(u) ==
  /\ holder[NameOf[u]] = NoUser
  /\ holder' = [holder EXCEPT ![NameOf[u]] = u]
  /\ Answers(u, "asked", "granted")
  /\ UNCHANGED over

Refuse(u) ==
  /\ holder[NameOf[u]] \notin {NoUser, u}
  /\ Answers(u, "asked", "refused")
  /\ UNCHANGED <<holder, over>>

\* The user goes on, knowing the answer.
Return(u) ==
  /\ Answers(u, "granted", "none") \/ Answers(u, "refused", "none")
  /\ UNCHANGED <<holder, over>>

Release(u) ==
  /\ u \notin over
  /\ answer[u] = "none" /\ holder[NameOf[u]] = u
  /\ holder' = [holder EXCEPT ![NameOf[u]] = NoUser]
  /\ UNCHANGED <<answer, over>>

\* A user ends, or a process dies with all of its users.
End(S) ==
  /\ over' = over \cup S
  /\ answer' = [u \in Users |-> IF u \in S THEN "none" ELSE answer[u]]
  /\ UNCHANGED holder

Expire(n) ==
  /\ holder[n] \in over
  /\ holder' = [holder EXCEPT ![n] = NoUser]
  /\ UNCHANGED <<answer, over>>

Next ==
  \/ \E u \in Users : Ask(u) \/ Grant(u) \/ Refuse(u) \/ Return(u) \/ Release(u)
  \/ \E S \in SUBSET Users : End(S)
  \/ \E n \in Names : Expire(n)

Spec == Init /\ [][Next]_vars
=============================================================================
