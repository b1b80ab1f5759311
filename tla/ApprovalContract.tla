------------------------- MODULE ApprovalContract -------------------------
(***************************************************************************)
(* What the approval machinery promises about a live batch, whoever works  *)
(* for it and whatever fails: it is requested, gets one final verdict, is  *)
(* taken by one executor only after an approval, and runs at most once.    *)
(* ApprovalPipeline is shown to implement this specification.              *)
(***************************************************************************)
EXTENDS Naturals

CONSTANT Batches

VARIABLES
  verdict,        \* verdict[b]: "none", "pending", "approved" or "refused"
  taken,          \* taken[b]: an executor has taken the approved batch
  runs            \* runs[b]: how often the batch was started

vars == <<verdict, taken, runs>>

Init ==
  /\ verdict = [b \in Batches |-> "none"]
  /\ taken   = [b \in Batches |-> FALSE]
  /\ runs    = [b \in Batches |-> 0]

Request(b) ==
  /\ verdict[b] = "none"
  /\ verdict' = [verdict EXCEPT ![b] = "pending"]
  /\ UNCHANGED <<taken, runs>>

Approve(b) ==
  /\ verdict[b] = "pending"
  /\ verdict' = [verdict EXCEPT ![b] = "approved"]
  /\ UNCHANGED <<taken, runs>>

\* A rejection refuses one request, an expiry pass several at once.
Refuse(S) ==
  /\ \A b \in S : verdict[b] = "pending"
  /\ verdict' = [b \in Batches |-> IF b \in S THEN "refused" ELSE verdict[b]]
  /\ UNCHANGED <<taken, runs>>

Take(b) ==
  /\ verdict[b] = "approved" /\ ~taken[b]
  /\ taken' = [taken EXCEPT ![b] = TRUE]
  /\ UNCHANGED <<verdict, runs>>

Run(b) ==
  /\ taken[b] /\ runs[b] = 0
  /\ runs' = [runs EXCEPT ![b] = 1]
  /\ UNCHANGED <<verdict, taken>>

Next ==
  \/ \E S \in SUBSET Batches : Refuse(S)
  \/ \E b \in Batches : Request(b) \/ Approve(b) \/ Take(b) \/ Run(b)

Spec == Init /\ [][Next]_vars
=============================================================================
