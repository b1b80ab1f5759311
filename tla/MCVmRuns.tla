------------------------------ MODULE MCVmRuns ------------------------------
(***************************************************************************)
(* VmRuns on small instances: the plans that reach every branch of the     *)
(* dispatch loop, and the batches of one kind, which are interchangeable.  *)
(***************************************************************************)
EXTENDS VmRuns, TLC

\* No action, one action, and a cleanup that the disk gate looks at.
MCPlans == {<<>>, <<"backup_verify">>, <<"disk_cleanup", "patching">>}

\* Enough where the lock is the question: the dispatch loop is taken once or not.
MCShortPlans == {<<>>, <<"backup_verify">>}

BatchSymmetry == Permutations(AgentRuns \ DirectRuns)
=============================================================================
