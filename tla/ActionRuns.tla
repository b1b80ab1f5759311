------------------------------ MODULE ActionRuns ------------------------------
(***************************************************************************)
(* One action of an approved plan on one VM, as agent/vm_graph.py runs it: *)
(* the runner of its type invokes the sub-graph, others use the VM in the  *)
(* meantime, and the result is what the VM graph appends to its results;   *)
(* or the observation nodes that come before the actions.                  *)
(***************************************************************************)
EXTENDS Patching, DockerHygiene, Housekeeping, Observation

vars == <<run, packages, docker, house, sight>>

Init == RunInit /\ PatchInit /\ DockerInit /\ HouseInit /\ SightInit

\* Each kind touches its own part of the state only.
PatchingMoves == /\ BeginPatching \/ PatchingStep \/ SomeoneUpdates
                 /\ UNCHANGED <<docker, house, sight>>

DockerMoves == /\ BeginDocker \/ DockerStep \/ DockerOthers
               /\ UNCHANGED <<packages, house, sight>>

HousekeepingMoves == /\ BeginHousekeeping \/ HousekeepingStep \/ HousekeepingOthers
                     /\ UNCHANGED <<packages, docker, sight>>

ObservationMoves == /\ BeginObservation \/ ObservationStep \/ SomeoneReconfigures
                    /\ UNCHANGED <<packages, docker, house>>

\* The action is over, and nothing it left behind is at work.
Rest == /\ kind # "none"
        /\ node = "end"
        /\ ~running
        /\ UNCHANGED vars

Next == PatchingMoves \/ DockerMoves \/ HousekeepingMoves \/ ObservationMoves \/ Rest

Spec == Init /\ [][Next]_vars

\* A node that can run does, since asyncio schedules it and every SSH command ends
\* by itself or by its timeout; the clock runs; the wrapper process is scheduled.
Fairness == /\ WF_vars(PatchingStep /\ UNCHANGED <<docker, house, sight>>)
            /\ WF_vars(HousekeepingStep /\ UNCHANGED <<packages, docker, sight>>)
            /\ WF_vars(ObservationStep /\ UNCHANGED <<packages, docker, house>>)
            /\ WF_vars(DockerStep /\ UNCHANGED <<packages, house, sight>>)
            /\ WF_vars(ClockRuns /\ UNCHANGED <<packages, house, sight>>)

FairSpec == Spec /\ Fairness

TypeOK == RunTypeOK /\ PatchTypeOK /\ DockerTypeOK /\ HouseTypeOK /\ SightTypeOK

\* An action that was begun comes to an end (a run never stays between begin and
\* end for good), whatever the VM answers, whoever
\* changes it, and whether or not an operator ever looks at the form: the VM graph
\* waits for it with the VM's lock held.
RunsEnd == []<>(kind = "none" \/ node = "end")
=============================================================================
