---------------------------- MODULE DockerHygiene ----------------------------
(***************************************************************************)
(* agent/subgraphs/docker_hygiene.py with its runner _run_docker_hygiene   *)
(* in agent/vm_graph.py, the form handler of web/ui.py and the remove      *)
(* wrapper of scripts/install-docker-wrappers-v2.sh.  The graph runs       *)
(* twice: once to assess, then, with the operator's approval in its state, *)
(* to assess again, compare the two assessments (gate 1) and hand the      *)
(* approved objects to the wrapper, which looks at each once more (gate 2) *)
(* before it removes it.  Left out, because nothing in the program leads   *)
(* there: execute_node in a dry run, since a dry run ends after the first  *)
(* assessment, and a plan that carries its approval with it.               *)
(***************************************************************************)
EXTENDS SubGraph, HygieneStore

CONSTANTS Objects,    \* the Docker objects on the VM
          ClassOf     \* object -> resource class

Classes == {"image_dangling", "image_unused", "container_stopped", "volume_unreferenced",
            "build_cache"}

ASSUME DockerAssumption == ClassOf \in [Objects -> Classes]

VARIABLES objects,     \* the VM: object -> condition
          assessment,  \* state["assessment"]: found object -> classification
          approval,    \* state["approval"]: its items, none before the decision
          hash,        \* the approval's snapshot_hash
          queue,       \* the wrapper's input lines still to come
          held,        \* the line past its gate, about to be removed; {} or a singleton
          said,        \* the wrapper's result lines: object -> removal status
          results,     \* removal_results: object -> removal status
          running,     \* the wrapper process is alive on the VM
          removed,     \* history: objects the wrapper removed
          admitted     \* history: object -> its condition when gate 2 let it through

gates == <<queue, held, said, running>>
past == <<removed, admitted>>
docker == <<row, late, objects, assessment, approval, hash, gates, results, past>>

\* clean: a dangling image, an old unused image, a container that exited with 0
\* long ago; recent: the same but young; dirty: a container killed with 137 or
\* 139; busy: tagged, referenced or running; gone: no longer there.  A volume or
\* the build cache is clean if the VM's settings make it a candidate, and recent
\* otherwise; the cache is one object, gone while nothing of it is reclaimable.
Conditions == {"clean", "recent", "dirty", "busy", "gone"}

ConditionsOf(class) == CASE class = "container_stopped" -> Conditions
                         [] class = "image_dangling" -> {"clean", "busy", "gone"}
                         [] class = "build_cache" -> {"clean", "recent", "gone"}
                         [] OTHER -> {"clean", "recent", "busy", "gone"}

Classification(c) == CASE c = "clean" -> "cleanup_candidate"
                       [] c = "recent" -> "report_only"
                       [] OTHER -> "investigate"

Classifications == {"cleanup_candidate", "report_only", "investigate"}

RemovalStatuses == {"removed", "drift_skipped", "skipped_not_found", "failed"}

\* The classes the form's handler collects.  Volumes and the build cache are
\* candidates for which it is asked, and part of the hash, but cannot be ticked.
Executable == {o \in Objects : ClassOf[o] \notin {"volume_unreferenced", "build_cache"}}

Candidates(a) == {o \in DOMAIN a : a[o] = "cleanup_candidate"}

\* What the assess wrapper lists.
Listed == {o \in Objects : objects[o] \in {"clean", "recent", "dirty"}}

\* One finding, with its classification, per line.
Found == [o \in Listed |-> Classification(objects[o])]

IsAssessment(a) == /\ DOMAIN a \subseteq Objects
                   /\ \A o \in DOMAIN a : a[o] \in Classifications

NoResults == [o \in {} |-> "failed"]

IsResult(r) == /\ DOMAIN r \subseteq Objects
               /\ \A o \in DOMAIN r : r[o] \in RemovalStatuses

DockerTypeOK == /\ objects \in [Objects -> Conditions]
                /\ IsAssessment(assessment)
                /\ approval \in SUBSET Objects
                /\ IsAssessment(hash)
                /\ queue \in SUBSET Objects
                /\ held \in SUBSET Objects
                /\ IsResult(said)
                /\ IsResult(results)
                /\ running \in BOOLEAN
                /\ removed \in SUBSET Objects
                /\ admitted \in [Objects -> Conditions]
                /\ row.status \in RowStatuses
                /\ IsAssessment(row.shows)
                /\ IsAssessment(row.hash)
                /\ row.items \in SUBSET Objects
                /\ late \in BOOLEAN

DockerInit == /\ StoreInit
              /\ objects = [o \in Objects |-> "gone"]
              /\ assessment = NoAssessment
              /\ approval = {}
              /\ hash = NoAssessment
              /\ queue = {}
              /\ held = {}
              /\ said = NoResults
              /\ results = NoResults
              /\ running = FALSE
              /\ removed = {}
              /\ admitted = [o \in Objects |-> "gone"]

\* The VM as the run finds it.
BeginDocker ==
  /\ Enter("docker_hygiene", "validate")
  /\ objects' \in {c \in [Objects -> Conditions] :
                     \A o \in Objects : c[o] \in ConditionsOf(ClassOf[o])}
  /\ UNCHANGED <<store, assessment, approval, hash, gates, results, past>>

\* A mode other than wrapper, or no Docker on the VM, ends the run.
ValidateDocker == /\ At("docker_hygiene", "validate")
                  /\ \/ Goes("assess", "pending")
                     \/ approval = {} /\ Goes("end", "skipped")
                  /\ UNCHANGED docker

\* The runner stops after the first pass when there is nothing to ask for; the
\* graph has set no final status then and the run reports "pending".
RouteAssessed(a) == CASE approval # {} -> "execute"
                      [] Candidates(a) # {} /\ ~dry -> "approval"
                      [] OTHER -> "end"

\* The wrapper fails; the daemon is unreachable or there is nothing; findings.
AssessDocker ==
  /\ At("docker_hygiene", "assess")
  /\ \/ Goes("end", "failed") /\ UNCHANGED assessment
     \/ Goes("end", "skipped") /\ assessment' = NoAssessment
     \/ /\ DOMAIN Found # {}
        /\ assessment' = Found
        /\ Goes(RouteAssessed(Found), status)
     \/ Raises(FALSE) /\ UNCHANGED assessment
  /\ UNCHANGED <<store, objects, approval, hash, gates, results, past>>

\* Without a manager the run is skipped; otherwise the row is created.
Register == /\ At("docker_hygiene", "approval")
            /\ row.status = "none"
            /\ \/ Create(assessment) /\ Goes("approval", status)
               \/ Goes("end", "skipped") /\ row' = row
            /\ UNCHANGED <<late, objects, assessment, approval, hash, gates, results, past>>

\* POST /ui/docker-hygiene/approve: the hash is taken from the row's assessment
\* when the form comes in; any finding of an executable class can be ticked.
OperatorDecides ==
  /\ \/ \E items \in SUBSET (DOMAIN row.shows \cap Executable) :
          Decide("approved", items, row.shows)
     \/ Decide("rejected", {}, row.shows)
  /\ UNCHANGED <<late, objects, assessment, approval, hash, gates, results, past>>
  /\ UNCHANGED run

\* wait_for_decision reads the row every two seconds.
Polls == /\ At("docker_hygiene", "approval")
         /\ row.status # "none"
         /\ UNCHANGED <<run, docker>>

\* wait_for_decision gives up, and the runner with it.
WaitTimesOut == /\ At("docker_hygiene", "approval")
                /\ MarkTimeout
                /\ Goes("end", "skipped")
                /\ UNCHANGED <<late, objects, assessment, approval, hash, gates, results, past>>

ReconcilerExpires == /\ MarkTimeout
                     /\ UNCHANGED <<late, objects, assessment, approval, hash, gates,
                                    results, past>>
                     /\ UNCHANGED run

ClockRuns == /\ TimePasses
             /\ UNCHANGED <<objects, assessment, approval, hash, gates, results, past>>
             /\ UNCHANGED run

\* The approval a decided row stands for: what was ticked, and the hash.
Approve == approval' = row.items /\ hash' = row.hash

\* A plausible mistake: the poll does not know the status the reconciler sets.
FaultyTakeDecision ==
  /\ At("docker_hygiene", "approval")
  /\ row.status \in {"approved", "rejected"}
  /\ IF row.items = {}
     THEN Goes("end", "skipped") /\ UNCHANGED <<approval, hash>>
     ELSE Approve /\ Goes("validate", status)
  /\ UNCHANGED <<store, objects, assessment, gates, results, past>>
\* A decided row wakes the runner: timed out, rejected, or approved with nothing
\* ticked, the run is over; else the graph is invoked again with the approval.
TakeDecision ==
  /\ At("docker_hygiene", "approval")
  /\ IsDecided
  /\ IF row.status = "timeout" \/ row.items = {}
     THEN Goes("end", "skipped") /\ UNCHANGED <<approval, hash>>
     ELSE Approve /\ Goes("validate", status)
  /\ UNCHANGED <<store, objects, assessment, gates, results, past>>

\* A plausible mistake: the hash leaves the classification out.
FaultyGateOne == DOMAIN hash = DOMAIN assessment
\* Gate 1: the second assessment is the one the operator saw.
GateOne == hash = assessment

RefuseDrift == /\ ~GateOne
               /\ Goes("end", "skipped")
               /\ UNCHANGED docker

\* The wrapper is started with one line per approved object, exits at once
\* because the daemon is down, or is never reached.
Launch == /\ GateOne
          /\ ~touched
          /\ \/ /\ Acts("execute", status)
                /\ queue' = approval
                /\ running' = TRUE
             \/ Goes("end", "failed") /\ UNCHANGED <<queue, running>>
             \/ Raises(FALSE) /\ UNCHANGED <<queue, running>>
          /\ UNCHANGED <<store, objects, assessment, approval, hash, held, said, results, past>>

\* A plausible mistake: the container branch looks at the state alone.
FaultyPasses(o) == objects[o] \in {"clean", "recent", "dirty"}
\* Gate 2.  A container approved as a clean exit must not have failed since.  A
\* container that names its image by tag does not show up in the reference check.
Passes(o) == CASE ClassOf[o] = "container_stopped" ->
                    \/ objects[o] \in {"clean", "recent"}
                    \/ objects[o] = "dirty" /\ hash[o] # "cleanup_candidate"
               [] ClassOf[o] = "image_unused" -> objects[o] # "gone"
               [] OTHER -> objects[o] \in {"clean", "recent"}

Skips(o) == ~Passes(o) \/ (ClassOf[o] = "image_unused" /\ objects[o] = "busy")

\* What is gone is not found, but a volume or the cache counts as drifted.
SkipResult(o) == IF objects[o] = "gone" /\ o \in Executable
                   THEN "skipped_not_found" ELSE "drift_skipped"

NowSaid(o, result) == [x \in DOMAIN said \cup {o} |-> IF x = o THEN result ELSE said[x]]

\* The wrapper takes its next line and looks at the object.
GateTwo(o) ==
  /\ running
  /\ held = {}
  /\ o \in queue
  /\ queue' = queue \ {o}
  /\ \/ /\ Passes(o)
        /\ held' = {o}
        /\ admitted' = [admitted EXCEPT ![o] = objects[o]]
        /\ said' = said
     \/ /\ Skips(o)
        /\ said' = NowSaid(o, SkipResult(o))
        /\ UNCHANGED <<held, admitted>>
  /\ UNCHANGED <<store, objects, assessment, approval, hash, running, results, removed>>
  /\ UNCHANGED run

\* docker rm, rmi and volume rm, without force: they refuse what is running or
\* referenced, but rmi takes an image that was tagged after the gate.  A prune of
\* the build cache succeeds in any case.
Yields(o) == \/ objects[o] \in {"clean", "recent", "dirty"}
             \/ objects[o] = "busy" /\ ClassOf[o] = "image_dangling"
             \/ ClassOf[o] = "build_cache"

\* The retry that fetches the error text may succeed and still count as failed.
RemoveHeld(o) ==
  /\ running
  /\ held = {o}
  /\ held' = {}
  /\ \/ /\ Yields(o)
        /\ objects' = [objects EXCEPT ![o] = "gone"]
        /\ removed' = removed \cup {o}
        /\ \E result \in {"removed", "failed"} : said' = NowSaid(o, result)
     \/ /\ said' = NowSaid(o, "failed")
        /\ UNCHANGED <<objects, removed>>
  /\ UNCHANGED <<store, assessment, approval, hash, queue, running, results, admitted>>
  /\ UNCHANGED run

\* A plausible mistake: results are recorded for the lines that could be read only.
FaultyParsed(readable) == [o \in readable |-> said[o]]
\* parse_remove_v2_output: an approved object without a readable line has failed.
Parsed(readable) == [o \in approval |-> IF o \in readable THEN said[o] ELSE "failed"]

Aggregate(r) == CASE \E o \in DOMAIN r : r[o] = "failed" -> "failed"
                  [] \A o \in DOMAIN r : r[o] \in {"drift_skipped", "skipped_not_found"} -> "skipped"
                  [] OTHER -> "success"

Waiting == At("docker_hygiene", "execute") /\ touched

\* The wrapper is through its input and exits 0.
WrapperExits ==
  /\ running
  /\ queue = {}
  /\ held = {}
  /\ running' = FALSE
  /\ IF Waiting
     THEN \E readable \in SUBSET DOMAIN said :
            /\ results' = Parsed(readable)
            /\ Goes("end", Aggregate(Parsed(readable)))
     ELSE UNCHANGED <<results, run>>
  /\ UNCHANGED <<store, objects, assessment, approval, hash, queue, held, said, past>>

\* It is killed on the way: its output is dropped with its exit code.
WrapperDies ==
  /\ running
  /\ running' = FALSE
  /\ IF Waiting THEN Goes("end", "failed") ELSE UNCHANGED run
  /\ UNCHANGED <<store, objects, assessment, approval, hash, queue, held, said, results, past>>

\* The SSH session is lost; the wrapper has its input and goes on by itself.
SessionLost == Waiting /\ running /\ Raises(TRUE) /\ UNCHANGED docker

ExecuteDocker == At("docker_hygiene", "execute") /\ (RefuseDrift \/ Launch \/ SessionLost)

WrapperStep == WrapperExits \/ WrapperDies \/ \E o \in Objects : GateTwo(o) \/ RemoveHeld(o)

DockerStep == \/ ValidateDocker \/ AssessDocker \/ Register \/ WaitTimesOut
              \/ TakeDecision \/ ExecuteDocker \/ WrapperStep

\* Users of the VM start, stop, tag, remove and, but for a container, restore
\* things.
SomeoneUsesDocker ==
  /\ Drifts("docker_hygiene")
  /\ \E o \in Objects : /\ objects[o] # "gone" \/ ClassOf[o] # "container_stopped"
                        /\ \E c \in ConditionsOf(ClassOf[o]) \ {objects[o]} :
                             objects' = [objects EXCEPT ![o] = c]
  /\ UNCHANGED <<store, assessment, approval, hash, gates, results, past>>

DockerOthers == \/ OperatorDecides \/ ReconcilerExpires \/ ClockRuns \/ Polls
                \/ SomeoneUsesDocker

\* docker_hygiene.py:563 and the wrapper's header call the two gates invariants.
\* An object is removed only if the operator ticked it, on a decision that still
\* stands, the VM was found as he saw it when the graph came back, and the
\* wrapper itself saw it removable: no container that was running, nor one that
\* has failed since it was approved as a clean exit, no image with a tag again.
OnlyApprovedAreRemoved ==
  \A o \in removed :
    /\ row.status = "approved"
    /\ o \in row.items
    /\ assessment = row.shows
    /\ admitted[o] # "gone"
    /\ ClassOf[o] # "image_unused" => admitted[o] # "busy"
    /\ row.shows[o] = "cleanup_candidate" => admitted[o] # "dirty"

\* docker_hygiene.py:715: N outcomes for N approved objects.  It holds when the
\* wrapper exits 0: every approved object has one, nothing is called removed that
\* was not, nothing removed is called skipped, and success means something went
\* and nothing failed.  A removal without an outcome is possible, after a killed
\* wrapper or a lost session, but the run then reports FAILED.
RemovalsAreAccounted ==
  Ended("docker_hygiene") =>
    /\ results # NoResults => DOMAIN results = approval
    /\ \A o \in DOMAIN results : results[o] = "removed" => o \in removed
    /\ \A o \in removed \cap DOMAIN results : results[o] \in {"removed", "failed"}
    /\ ~(removed \subseteq DOMAIN results) => status = "failed"
    /\ status = "success" => removed # {} /\ \A o \in DOMAIN results : results[o] # "failed"
    /\ touched => ~dry /\ status \in {"success", "failed", "skipped"}
=============================================================================
