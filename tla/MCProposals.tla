---------------------------- MODULE MCProposals ----------------------------
(***************************************************************************)
(* Proposals on a small instance: one action of one VM.                    *)
(***************************************************************************)
EXTENDS Proposals

MCKeyOf == [i \in Ids |-> "cleanup"]
MCVmOf  == [k \in Keys |-> "vm"]

\* Live with the action enabled, live without it, and a dry run.
MCSetups == {[dry |-> FALSE, enabled |-> {"cleanup"}], [dry |-> FALSE, enabled |-> {}],
             [dry |-> TRUE, enabled |-> {"cleanup"}]}
=============================================================================
