-------------------------- MODULE MCTicketPipeline --------------------------
(***************************************************************************)
(* The pipeline for TLC.  One ticket shows every property: no action of    *)
(* one ticket reads the row or the files of another, tickets only compete  *)
(* for the worker's attention and for the runner's slots.                  *)
(***************************************************************************)
EXTENDS TicketPipeline, TLC

\* Threads have no identity but their name.
ThreadSymmetry == Permutations(RunIds)

=============================================================================
