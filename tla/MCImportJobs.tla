---------------------------- MODULE MCImportJobs ----------------------------
(* Small instances of ImportJobs for TLC. *)
EXTENDS ImportJobs, TLC

\* Workers are interchangeable, and so are jobs.
Symmetry == Permutations(Workers) \cup Permutations(Jobs)

=============================================================================
