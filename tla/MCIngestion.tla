---------------------------- MODULE MCIngestion -----------------------------
(* Small instance of Ingestion for TLC. *)
EXTENDS Ingestion, TLC

\* versions, jobs and workers are interchangeable
Symmetry == Permutations(Version) \cup Permutations(Job) \cup Permutations(Worker)
=============================================================================
