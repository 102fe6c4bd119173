-------------------------- MODULE MCBatchMigration --------------------------
(* Two nodes, which may meet in every action; two jobs, so that one can be *)
(* created after another has ended or been lost.                           *)
EXTENDS BatchMigration, TLC

CONSTANTS n1, n2, j1, j2

MCNodes == {n1, n2}
MCJobs == {j1, j2}
=============================================================================
