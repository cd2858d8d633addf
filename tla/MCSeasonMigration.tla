------------------------- MODULE MCSeasonMigration -------------------------
(* SeasonMigration on a small instance: interchangeable workers.           *)
EXTENDS SeasonMigration, TLC

WorkerSymmetry == Permutations(Workers)
=============================================================================
