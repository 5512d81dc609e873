----------------------------- MODULE MCIngestion ------------------------------
(***************************************************************************)
(* Values of the constants of Ingestion for TLC.                           *)
(***************************************************************************)
EXTENDS Ingestion, TLC

CONSTANTS f1, f2, t1, t2

MCFiles == {f1, f2}
MCOneFile == {f1}
MCTasks2 == {t1, t2}
MCTasks1 == {t1}

Symmetry == Permutations(Files) \cup Permutations(Tasks)
===============================================================================
