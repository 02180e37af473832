-------------------------- MODULE MCDownloadQueue --------------------------
(* DownloadQueue on small instances.                                         *)
EXTENDS DownloadQueue, TLC

WorkerSymmetry == Permutations(Worker)
=============================================================================
