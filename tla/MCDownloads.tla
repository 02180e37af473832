---------------------------- MODULE MCDownloads ----------------------------
(* Downloads on small instances: torrents that hold a file of the same name. *)
EXTENDS Downloads, TLC

CONSTANTS l1, l2, n1

SameName == [l \in Link |-> n1]
=============================================================================
