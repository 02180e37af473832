---------------------------- MODULE MCDiskSpace -----------------------------
(* DiskSpace on a small instance: two files, of different sizes, neither a   *)
(* whole number of megabytes.                                                *)
EXTENDS DiskSpace

CONSTANTS f1, f2
Sizes == (f1 :> 15) @@ (f2 :> 25)

(* The instance is one that UnusedFirst (DiskSpaceProofs) speaks of.         *)
ASSUME BytesEnd == BytesEndTheLoop
=============================================================================
