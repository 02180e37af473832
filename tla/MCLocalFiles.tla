---------------------------- MODULE MCLocalFiles ----------------------------
(* LocalFiles on a small instance.                                           *)
EXTENDS LocalFiles
=============================================================================
