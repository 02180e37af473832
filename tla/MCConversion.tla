---------------------------- MODULE MCConversion ----------------------------
(* Conversion on a small instance.                                           *)
EXTENDS Conversion
=============================================================================
