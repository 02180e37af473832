---------------------------- MODULE MCDocuments -----------------------------
(* Documents on a small instance: a link in two seasons of a serial and in   *)
(* another serial, two links in one season, and a movie.                     *)
EXTENDS Documents, TLC

CONSTANTS d1, d2, d3, l1, l2, l3, f1, f2, f3

Serial(d, s, l) == [doc |-> d, part |-> "serial", season |-> s, link |-> l]
Places == {Serial(d1, 1, l1), Serial(d1, 2, l1), Serial(d1, 1, l3), Serial(d2, 1, l1),
           [doc |-> d3, part |-> "movie", season |-> 1, link |-> l2]}
Types == (d1 :> "serial") @@ (d2 :> "serial") @@ (d3 :> "movie")
Names == (l1 :> f1) @@ (l2 :> f2) @@ (l3 :> f3)
=============================================================================
