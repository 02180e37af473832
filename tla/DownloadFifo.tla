---------------------------- MODULE DownloadFifo ----------------------------
(* What the persistent download queue promises its callers, without mutex,   *)
(* batches, files or goroutines: items leave in the order they were          *)
(* accepted, each into one pair of hands, and a restart goes back to a       *)
(* snapshot of the waiting items.  DownloadQueue implements it.              *)
EXTENDS Naturals, Sequences

CONSTANT Item

VARIABLES
    waiting,   \* the accepted items nobody has taken
    inHand,    \* the items somebody is consuming
    issued,    \* every item ever accepted
    snapshot   \* what a restart goes back to

fifoVars == <<waiting, inHand, issued, snapshot>>

Init ==
    /\ waiting = <<>> /\ snapshot = <<>>
    /\ inHand = {} /\ issued = {}

Accept(t) ==
    /\ t \notin issued
    /\ waiting' = Append(waiting, t)
    /\ issued' = issued \cup {t}
    /\ UNCHANGED <<inHand, snapshot>>

Take ==
    /\ waiting # <<>>
    /\ Head(waiting) \notin inHand
    /\ waiting' = Tail(waiting)
    /\ inHand' = inHand \cup {Head(waiting)}
    /\ UNCHANGED <<issued, snapshot>>

Finish(t) ==
    /\ t \in inHand
    /\ inHand' = inHand \ {t}
    /\ UNCHANGED <<waiting, issued, snapshot>>

(* A snapshot is of this instant or, while it is being written, empty.       *)
Snapshot ==
    /\ snapshot' \in {waiting, <<>>}
    /\ UNCHANGED <<waiting, inHand, issued>>

Restart ==
    /\ waiting' \in {snapshot, <<>>}
    /\ inHand' = {}
    /\ UNCHANGED <<issued, snapshot>>

Next ==
    \/ \E t \in Item : Accept(t) \/ Finish(t)
    \/ Take
    \/ Snapshot
    \/ Restart

Spec == Init /\ [][Next]_fifoVars
=============================================================================
