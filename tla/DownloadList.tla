---------------------------- MODULE DownloadList ----------------------------
(* What downloadingFiles is to those who only look at it (the limit of       *)
(* concurrent downloads, the answers about a link, the cleaners): the links  *)
(* being downloaded and those whose download is over, without records,       *)
(* goroutines or mutex.  Admission and Downloads both implement it, one with *)
(* a download as a single step, the other with what happens inside it.       *)
CONSTANT Link

VARIABLES
    going,   \* links whose entry is being downloaded
    over     \* links whose entry is complete or has an error

listVars == <<going, over>>

Init == going = {} /\ over = {}

(* A link gets in when no entry has it, whatever state that one is in.       *)
Add(l) ==
    /\ l \notin going \cup over
    /\ going' = going \cup {l}
    /\ UNCHANGED over

(* A download ends once; its entry stays.                                    *)
End(l) ==
    /\ l \in going
    /\ going' = going \ {l}
    /\ over' = over \cup {l}

(* What is over is taken away all at once, and nothing else is.              *)
Reap ==
    /\ over' = {}
    /\ UNCHANGED going

(* A cancellation takes the entries of a name, a restart all of them.        *)
Drop ==
    \E links \in SUBSET (going \cup over) :
        /\ going' = going \ links
        /\ over' = over \ links

Next ==
    \/ \E l \in Link : Add(l) \/ End(l)
    \/ Reap
    \/ Drop

Spec == Init /\ [][Next]_listVars
=============================================================================
