---------------------------- MODULE MCAdmission ----------------------------
(* Admission on small instances: who asks for what differs from run to run.  *)
EXTENDS Admission, TLC

(* Only who is charged: users, and an administrator's bot that may not wait. *)
UserKinds == {[source |-> "user", now |-> now] : now \in BOOLEAN}
AllKinds == [source : {"user", "admin"}, now : BOOLEAN]

OneDocument == [l \in Link |-> "doc"]

ActorSymmetry ==
    Permutations(Requester) \cup Permutations(Worker) \cup Permutations(Watcher)
LinkSymmetry == ActorSymmetry \cup Permutations(Link)
=============================================================================
