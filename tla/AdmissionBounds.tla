-------------------------- MODULE AdmissionBounds ---------------------------
(* How far the checks of Admission can be overrun, for every set of handlers *)
(* and workers and every limit: the duplicates in the queue, the items of a  *)
(* user in it, and the leech quota.                                          *)
EXTENDS AdmissionProofs, FiniteSetTheorems

-----------------------------------------------------------------------------
(* How many positions of a sequence hold an element of a set, and what an    *)
(* append, a tail and a front without its last element do to that number.    *)
Positions(q, A) == {i \in 1 .. Len(q) : q[i] \in A}
Count(q, A) == Cardinality(Positions(q, A))

LEMMA CountType ==
  ASSUME NEW T, NEW q \in Seq(T), NEW A
  PROVE  IsFiniteSet(Positions(q, A)) /\ Count(q, A) \in Nat
<1>1. IsFiniteSet(1 .. Len(q))
  BY FS_Interval
<1>2. Positions(q, A) \in SUBSET (1 .. Len(q))
  BY DEF Positions
<1>3. IsFiniteSet(Positions(q, A))
  BY <1>1, <1>2, FS_Subset
<1>. QED
  BY <1>3, FS_CardinalityType DEF Count

LEMMA CountEmpty == \A A : Count(<<>>, A) = 0
<1>1. \A A : Positions(<<>>, A) = {}
  BY DEF Positions
<1>. QED
  BY <1>1, FS_EmptySet DEF Count

(* An element put at the end adds itself.                                    *)
LEMMA CountAppend ==
  ASSUME NEW T, NEW q \in Seq(T), NEW x \in T, NEW A
  PROVE  Count(Append(q, x), A) = Count(q, A) + (IF x \in A THEN 1 ELSE 0)
<1>1. IsFiniteSet(Positions(q, A)) /\ Count(q, A) \in Nat
  BY CountType
<1>2. Len(q) + 1 \notin Positions(q, A)
  BY DEF Positions
<1>3. CASE x \in A
  <2>1. Positions(Append(q, x), A) = Positions(q, A) \cup {Len(q) + 1}
    BY <1>3 DEF Positions
  <2>. QED
    BY <1>1, <1>2, <1>3, <2>1, FS_AddElement DEF Count
<1>4. CASE x \notin A
  <2>1. Positions(Append(q, x), A) = Positions(q, A)
    BY <1>4 DEF Positions
  <2>. QED
    BY <1>1, <1>4, <2>1 DEF Count
<1>. QED
  BY <1>3, <1>4

(* An element taken from the front takes itself: the others move by one.     *)
LEMMA CountTail ==
  ASSUME NEW T, NEW q \in Seq(T), q # <<>>, NEW A
  PROVE  Count(q, A) = Count(Tail(q), A) + (IF Head(q) \in A THEN 1 ELSE 0)
<1>. DEFINE S == Positions(Tail(q), A)
            R == Positions(q, A) \ {1}
            f == [i \in S |-> i + 1]
<1>1. IsFiniteSet(Positions(q, A)) /\ Count(q, A) \in Nat
  BY CountType
<1>2. Len(q) \in Nat \ {0} /\ Len(Tail(q)) = Len(q) - 1
  OBVIOUS
<1>3. \A i \in 1 .. Len(Tail(q)) : Tail(q)[i] = q[i + 1]
  OBVIOUS
<1>4. f \in Bijection(S, R)
  <2>1. \A i \in S : i + 1 \in R
    BY <1>2, <1>3 DEF Positions
  <2>2. \A j \in R : j - 1 \in S /\ (j - 1) + 1 = j
    BY <1>2, <1>3 DEF Positions
  <2>3. f \in [S -> R]
    BY <2>1
  <2>4. f \in Injection(S, R)
    BY <2>3 DEF Injection, IsInjective, Positions
  <2>5. f \in Surjection(S, R)
    BY <2>2, <2>3 DEF Surjection
  <2>. QED
    BY <2>4, <2>5 DEF Bijection
<1>5. IsFiniteSet(R) /\ Cardinality(R) = Cardinality(S)
  <2>1. Tail(q) \in Seq(T)
    OBVIOUS
  <2>2. IsFiniteSet(S)
    BY <2>1, CountType
  <2>3. ExistsBijection(S, R)
    BY <1>4 DEF ExistsBijection
  <2>. QED
    BY <2>2, <2>3, FS_Bijection
<1>6. 1 \in Positions(q, A) <=> Head(q) \in A
  BY <1>2 DEF Positions
<1>7. Cardinality(R) = IF Head(q) \in A THEN Count(q, A) - 1 ELSE Count(q, A)
  BY <1>1, <1>6, FS_RemoveElement DEF Count
<1>. QED
  BY <1>1, <1>5, <1>7 DEF Count

(* Without its last element a sequence holds at most one less.               *)
LEMMA CountFront ==
  ASSUME NEW T, NEW q \in Seq(T), NEW A
  PROVE  Count(q, A) <= Count(SubSeq(q, 1, Len(q) - 1), A) + 1
<1>. DEFINE p == SubSeq(q, 1, Len(q) - 1)
            P == Positions(p, A)
<1>1. p \in Seq(T)
  OBVIOUS
<1>2. IsFiniteSet(P) /\ Count(p, A) \in Nat
  BY <1>1, CountType
<1>3. Positions(q, A) \in SUBSET (P \cup {Len(q)})
  <2>1. \A i \in 1 .. Len(q) : i # Len(q) => i \in 1 .. Len(p) /\ p[i] = q[i]
    OBVIOUS
  <2>. QED
    BY <2>1 DEF Positions
<1>4. IsFiniteSet(P \cup {Len(q)}) /\ Cardinality(P \cup {Len(q)}) <= Count(p, A) + 1
  <2>1. /\ IsFiniteSet(P \cup {Len(q)})
        /\ Cardinality(P \cup {Len(q)}) =
             IF Len(q) \in P THEN Cardinality(P) ELSE Cardinality(P) + 1
    BY <1>2, FS_AddElement
  <2>2. Cardinality(P) = Count(p, A)
    BY DEF Count
  <2>. HIDE DEF P, p
  <2>. QED
    BY <1>2, <2>1, <2>2
<1>5. Cardinality(Positions(q, A)) <= Cardinality(P \cup {Len(q)})
  BY <1>3, <1>4, FS_Subset
<1>6. Count(q, A) \in Nat
  BY CountType
<1>7. Cardinality(P \cup {Len(q)}) \in Nat
  BY <1>4, FS_CardinalityType
<1>. QED
  BY <1>2, <1>4, <1>5, <1>6, <1>7 DEF Count

USE ActorAssumption, LimitAssumption, KindAssumption, NameAssumption

-----------------------------------------------------------------------------
(* Counting.                                                                 *)

OfLink(l) == {it \in Item : it.link = l}
OfUser(u) == {it \in Item : it.user = u}

LEMMA CopiesCount ==
  ASSUME NEW q \in Seq(Item), NEW l
  PROVE  Cardinality({i \in 1 .. Len(q) : q[i].link = l}) = Count(q, OfLink(l))
<1>1. \A i \in 1 .. Len(q) : q[i] \in Item
  OBVIOUS
<1>2. {i \in 1 .. Len(q) : q[i].link = l} = Positions(q, OfLink(l))
  BY <1>1 DEF Positions, OfLink
<1>. QED
  BY <1>2 DEF Count

LEMMA ItemsCount ==
  ASSUME NEW q \in Seq(Item), NEW u
  PROVE  Cardinality(ItemsOf(q, u)) = Count(q, OfUser(u))
<1>1. \A i \in 1 .. Len(q) : q[i] \in Item
  OBVIOUS
<1>2. ItemsOf(q, u) = Positions(q, OfUser(u))
  BY <1>1 DEF Positions, OfUser, ItemsOf
<1>. QED
  BY <1>2 DEF Count

One(b) == IF b THEN 1 ELSE 0

(* Two finite sets that differ by one element at most.                       *)
LEMMA OneApart ==
  ASSUME NEW S, NEW T, NEW o, IsFiniteSet(S), S \ {o} = T \ {o}
  PROVE  /\ IsFiniteSet(T)
         /\ Cardinality(S) \in Nat /\ Cardinality(T) \in Nat
         /\ Cardinality(T) + One(o \in S) = Cardinality(S) + One(o \in T)
<1>. DEFINE R == S \ {o}
<1>1. IsFiniteSet(R) /\ Cardinality(R) \in Nat /\ Cardinality(S) \in Nat
  BY FS_RemoveElement, FS_CardinalityType
<1>2. o \notin R
  OBVIOUS
<1>3. IsFiniteSet(R \cup {o}) /\ Cardinality(R \cup {o}) = Cardinality(R) + 1
  BY <1>1, <1>2, FS_AddElement
<1>4. ASSUME NEW X, X \ {o} = R
      PROVE  IsFiniteSet(X) /\ Cardinality(X) = Cardinality(R) + One(o \in X)
  <2>1. CASE o \in X
    <3>1. X = R \cup {o}
      BY <1>4, <2>1
    <3>. HIDE DEF R
    <3>. QED
      BY <1>3, <2>1, <3>1 DEF One
  <2>2. CASE o \notin X
    <3>1. X = R
      BY <1>4, <2>2
    <3>. HIDE DEF R
    <3>. QED
      BY <1>1, <2>2, <3>1 DEF One
  <2>. QED
    BY <2>1, <2>2
<1>5. Cardinality(S) = Cardinality(R) + One(o \in S)
  BY <1>4
<1>6. IsFiniteSet(T) /\ Cardinality(T) = Cardinality(R) + One(o \in T)
  BY <1>4
<1>. HIDE DEF R
<1>7. One(o \in S) \in Nat /\ One(o \in T) \in Nat
  BY DEF One
<1>. QED
  BY <1>1, <1>5, <1>6, <1>7

(* A part of a finite set.                                                   *)
LEMMA Part ==
  ASSUME NEW S, NEW T, IsFiniteSet(T), S \subseteq T
  PROVE  /\ IsFiniteSet(S) /\ Cardinality(S) \in Nat /\ Cardinality(T) \in Nat
         /\ Cardinality(S) <= Cardinality(T)
BY FS_Subset, FS_CardinalityType

LEMMA Crews ==
  /\ IsFiniteSet(Requester) /\ Cardinality(Requester) \in Nat
  /\ IsFiniteSet(Worker) /\ Cardinality(Worker) \in Nat
  /\ IsFiniteSet(Watcher) /\ Cardinality(Watcher) \in Nat
  /\ IsFiniteSet(Actor)
BY FS_CardinalityType, FS_Union DEF Actor, Downloader

(* A part of the union of two finite sets.                                   *)
LEMMA PartOfTwo ==
  ASSUME NEW S, NEW A, NEW B, IsFiniteSet(A), IsFiniteSet(B), S \subseteq A \cup B
  PROVE  /\ IsFiniteSet(S) /\ Cardinality(S) \in Nat
         /\ Cardinality(S) <= Cardinality(A) + Cardinality(B)
<1>1. /\ IsFiniteSet(A \cup B)
      /\ Cardinality(A \cup B) =
           Cardinality(A) + Cardinality(B) - Cardinality(A \cap B)
  BY FS_Union
<1>2. A \cap B \subseteq A
  OBVIOUS
<1>3. Cardinality(A \cap B) \in Nat /\ Cardinality(A) \in Nat /\ Cardinality(B) \in Nat
  BY <1>2, Part, FS_CardinalityType
<1>4. /\ IsFiniteSet(S) /\ Cardinality(S) \in Nat
      /\ Cardinality(S) <= Cardinality(A \cup B)
  BY <1>1, Part
<1>. QED
  BY <1>1, <1>3, <1>4
-----------------------------------------------------------------------------
(* The invariant: each check leaves room for what can overrun it, and what   *)
(* overruns it afterwards is already counted.                                *)

Queued(u) == Count(queue, OfUser(u))
WorkersWith(u) == {w \in Worker : job[w].user = u}
InHand(u) ==
  {o \in Actor : job[o].user = u /\ pc[o] \notin {"leach", "starting"}}

CopiesBound(l) ==
  Count(queue, OfLink(l)) + Cardinality(AboutToEnqueue(l)) + One(autoPick = l)
    <= Cardinality(Requester) + 1

QueueBound(u) ==
  Queued(u) + Cardinality(PastQueueLimit(u))
    <= UserEnqueueLimit + Cardinality(Requester)

(* A torn read of the queue needs an idle worker, which holds no item: with  *)
(* the workers' items counted in, the limit itself is overrun by one less.   *)
HandBound(u) ==
  Queued(u) + Cardinality(PastQueueLimit(u)) + Cardinality(WorkersWith(u))
    <= UserEnqueueLimit - 1 + Cardinality(Requester) + Cardinality(Worker)

ChargeBound(u) ==
  usage[u] + Queued(u) + Cardinality(InHand(u))
    <= LeachLimit - 1 + UserEnqueueLimit - 1
         + 2 * Cardinality(Requester) + Cardinality(Worker) + Cardinality(Watcher)

NowSkipsQueue ==
  \A r \in Requester :
      pc[r] \in {"admitted", "unlisted", "absent"} => ~job[r].now

UserBounds(u) == QueueBound(u) /\ HandBound(u) /\ ChargeBound(u)

BoundInv ==
  /\ \A l \in Link : CopiesBound(l)
  /\ \A u \in User : UserBounds(u)
  /\ NowSkipsQueue

(* When one actor moves, each crowd gains or loses that actor at most.       *)
Gains(S, T, o) ==
  /\ Cardinality(S) \in Nat /\ Cardinality(T) \in Nat
  /\ Cardinality(T) + One(o \in S) = Cardinality(S) + One(o \in T)

LEMMA Crowds ==
  ASSUME NEW o \in Actor, OnlyMoves(o), NEW l, NEW u
  PROVE  /\ Gains(AboutToEnqueue(l), AboutToEnqueue(l)', o)
         /\ Gains(PastQueueLimit(u), PastQueueLimit(u)', o)
         /\ Gains(WorkersWith(u), WorkersWith(u)', o)
         /\ Gains(InHand(u), InHand(u)', o)
<1>1. /\ AboutToEnqueue(l) \ {o} = AboutToEnqueue(l)' \ {o}
      /\ PastQueueLimit(u) \ {o} = PastQueueLimit(u)' \ {o}
      /\ WorkersWith(u) \ {o} = WorkersWith(u)' \ {o}
      /\ InHand(u) \ {o} = InHand(u)' \ {o}
  BY DEF OnlyMoves, Actor, Downloader, AboutToEnqueue, PastQueueLimit, WorkersWith,
         InHand
<1>2. /\ IsFiniteSet(AboutToEnqueue(l)) /\ IsFiniteSet(PastQueueLimit(u))
      /\ IsFiniteSet(WorkersWith(u)) /\ IsFiniteSet(InHand(u))
  <2>1. /\ AboutToEnqueue(l) \in SUBSET Requester
        /\ PastQueueLimit(u) \in SUBSET Requester
        /\ WorkersWith(u) \in SUBSET Worker /\ InHand(u) \in SUBSET Actor
    BY DEF AboutToEnqueue, PastQueueLimit, WorkersWith, InHand
  <2>. QED
    BY <2>1, Crews, FS_Subset
<1>. QED
  BY <1>1, <1>2, OneApart DEF Gains

(* A step after which no crowd has more, nor the queue.                      *)
NoLonger(A) ==
  /\ Count(queue, A) \in Nat /\ Count(queue', A) \in Nat
  /\ Count(queue', A) <= Count(queue, A)

LEMMA CopiesNoMore ==
  ASSUME NEW l, CopiesBound(l), NEW o \in Actor, OnlyMoves(o),
         NoLonger(OfLink(l)), autoPick' = l => autoPick = l,
         o \in AboutToEnqueue(l)' => o \in AboutToEnqueue(l)
  PROVE  CopiesBound(l)'
<1>1. Gains(AboutToEnqueue(l), AboutToEnqueue(l)', o)
  BY Crowds
<1>. QED
  BY <1>1, Crews DEF CopiesBound, NoLonger, Gains, One

LEMMA PlacesNoMore ==
  ASSUME NEW u, QueueBound(u), HandBound(u), NEW o \in Actor, OnlyMoves(o),
         NoLonger(OfUser(u)),
         o \in PastQueueLimit(u)' => o \in PastQueueLimit(u),
         o \in WorkersWith(u)' => o \in WorkersWith(u)
  PROVE  QueueBound(u)' /\ HandBound(u)'
<1>1. /\ Gains(PastQueueLimit(u), PastQueueLimit(u)', o)
      /\ Gains(WorkersWith(u), WorkersWith(u)', o)
  BY Crowds
<1>2. QueueBound(u)'
  BY <1>1, Crews DEF QueueBound, Queued, NoLonger, Gains, One
<1>3. HandBound(u)'
  BY <1>1, Crews DEF HandBound, Queued, NoLonger, Gains, One
<1>. QED
  BY <1>2, <1>3

LEMMA ChargeNoMore ==
  ASSUME NEW u \in User, ChargeBound(u), NEW o \in Actor, OnlyMoves(o),
         NoLonger(OfUser(u)), LinkTypeOK, UNCHANGED usage,
         o \in InHand(u)' => o \in InHand(u)
  PROVE  ChargeBound(u)'
<1>1. Gains(InHand(u), InHand(u)', o)
  BY Crowds
<1>2. usage[u] \in Nat /\ usage'[u] = usage[u]
  BY DEF LinkTypeOK
<1>. QED
  BY <1>1, <1>2, Crews DEF ChargeBound, Queued, NoLonger, Gains, One
-----------------------------------------------------------------------------
(* The queue.                                                                *)

LEMMA SameQueue ==
  ASSUME QueueTypeOK, UNCHANGED queue, NEW A
  PROVE  NoLonger(A)
BY CountType DEF QueueTypeOK, NoLonger

LEMMA AppendCount ==
  ASSUME QueueTypeOK, NEW x \in Item, queue' = Append(queue, x), NEW A
  PROVE  /\ Count(queue, A) \in Nat
         /\ Count(queue', A) = Count(queue, A) + One(x \in A)
BY CountType, CountAppend DEF QueueTypeOK, One

LEMMA TailCount ==
  ASSUME QueueTypeOK, queue # <<>>, queue' = Tail(queue), NEW A
  PROVE  /\ Count(queue, A) \in Nat /\ Count(queue', A) \in Nat
         /\ Count(queue, A) = Count(queue', A) + One(Head(queue) \in A)
<1>1. Tail(queue) \in Seq(Item)
  BY DEF QueueTypeOK
<1>. QED
  BY <1>1, CountType, CountTail DEF QueueTypeOK, One

(* Whatever the unlocked read of the queue gives, it hides one item at most, *)
(* and one only beside a worker that holds none.                             *)
LEMMA SeenCount ==
  ASSUME QueueTypeOK, NEW q \in SeenQueues, NEW u, WithinQueue(q, u)
  PROVE  /\ Queued(u) \in Nat
         /\ \/ Queued(u) <= UserEnqueueLimit - 1
            \/ /\ Queued(u) <= UserEnqueueLimit
               /\ \E w \in Worker : pc[w] = "idle"
<1>. DEFINE front == SubSeq(queue, 1, Len(queue) - 1)
<1>1. Queued(u) \in Nat
  BY CountType DEF QueueTypeOK, Queued
<1>2. CASE q = queue
  BY <1>1, <1>2, ItemsCount DEF WithinQueue, QueueTypeOK, Queued
<1>3. CASE q = front /\ \E w \in Worker : pc[w] = "idle"
  <2>1. front \in Seq(Item)
    BY DEF QueueTypeOK
  <2>2. Count(front, OfUser(u)) \in Nat
    BY <2>1, CountType
  <2>3. Count(front, OfUser(u)) < UserEnqueueLimit
    BY <1>3, <2>1, ItemsCount DEF WithinQueue
  <2>4. Queued(u) <= Count(front, OfUser(u)) + 1
    BY CountFront DEF QueueTypeOK, Queued
  <2>. HIDE DEF front
  <2>. QED
    BY <1>1, <1>3, <2>2, <2>3, <2>4
<1>. QED
  BY <1>2, <1>3 DEF SeenQueues
-----------------------------------------------------------------------------
(* The steps that make room for no one else.                                 *)

LEMMA NoMore ==
  ASSUME TypeOK, TypeOK', BoundInv, NEW o \in Actor, OnlyMoves(o),
         \A A : NoLonger(A), UNCHANGED <<autoPick, usage>>,
         \A l \in Link : o \in AboutToEnqueue(l)' => o \in AboutToEnqueue(l),
         \A u \in User : /\ o \in PastQueueLimit(u)' => o \in PastQueueLimit(u)
                         /\ o \in WorkersWith(u)' => o \in WorkersWith(u)
                         /\ o \in InHand(u)' => o \in InHand(u)
  PROVE  /\ \A l \in Link : CopiesBound(l)'
         /\ \A u \in User : UserBounds(u)'
<1>1. \A l \in Link : CopiesBound(l)'
  BY CopiesNoMore DEF BoundInv
<1>2. \A u \in User : UserBounds(u)'
  BY PlacesNoMore, ChargeNoMore DEF BoundInv, UserBounds, TypeOK
<1>. QED
  BY <1>1, <1>2

(* An actor that gives up its item.                                          *)
LEMMA LeaveBound ==
  ASSUME TypeOK, TypeOK', BoundInv, NEW o \in Actor, OnlyMoves(o), Leave(o),
         UNCHANGED <<queue, autoPick, usage>>
  PROVE  BoundInv'
<1>1. pc'[o] \in {"idle", "freed"} /\ job'[o] = NoItem
  BY DEF Leave, Goto, TypeOK, ActorTypeOK
<1>2. \A A : NoLonger(A)
  BY SameQueue DEF TypeOK
<1>3. \A l \in Link : o \notin AboutToEnqueue(l)'
  BY <1>1 DEF AboutToEnqueue
<1>4. \A u \in User : /\ o \notin PastQueueLimit(u)'
                      /\ o \notin WorkersWith(u)' /\ o \notin InHand(u)'
  BY <1>1 DEF PastQueueLimit, WorkersWith, InHand, NoItem
<1>5. NowSkipsQueue'
  BY <1>1 DEF BoundInv, NowSkipsQueue, OnlyMoves, Actor
<1>. QED
  BY <1>2, <1>3, <1>4, <1>5, NoMore DEF BoundInv
-----------------------------------------------------------------------------
(* The steps of a request.                                                   *)

LEMMA RequestBound ==
  ASSUME TypeOK, TypeOK', BoundInv, NEW r \in Requester, r \in Actor,
         OnlyMoves(r), Request(r)
  PROVE  BoundInv'
<1>1. pc'[r] = "leach"
  BY DEF Request, Goto, TypeOK, ActorTypeOK
<1>2. \A A : NoLonger(A)
  BY SameQueue DEF TypeOK, Request
<1>3. /\ \A l \in Link : r \notin AboutToEnqueue(l)'
      /\ \A u \in User : /\ r \notin PastQueueLimit(u)'
                         /\ r \notin WorkersWith(u)' /\ r \notin InHand(u)'
  BY <1>1 DEF AboutToEnqueue, PastQueueLimit, WorkersWith, InHand
<1>4. NowSkipsQueue'
  BY <1>1 DEF BoundInv, NowSkipsQueue, OnlyMoves, Actor
<1>5. UNCHANGED <<autoPick, usage>>
  BY DEF Request
<1>. QED
  BY <1>2, <1>3, <1>4, <1>5, NoMore DEF BoundInv

(* The leech limit is passed with room for the item, whatever else of the    *)
(* user's is queued or in hand: HandBound says how much that is.             *)
LEMMA CheckLeachLimitBound ==
  ASSUME TypeOK, TypeOK', BoundInv, NEW r \in Requester, r \in Actor,
         OnlyMoves(r), CheckLeachLimit(r), ~Leave(r)
  PROVE  BoundInv'
<1>1. /\ pc[r] = "leach" /\ WithinLeach(job[r].user)
      /\ pc'[r] = "limit" /\ job' = job
  BY DEF CheckLeachLimit, Goto, TypeOK, ActorTypeOK
<1>2. \A A : NoLonger(A)
  BY SameQueue DEF TypeOK, CheckLeachLimit
<1>3. UNCHANGED <<queue, autoPick, usage>>
  BY DEF CheckLeachLimit
<1>4. \A l \in Link : CopiesBound(l)'
  <2>1. \A l \in Link : r \notin AboutToEnqueue(l)'
    BY <1>1 DEF AboutToEnqueue
  <2>. QED
    BY <1>2, <1>3, <2>1, CopiesNoMore DEF BoundInv
<1>5. \A u \in User : QueueBound(u)' /\ HandBound(u)'
  <2>1. \A u \in User : /\ r \notin PastQueueLimit(u)'
                        /\ r \in WorkersWith(u)' => r \in WorkersWith(u)
    BY <1>1 DEF PastQueueLimit, WorkersWith
  <2>. QED
    BY <1>2, <2>1, PlacesNoMore DEF BoundInv, UserBounds
<1>6. ASSUME NEW u \in User, job[r].user = u PROVE ChargeBound(u)'
  <2>1. usage'[u] \in Nat /\ usage'[u] <= LeachLimit - 1
    BY <1>1, <1>3, <1>6 DEF WithinLeach, TypeOK, LinkTypeOK
  <2>2. InHand(u)' \subseteq Requester \cup (WorkersWith(u)' \cup Watcher)
    BY DEF InHand, WorkersWith, Actor, Downloader
  <2>3. IsFiniteSet(WorkersWith(u)')
    BY Crews, FS_Subset DEF WorkersWith
  <2>4. /\ IsFiniteSet(WorkersWith(u)' \cup Watcher)
        /\ Cardinality(WorkersWith(u)' \cup Watcher) \in Nat
        /\ Cardinality(WorkersWith(u)' \cup Watcher)
             <= Cardinality(WorkersWith(u)') + Cardinality(Watcher)
    BY <2>3, Crews, PartOfTwo
  <2>5. /\ Cardinality(InHand(u)') \in Nat
        /\ Cardinality(InHand(u)')
             <= Cardinality(Requester) + Cardinality(WorkersWith(u)' \cup Watcher)
    BY <2>2, <2>4, Crews, PartOfTwo
  <2>6. /\ Count(queue', OfUser(u)) \in Nat
        /\ Cardinality(PastQueueLimit(u)') \in Nat
        /\ Cardinality(WorkersWith(u)') \in Nat
    BY <1>2, Crowds DEF NoLonger, Gains
  <2>. QED
    BY <1>5, <2>1, <2>4, <2>5, <2>6, Crews DEF HandBound, ChargeBound, Queued
<1>7. ASSUME NEW u \in User, job[r].user # u PROVE ChargeBound(u)'
  <2>1. r \notin InHand(u)'
    BY <1>1, <1>7 DEF InHand
  <2>. QED
    BY <1>2, <1>3, <2>1, ChargeNoMore DEF BoundInv, UserBounds, TypeOK
<1>8. NowSkipsQueue'
  BY <1>1 DEF BoundInv, NowSkipsQueue, OnlyMoves, Actor
<1>. QED
  BY <1>4, <1>5, <1>6, <1>7, <1>8 DEF BoundInv, UserBounds

(* The queue limit, read from a queue that may hide one item, is passed with *)
(* room for the handlers that are past it.                                   *)
LEMMA CheckEnqueueLimitBound ==
  ASSUME TypeOK, TypeOK', BoundInv, NEW r \in Requester, r \in Actor,
         OnlyMoves(r), CheckEnqueueLimit(r), ~Leave(r)
  PROVE  BoundInv'
<1>1. /\ pc[r] = "limit" /\ job' = job
      /\ pc'[r] = (IF job[r].now THEN "start" ELSE "admitted")
      /\ \E q \in SeenQueues : WithinQueue(q, job[r].user)
  BY DEF CheckEnqueueLimit, Goto, TypeOK, ActorTypeOK
<1>2. \A A : NoLonger(A)
  BY SameQueue DEF TypeOK, CheckEnqueueLimit
<1>3. UNCHANGED <<queue, autoPick, usage>>
  BY DEF CheckEnqueueLimit
<1>4. \A l \in Link : CopiesBound(l)'
  <2>1. \A l \in Link : r \notin AboutToEnqueue(l)'
    BY <1>1 DEF AboutToEnqueue
  <2>. QED
    BY <1>2, <1>3, <2>1, CopiesNoMore DEF BoundInv
<1>5. ASSUME NEW u \in User PROVE ChargeBound(u)'
  <2>1. r \in InHand(u)' => r \in InHand(u)
    BY <1>1 DEF InHand
  <2>. QED
    BY <1>2, <1>3, <2>1, ChargeNoMore DEF BoundInv, UserBounds, TypeOK
<1>6. ASSUME NEW u \in User, job[r].user # u PROVE QueueBound(u)' /\ HandBound(u)'
  <2>1. /\ r \notin PastQueueLimit(u)'
        /\ r \in WorkersWith(u)' => r \in WorkersWith(u)
    BY <1>1, <1>6 DEF PastQueueLimit, WorkersWith
  <2>. QED
    BY <1>2, <2>1, PlacesNoMore DEF BoundInv, UserBounds
<1>7. ASSUME NEW u \in User, job[r].user = u PROVE QueueBound(u)' /\ HandBound(u)'
  <2>1. /\ Queued(u) \in Nat
        /\ \/ Queued(u) <= UserEnqueueLimit - 1
           \/ /\ Queued(u) <= UserEnqueueLimit
              /\ \E w \in Worker : pc[w] = "idle"
    BY <1>1, <1>7, SeenCount DEF TypeOK
  <2>2. Queued(u)' = Queued(u)
    BY <1>3 DEF Queued
  <2>3. /\ Cardinality(PastQueueLimit(u)') \in Nat
        /\ Cardinality(PastQueueLimit(u)') <= Cardinality(Requester)
    <3>1. PastQueueLimit(u)' \subseteq Requester
      BY DEF PastQueueLimit
    <3>. QED
      BY <3>1, Crews, Part
  <2>4. /\ Cardinality(WorkersWith(u)') \in Nat
        /\ Cardinality(WorkersWith(u)') <= Cardinality(Worker)
    <3>1. WorkersWith(u)' \subseteq Worker
      BY DEF WorkersWith
    <3>. QED
      BY <3>1, Crews, Part
  <2>5. ASSUME NEW w \in Worker, pc[w] = "idle"
        PROVE  Cardinality(WorkersWith(u)') <= Cardinality(Worker) - 1
    <3>1. job[w].user # u
      BY <2>5 DEF TypeOK, ActorTypeOK, Actor, Downloader, NoItem
    <3>2. WorkersWith(u)' \subseteq Worker \ {w}
      BY <1>1, <3>1 DEF WorkersWith
    <3>3. /\ IsFiniteSet(Worker \ {w})
          /\ Cardinality(Worker \ {w}) = Cardinality(Worker) - 1
      BY Crews, FS_RemoveElement
    <3>4. Cardinality(WorkersWith(u)') <= Cardinality(Worker \ {w})
      BY <3>2, <3>3, Part
    <3>. QED
      BY <3>3, <3>4
  <2>6. QueueBound(u)'
    BY <2>1, <2>2, <2>3, Crews DEF QueueBound
  <2>7. HandBound(u)'
    BY <2>1, <2>2, <2>3, <2>4, <2>5, Crews DEF HandBound
  <2>. QED
    BY <2>6, <2>7
<1>8. NowSkipsQueue'
  BY <1>1 DEF BoundInv, NowSkipsQueue, OnlyMoves, Actor
<1>. QED
  BY <1>4, <1>5, <1>6, <1>7, <1>8 DEF BoundInv, UserBounds

(* "Already downloading" lets the handler on: nothing changes but its place. *)
LEMMA CheckDownloadingBound ==
  ASSUME TypeOK, TypeOK', BoundInv, NEW r \in Requester, r \in Actor,
         OnlyMoves(r), CheckDownloading(r), ~Leave(r)
  PROVE  BoundInv'
<1>1. pc[r] = "admitted" /\ pc'[r] = "unlisted" /\ job' = job
  BY DEF CheckDownloading, Goto, TypeOK, ActorTypeOK
<1>2. \A A : NoLonger(A)
  BY SameQueue DEF TypeOK, CheckDownloading
<1>3. UNCHANGED <<autoPick, usage>>
  BY DEF CheckDownloading
<1>4. /\ \A l \in Link : r \notin AboutToEnqueue(l)'
      /\ \A u \in User : /\ r \in PastQueueLimit(u)' => r \in PastQueueLimit(u)
                         /\ r \in WorkersWith(u)' => r \in WorkersWith(u)
                         /\ r \in InHand(u)' => r \in InHand(u)
  BY <1>1 DEF AboutToEnqueue, PastQueueLimit, WorkersWith, InHand
<1>5. NowSkipsQueue'
  BY <1>1 DEF BoundInv, NowSkipsQueue, OnlyMoves, Actor
<1>. QED
  BY <1>2, <1>3, <1>4, <1>5, NoMore DEF BoundInv

(* "Already in queue" is passed only while the queue has no copy: then the   *)
(* copies to come are those of the handlers that passed it, and the auto     *)
(* downloader's.                                                             *)
LEMMA CheckQueuedBound ==
  ASSUME TypeOK, TypeOK', BoundInv, NEW r \in Requester, r \in Actor,
         OnlyMoves(r), CheckQueued(r), ~Leave(r)
  PROVE  BoundInv'
<1>1. /\ pc[r] = "unlisted" /\ NotQueued(job[r].link)
      /\ pc'[r] = "absent" /\ job' = job
  BY DEF CheckQueued, Goto, TypeOK, ActorTypeOK
<1>2. \A A : NoLonger(A)
  BY SameQueue DEF TypeOK, CheckQueued
<1>3. UNCHANGED <<queue, autoPick, usage>>
  BY DEF CheckQueued
<1>4. ASSUME NEW l \in Link, job[r].link = l PROVE CopiesBound(l)'
  <2>1. Count(queue', OfLink(l)) = 0
    BY <1>1, <1>3, <1>4, CopiesCount, FS_EmptySet
       DEF NotQueued, CopiesOf, TypeOK, QueueTypeOK
  <2>2. /\ Cardinality(AboutToEnqueue(l)') \in Nat
        /\ Cardinality(AboutToEnqueue(l)') <= Cardinality(Requester)
    <3>1. AboutToEnqueue(l)' \subseteq Requester
      BY DEF AboutToEnqueue
    <3>. QED
      BY <3>1, Crews, Part
  <2>. QED
    BY <2>1, <2>2, Crews DEF CopiesBound, One
<1>5. ASSUME NEW l \in Link, job[r].link # l PROVE CopiesBound(l)'
  <2>1. r \notin AboutToEnqueue(l)'
    BY <1>1, <1>5 DEF AboutToEnqueue
  <2>. QED
    BY <1>2, <1>3, <2>1, CopiesNoMore DEF BoundInv
<1>6. \A u \in User : UserBounds(u)'
  <2>1. \A u \in User : /\ r \in PastQueueLimit(u)' => r \in PastQueueLimit(u)
                        /\ r \in WorkersWith(u)' => r \in WorkersWith(u)
                        /\ r \in InHand(u)' => r \in InHand(u)
    BY <1>1 DEF PastQueueLimit, WorkersWith, InHand
  <2>. QED
    BY <1>2, <1>3, <2>1, PlacesNoMore, ChargeNoMore
       DEF BoundInv, UserBounds, TypeOK
<1>7. NowSkipsQueue'
  BY <1>1 DEF BoundInv, NowSkipsQueue, OnlyMoves, Actor
<1>. QED
  BY <1>4, <1>5, <1>6, <1>7 DEF BoundInv

(* The Enqueue turns a handler past the checks into an item in the queue.    *)
LEMMA EnqueueRequestBound ==
  ASSUME TypeOK, TypeOK', BoundInv, NEW r \in Requester, r \in Actor,
         OnlyMoves(r), EnqueueRequest(r)
  PROVE  BoundInv'
<1>1. /\ pc[r] = "absent" /\ job[r] \in Item
      /\ pc'[r] \in {"idle", "freed"} /\ job'[r] = NoItem
  BY Busy DEF EnqueueRequest, Leave, Goto, TypeOK, ActorTypeOK
<1>2. UNCHANGED <<autoPick, usage>> /\ Leave(r)
  BY DEF EnqueueRequest
<1>3. CASE UNCHANGED queue
  BY <1>2, <1>3, LeaveBound
<1>4. CASE queue' = Append(queue, job[r])
  <2>1. ASSUME NEW l \in Link PROVE CopiesBound(l)'
    <3>1. /\ Count(queue, OfLink(l)) \in Nat
          /\ Count(queue', OfLink(l)) =
               Count(queue, OfLink(l)) + One(job[r] \in OfLink(l))
      BY <1>1, <1>4, AppendCount DEF TypeOK
    <3>2. /\ job[r] \in OfLink(l) <=> r \in AboutToEnqueue(l)
          /\ r \notin AboutToEnqueue(l)'
      BY <1>1 DEF OfLink, AboutToEnqueue
    <3>3. Gains(AboutToEnqueue(l), AboutToEnqueue(l)', r)
      BY Crowds
    <3>4. CopiesBound(l)
      BY DEF BoundInv
    <3>. QED
      BY <1>2, <3>1, <3>2, <3>3, <3>4, Crews DEF CopiesBound, Gains, One
  <2>2. ASSUME NEW u \in User PROVE UserBounds(u)'
    <3>1. /\ Queued(u) \in Nat
          /\ Queued(u)' = Queued(u) + One(job[r] \in OfUser(u))
      BY <1>1, <1>4, AppendCount DEF TypeOK, Queued
    <3>2. /\ job[r] \in OfUser(u) <=> r \in PastQueueLimit(u)
          /\ job[r] \in OfUser(u) <=> r \in InHand(u)
          /\ r \notin PastQueueLimit(u)' /\ r \notin InHand(u)'
          /\ r \notin WorkersWith(u) /\ r \notin WorkersWith(u)'
      BY <1>1 DEF OfUser, PastQueueLimit, InHand, WorkersWith, NoItem,
                  BoundInv, NowSkipsQueue
    <3>3. /\ Gains(PastQueueLimit(u), PastQueueLimit(u)', r)
          /\ Gains(WorkersWith(u), WorkersWith(u)', r)
          /\ Gains(InHand(u), InHand(u)', r)
      BY Crowds
    <3>4. UserBounds(u) /\ usage[u] \in Nat /\ usage'[u] = usage[u]
      BY <1>2 DEF BoundInv, TypeOK, LinkTypeOK
    <3>5. QueueBound(u)'
      BY <3>1, <3>2, <3>3, <3>4, Crews DEF UserBounds, QueueBound, Gains, One
    <3>6. HandBound(u)'
      BY <3>1, <3>2, <3>3, <3>4, Crews DEF UserBounds, HandBound, Gains, One
    <3>7. ChargeBound(u)'
      BY <3>1, <3>2, <3>3, <3>4, Crews DEF UserBounds, ChargeBound, Gains, One
    <3>. QED
      BY <3>5, <3>6, <3>7 DEF UserBounds
  <2>3. NowSkipsQueue'
    BY <1>1 DEF BoundInv, NowSkipsQueue, OnlyMoves, Actor
  <2>. QED
    BY <2>1, <2>2, <2>3 DEF BoundInv
<1>. QED
  BY <1>3, <1>4 DEF EnqueueRequest

LEMMA RequesterBound ==
  ASSUME TypeOK, TypeOK', BoundInv, NEW r \in Requester, RequesterStep(r)
  PROVE  BoundInv'
<1>1. r \in Actor /\ OnlyMoves(r)
  BY RequesterMoves DEF Actor
<1>2. CASE Request(r)
  BY <1>1, <1>2, RequestBound
<1>3. CASE /\ \/ CheckLeachLimit(r) \/ CheckEnqueueLimit(r)
              \/ CheckDownloading(r) \/ CheckQueued(r)
           /\ Leave(r)
  <2>1. UNCHANGED <<queue, autoPick, usage>>
    BY <1>3 DEF CheckLeachLimit, CheckEnqueueLimit, CheckDownloading, CheckQueued
  <2>. QED
    BY <1>1, <1>3, <2>1, LeaveBound
<1>4. CASE /\ \/ CheckLeachLimit(r) \/ CheckEnqueueLimit(r)
              \/ CheckDownloading(r) \/ CheckQueued(r)
           /\ ~Leave(r)
  BY <1>1, <1>4, CheckLeachLimitBound, CheckEnqueueLimitBound,
     CheckDownloadingBound, CheckQueuedBound
<1>5. CASE EnqueueRequest(r)
  BY <1>1, <1>5, EnqueueRequestBound
<1>6. CASE Answer(r)
  <2>1. Leave(r) /\ UNCHANGED <<queue, autoPick, usage>>
    BY <1>6 DEF Answer
  <2>. QED
    BY <1>1, <2>1, LeaveBound
<1>. QED
  BY <1>2, <1>3, <1>4, <1>5, <1>6 DEF RequesterStep
-----------------------------------------------------------------------------
(* The steps of a worker, of a download, and of the rest.                    *)

(* A worker that takes an item moves it from the queue into its hand.        *)
LEMMA DequeueBound ==
  ASSUME TypeOK, TypeOK', BoundInv, NEW w \in Worker, w \in Actor,
         OnlyMoves(w), Dequeue(w)
  PROVE  BoundInv'
<1>1. /\ job[w] = NoItem /\ job'[w] = Head(queue) /\ w \notin Requester
      /\ queue # <<>> /\ queue' = Tail(queue)
  BY DEF Dequeue, TypeOK, ActorTypeOK
<1>2. Head(queue) \in Item
  BY <1>1 DEF TypeOK, QueueTypeOK
<1>3. UNCHANGED <<autoPick, usage>>
  BY DEF Dequeue
<1>4. ASSUME NEW l \in Link PROVE CopiesBound(l)'
  <2>1. NoLonger(OfLink(l))
    BY <1>1, TailCount DEF TypeOK, NoLonger, One
  <2>2. w \notin AboutToEnqueue(l)'
    BY <1>1 DEF AboutToEnqueue
  <2>. QED
    BY <1>3, <2>1, <2>2, CopiesNoMore DEF BoundInv
<1>5. ASSUME NEW u \in User PROVE UserBounds(u)'
  <2>1. /\ Queued(u) \in Nat /\ Queued(u)' \in Nat
        /\ Queued(u) = Queued(u)' + One(Head(queue) \in OfUser(u))
    BY <1>1, TailCount DEF TypeOK, Queued
  <2>2. /\ w \notin PastQueueLimit(u) /\ w \notin PastQueueLimit(u)'
        /\ w \notin WorkersWith(u) /\ w \notin InHand(u)
    BY <1>1 DEF PastQueueLimit, WorkersWith, InHand, NoItem
  <2>3. /\ w \in WorkersWith(u)' => Head(queue) \in OfUser(u)
        /\ w \in InHand(u)' => Head(queue) \in OfUser(u)
    BY <1>1, <1>2 DEF WorkersWith, InHand, OfUser
  <2>4. /\ Gains(PastQueueLimit(u), PastQueueLimit(u)', w)
        /\ Gains(WorkersWith(u), WorkersWith(u)', w)
        /\ Gains(InHand(u), InHand(u)', w)
    BY Crowds
  <2>5. UserBounds(u) /\ usage[u] \in Nat /\ usage'[u] = usage[u]
    BY <1>3 DEF BoundInv, TypeOK, LinkTypeOK
  <2>6. QueueBound(u)'
    BY <2>1, <2>2, <2>4, <2>5, Crews DEF UserBounds, QueueBound, Gains, One
  <2>7. HandBound(u)'
    BY <2>1, <2>2, <2>3, <2>4, <2>5, Crews DEF UserBounds, HandBound, Gains, One
  <2>8. ChargeBound(u)'
    BY <2>1, <2>2, <2>3, <2>4, <2>5, Crews DEF UserBounds, ChargeBound, Gains, One
  <2>. QED
    BY <2>6, <2>7, <2>8 DEF UserBounds
<1>6. NowSkipsQueue'
  BY <1>1 DEF BoundInv, NowSkipsQueue, OnlyMoves, Actor
<1>. QED
  BY <1>4, <1>5, <1>6 DEF BoundInv

(* An actor with its item goes on with it.                                   *)
LEMMA GoOnBound ==
  ASSUME TypeOK, TypeOK', BoundInv, NEW o \in Actor, OnlyMoves(o),
         pc[o] \notin {"leach", "starting"}, job' = job,
         pc'[o] \in {"idle", "start", "running", "complete"},
         UNCHANGED <<queue, autoPick, usage>>
  PROVE  BoundInv'
<1>1. \A A : NoLonger(A)
  BY SameQueue DEF TypeOK
<1>2. /\ \A l \in Link : o \notin AboutToEnqueue(l)'
      /\ \A u \in User : /\ o \notin PastQueueLimit(u)'
                         /\ o \in WorkersWith(u)' => o \in WorkersWith(u)
                         /\ o \in InHand(u)' => o \in InHand(u)
  BY DEF AboutToEnqueue, PastQueueLimit, WorkersWith, InHand
<1>3. NowSkipsQueue'
  BY DEF BoundInv, NowSkipsQueue, OnlyMoves, Actor
<1>. QED
  BY <1>1, <1>2, <1>3, NoMore DEF BoundInv

LEMMA WorkerBound ==
  ASSUME TypeOK, TypeOK', BoundInv, NEW w \in Worker, WorkerStep(w)
  PROVE  BoundInv'
<1>1. w \in Actor /\ OnlyMoves(w)
  BY WorkerMoves DEF Actor, Downloader
<1>2. CASE Dequeue(w)
  BY <1>1, <1>2, DequeueBound
<1>3. CASE WaitForDownloadConcurrencyFree(w)
  <2>1. /\ pc[w] \notin {"leach", "starting"} /\ job' = job
        /\ pc'[w] \in {"start", "idle"}
        /\ UNCHANGED <<queue, autoPick, usage>>
    BY <1>1, <1>3 DEF WaitForDownloadConcurrencyFree, Goto, TypeOK, ActorTypeOK
  <2>. QED
    BY <1>1, <2>1, GoOnBound
<1>4. CASE List(w)
  <2>1. /\ pc[w] \notin {"leach", "starting"} /\ job' = job
        /\ pc'[w] = "running"
        /\ UNCHANGED <<queue, autoPick, usage>>
    BY <1>1, <1>4 DEF List, Goto, TypeOK, ActorTypeOK
  <2>. QED
    BY <1>1, <2>1, GoOnBound
<1>. QED
  BY <1>2, <1>3, <1>4 DEF WorkerStep

(* A handler that downloads now passes its item on to the watcher.           *)
LEMMA ListNowBound ==
  ASSUME TypeOK, TypeOK', BoundInv, NEW r \in Requester, NEW x \in Watcher,
         ListNow(r, x)
  PROVE  BoundInv'
<1>1. /\ r \in Actor /\ x \in Actor /\ r # x /\ x \notin Requester
      /\ x \notin Worker /\ r \notin Worker
  BY DEF Actor, Downloader
<1>2. /\ pc[r] = "start" /\ pc'[r] = "starting" /\ job'[r] = job[r]
      /\ pc[x] = "idle" /\ pc'[x] = "running"
      /\ job[x] = NoItem /\ job'[x] = job[r]
      /\ \A p \in Actor : p # r /\ p # x => pc'[p] = pc[p] /\ job'[p] = job[p]
      /\ UNCHANGED <<queue, autoPick, usage>>
  BY <1>1 DEF ListNow, TypeOK, ActorTypeOK
<1>3. ASSUME NEW l \in Link PROVE CopiesBound(l)'
  <2>1. AboutToEnqueue(l)' = AboutToEnqueue(l)
    BY <1>1, <1>2 DEF AboutToEnqueue, Actor
  <2>. QED
    BY <1>2, <2>1 DEF BoundInv, CopiesBound
<1>4. ASSUME NEW u \in User PROVE UserBounds(u)'
  <2>1. PastQueueLimit(u)' = PastQueueLimit(u) /\ WorkersWith(u)' = WorkersWith(u)
    BY <1>1, <1>2 DEF PastQueueLimit, WorkersWith, Actor, Downloader
  <2>2. /\ r \in InHand(u) <=> x \in InHand(u)'
        /\ r \notin InHand(u)' /\ x \notin InHand(u)
        /\ InHand(u) \ {r} = InHand(u)' \ {x}
    BY <1>1, <1>2 DEF InHand, NoItem
  <2>3. Cardinality(InHand(u)') = Cardinality(InHand(u))
    <3>1. InHand(u) \subseteq Actor /\ InHand(u)' \subseteq Actor
      BY DEF InHand
    <3>2. IsFiniteSet(InHand(u)) /\ IsFiniteSet(InHand(u)')
      BY <3>1, Crews, FS_Subset
    <3>3. CASE r \in InHand(u)
      <4>1. /\ Cardinality(InHand(u) \ {r}) = Cardinality(InHand(u)) - 1
            /\ Cardinality(InHand(u)' \ {x}) = Cardinality(InHand(u)') - 1
        BY <2>2, <3>2, <3>3, FS_RemoveElement
      <4>2. Cardinality(InHand(u)) \in Nat /\ Cardinality(InHand(u)') \in Nat
        BY <3>2, FS_CardinalityType
      <4>3. Cardinality(InHand(u) \ {r}) = Cardinality(InHand(u)' \ {x})
        BY <2>2
      <4>. QED
        BY ONLY <4>1, <4>2, <4>3
    <3>4. CASE r \notin InHand(u)
      BY <2>2, <3>4
    <3>. QED
      BY <3>3, <3>4
  <2>. QED
    BY <1>2, <2>1, <2>3
       DEF BoundInv, UserBounds, QueueBound, HandBound, ChargeBound, Queued
<1>5. NowSkipsQueue'
  BY <1>1, <1>2 DEF BoundInv, NowSkipsQueue, Actor
<1>. QED
  BY <1>3, <1>4, <1>5 DEF BoundInv

(* The charge turns a user's item in hand into usage.                        *)
LEMMA SaveBound ==
  ASSUME TypeOK, TypeOK', BoundInv, NEW o \in Actor, OnlyMoves(o), Save(o)
  PROVE  BoundInv'
<1>1. /\ pc[o] = "complete" /\ UNCHANGED <<queue, autoPick>>
      /\ pc'[o] \in {"idle", "freed"} /\ job'[o] = NoItem
  BY DEF Save, Leave, Goto, TypeOK, ActorTypeOK
<1>2. \A A : NoLonger(A)
  BY <1>1, SameQueue DEF TypeOK
<1>3. /\ \A l \in Link : o \notin AboutToEnqueue(l)'
      /\ \A u \in User : /\ o \notin PastQueueLimit(u)'
                         /\ o \notin WorkersWith(u)' /\ o \notin InHand(u)'
  BY <1>1 DEF AboutToEnqueue, PastQueueLimit, WorkersWith, InHand, NoItem
<1>4. \A l \in Link : CopiesBound(l)'
  BY <1>1, <1>2, <1>3, CopiesNoMore DEF BoundInv
<1>5. ASSUME NEW u \in User PROVE UserBounds(u)'
  <2>1. QueueBound(u)' /\ HandBound(u)'
    BY <1>2, <1>3, PlacesNoMore DEF BoundInv, UserBounds
  <2>2. /\ usage[u] \in Nat /\ usage'[u] \in Nat
        /\ usage'[u] <= usage[u] + One(o \in InHand(u))
    <3>1. usage[u] \in Nat /\ usage'[u] \in Nat
      BY DEF TypeOK, LinkTypeOK
    <3>2. CASE UNCHANGED usage
      BY <3>1, <3>2 DEF One
    <3>3. CASE /\ job[o].user \in User
               /\ usage' = [usage EXCEPT ![job[o].user] = @ + 1]
      <4>1. job[o].user = u <=> o \in InHand(u)
        BY <1>1 DEF InHand
      <4>2. usage'[u] = usage[u] + (IF job[o].user = u THEN 1 ELSE 0)
        BY <3>1, <3>3 DEF TypeOK, LinkTypeOK
      <4>. QED
        BY <3>1, <4>1, <4>2 DEF One
    <3>. QED
      BY <3>2, <3>3 DEF Save
  <2>3. Gains(InHand(u), InHand(u)', o)
    BY Crowds
  <2>4. ChargeBound(u)'
    BY <1>2, <1>3, <2>2, <2>3, Crews
       DEF BoundInv, UserBounds, ChargeBound, Queued, NoLonger, Gains, One
  <2>. QED
    BY <2>1, <2>4 DEF UserBounds
<1>6. NowSkipsQueue'
  BY <1>1 DEF BoundInv, NowSkipsQueue, OnlyMoves, Actor
<1>. QED
  BY <1>4, <1>5, <1>6 DEF BoundInv

LEMMA DownloadBound ==
  ASSUME TypeOK, TypeOK', BoundInv, NEW o \in Actor, DownloadStep(o)
  PROVE  BoundInv'
<1>1. OnlyMoves(o)
  BY DownloadMoves
<1>2. CASE Refuse(o) \/ RefuseTwin(o) \/ Fail(o)
  <2>1. Leave(o) /\ UNCHANGED <<queue, autoPick, usage>>
    BY <1>2 DEF Refuse, RefuseTwin, Fail
  <2>. QED
    BY <1>1, <2>1, LeaveBound
<1>3. CASE Complete(o)
  <2>1. /\ pc[o] \notin {"leach", "starting"} /\ job' = job
        /\ pc'[o] = "complete"
        /\ UNCHANGED <<queue, autoPick, usage>>
    BY <1>3 DEF Complete, Goto, TypeOK, ActorTypeOK
  <2>. QED
    BY <1>1, <2>1, GoOnBound
<1>4. CASE Save(o)
  BY <1>1, <1>4, SaveBound
<1>. QED
  BY <1>2, <1>3, <1>4 DEF DownloadStep

(* The background actions move no handler and no worker.                     *)
LEMMA StillCrowds ==
  ASSUME UNCHANGED <<pc, job>>, NEW l, NEW u
  PROVE  /\ AboutToEnqueue(l)' = AboutToEnqueue(l)
         /\ PastQueueLimit(u)' = PastQueueLimit(u)
         /\ WorkersWith(u)' = WorkersWith(u) /\ InHand(u)' = InHand(u)
         /\ Cardinality(AboutToEnqueue(l)) \in Nat
         /\ Cardinality(AboutToEnqueue(l)) <= Cardinality(Requester)
         /\ Cardinality(PastQueueLimit(u)) \in Nat
         /\ Cardinality(WorkersWith(u)) \in Nat /\ Cardinality(InHand(u)) \in Nat
<1>1. /\ AboutToEnqueue(l) \subseteq Requester /\ PastQueueLimit(u) \subseteq Requester
      /\ WorkersWith(u) \subseteq Worker /\ InHand(u) \subseteq Actor
  BY DEF AboutToEnqueue, PastQueueLimit, WorkersWith, InHand
<1>2. /\ Cardinality(AboutToEnqueue(l)) \in Nat
      /\ Cardinality(AboutToEnqueue(l)) <= Cardinality(Requester)
      /\ Cardinality(PastQueueLimit(u)) \in Nat
      /\ Cardinality(WorkersWith(u)) \in Nat /\ Cardinality(InHand(u)) \in Nat
  BY <1>1, Crews, Part
<1>. QED
  BY <1>2 DEF AboutToEnqueue, PastQueueLimit, WorkersWith, InHand

LEMMA StillBound ==
  ASSUME TypeOK, TypeOK', BoundInv, UNCHANGED <<queue, pc, job, autoPick>>,
         UNCHANGED usage \/ MonthlyReset
  PROVE  BoundInv'
<1>1. \A l \in Link : CopiesBound(l)'
  BY StillCrowds DEF BoundInv, CopiesBound
<1>2. ASSUME NEW u \in User PROVE UserBounds(u)'
  <2>1. QueueBound(u)' /\ HandBound(u)'
    BY <1>2, StillCrowds DEF BoundInv, UserBounds, QueueBound, HandBound, Queued
  <2>2. usage[u] \in Nat /\ usage'[u] \in Nat /\ usage'[u] <= usage[u]
    BY DEF MonthlyReset, TypeOK, LinkTypeOK
  <2>3. Queued(u)' = Queued(u) /\ Queued(u) \in Nat
    BY CountType DEF Queued, TypeOK, QueueTypeOK
  <2>4. InHand(u)' = InHand(u) /\ Cardinality(InHand(u)) \in Nat
    BY StillCrowds
  <2>5. ChargeBound(u)
    BY DEF BoundInv, UserBounds
  <2>6. ChargeBound(u)'
    BY <2>2, <2>3, <2>4, <2>5, Crews DEF ChargeBound
  <2>. QED
    BY <2>1, <2>6 DEF UserBounds
<1>3. NowSkipsQueue'
  BY DEF BoundInv, NowSkipsQueue
<1>. QED
  BY <1>1, <1>2, <1>3 DEF BoundInv

(* The automatic downloader takes a link while the queue has no copy of it.  *)
LEMMA AutoLookBound ==
  ASSUME TypeOK, TypeOK', BoundInv, AutoLook
  PROVE  BoundInv'
<1>1. /\ UNCHANGED <<queue, pc, job, usage>> /\ autoPick = NoLink
      /\ \A l \in Link : autoPick' = l => NotQueued(l)
  BY DEF AutoLook
<1>2. ASSUME NEW l \in Link, autoPick' = l PROVE CopiesBound(l)'
  <2>1. Count(queue', OfLink(l)) = 0
    BY <1>1, <1>2, CopiesCount, FS_EmptySet
       DEF NotQueued, CopiesOf, TypeOK, QueueTypeOK
  <2>2. /\ AboutToEnqueue(l)' = AboutToEnqueue(l)
        /\ Cardinality(AboutToEnqueue(l)) \in Nat
        /\ Cardinality(AboutToEnqueue(l)) <= Cardinality(Requester)
    BY <1>1, StillCrowds
  <2>. QED
    BY <2>1, <2>2, Crews DEF CopiesBound, One
<1>3. ASSUME NEW l \in Link, autoPick' # l PROVE CopiesBound(l)'
  <2>1. One(autoPick = l) = 0 /\ One(autoPick' = l) = 0
    BY <1>1, <1>3 DEF One
  <2>2. AboutToEnqueue(l)' = AboutToEnqueue(l)
    BY <1>1, StillCrowds
  <2>. QED
    BY <1>1, <2>1, <2>2 DEF BoundInv, CopiesBound
<1>4. \A u \in User : UserBounds(u)'
  BY <1>1, StillCrowds
     DEF BoundInv, UserBounds, QueueBound, HandBound, ChargeBound, Queued
<1>5. NowSkipsQueue'
  BY <1>1 DEF BoundInv, NowSkipsQueue
<1>. QED
  BY <1>2, <1>3, <1>4, <1>5 DEF BoundInv

(* Its Enqueue turns the link in hand into a copy in the queue, of no user.  *)
LEMMA AutoEnqueueBound ==
  ASSUME TypeOK, TypeOK', BoundInv, AutoEnqueue
  PROVE  BoundInv'
<1>1. /\ UNCHANGED <<pc, job, usage>> /\ autoPick # NoLink /\ autoPick' = NoLink
      /\ queue' = Append(queue, AutoItem(autoPick)) \/ UNCHANGED queue
  BY DEF AutoEnqueue
<1>2. AutoItem(autoPick) \in Item /\ autoPick \in Link
  BY <1>1 DEF AutoItem, Item, TypeOK, LinkTypeOK
<1>3. ASSUME NEW l \in Link PROVE CopiesBound(l)'
  <2>1. AutoItem(autoPick) \in OfLink(l) <=> autoPick = l
    BY <1>2 DEF AutoItem, OfLink
  <2>2. /\ Count(queue, OfLink(l)) \in Nat /\ Count(queue', OfLink(l)) \in Nat
        /\ Count(queue', OfLink(l)) <= Count(queue, OfLink(l)) + One(autoPick = l)
    <3>1. CASE queue' = Append(queue, AutoItem(autoPick))
      BY <1>2, <2>1, <3>1, AppendCount DEF TypeOK, One
    <3>2. CASE UNCHANGED queue
      BY <3>2, SameQueue DEF TypeOK, NoLonger, One
    <3>. QED
      BY <1>1, <3>1, <3>2
  <2>3. /\ AboutToEnqueue(l)' = AboutToEnqueue(l)
        /\ Cardinality(AboutToEnqueue(l)) \in Nat
    BY <1>1, StillCrowds
  <2>4. One(autoPick' = l) = 0
    BY <1>1 DEF One
  <2>5. CopiesBound(l)
    BY DEF BoundInv
  <2>. QED
    BY <2>2, <2>3, <2>4, <2>5, Crews DEF CopiesBound, One
<1>4. ASSUME NEW u \in User PROVE UserBounds(u)'
  <2>1. AutoItem(autoPick) \notin OfUser(u)
    BY DEF AutoItem, OfUser
  <2>2. Queued(u)' = Queued(u)
    <3>1. CASE queue' = Append(queue, AutoItem(autoPick))
      BY <1>2, <2>1, <3>1, AppendCount DEF TypeOK, Queued, One
    <3>2. CASE UNCHANGED queue
      BY <3>2 DEF Queued
    <3>. QED
      BY <1>1, <3>1, <3>2
  <2>3. /\ PastQueueLimit(u)' = PastQueueLimit(u)
        /\ WorkersWith(u)' = WorkersWith(u) /\ InHand(u)' = InHand(u)
    BY <1>1, StillCrowds
  <2>. QED
    BY <1>1, <2>2, <2>3
       DEF BoundInv, UserBounds, QueueBound, HandBound, ChargeBound
<1>5. NowSkipsQueue'
  BY <1>1 DEF BoundInv, NowSkipsQueue
<1>. QED
  BY <1>3, <1>4, <1>5 DEF BoundInv

LEMMA BackgroundBound ==
  ASSUME TypeOK, TypeOK', BoundInv,
         \/ AutoRead \/ AutoLook \/ AutoEnqueue \/ CrawlerAdds
         \/ Reap \/ Cancel \/ MonthlyReset
  PROVE  BoundInv'
<1>1. CASE AutoRead \/ CrawlerAdds \/ Reap \/ Cancel \/ MonthlyReset
  <2>1. /\ UNCHANGED <<queue, pc, job, autoPick>>
        /\ UNCHANGED usage \/ MonthlyReset
    BY <1>1 DEF AutoRead, CrawlerAdds, Reap, Cancel, MonthlyReset
  <2>. QED
    BY <2>1, StillBound
<1>. QED
  BY <1>1, AutoLookBound, AutoEnqueueBound
-----------------------------------------------------------------------------
(* The theorems.                                                             *)

LEMMA InitBoundInv == Init => BoundInv
<1>. SUFFICES ASSUME Init PROVE BoundInv
  OBVIOUS
<1>1. \A A : Count(queue, A) = 0
  BY CountEmpty DEF Init
<1>2. \A o \in Actor : pc[o] = "idle" /\ job[o] = NoItem
  BY DEF Init
<1>3. \A l \in Link : AboutToEnqueue(l) = {} /\ autoPick # l
  BY <1>2 DEF AboutToEnqueue, Actor, Init
<1>4. \A u \in User : /\ PastQueueLimit(u) = {} /\ WorkersWith(u) = {}
                      /\ InHand(u) = {} /\ usage[u] = 0
  BY <1>2 DEF PastQueueLimit, WorkersWith, InHand, Actor, Downloader, NoItem, Init
<1>5. Cardinality({}) = 0
  BY FS_EmptySet
<1>6. \A l \in Link : CopiesBound(l)
  BY <1>1, <1>3, <1>5, Crews DEF CopiesBound, One
<1>7. ASSUME NEW u \in User PROVE UserBounds(u)
  <2>1. /\ Queued(u) = 0 /\ usage[u] = 0 /\ Cardinality(PastQueueLimit(u)) = 0
        /\ Cardinality(WorkersWith(u)) = 0 /\ Cardinality(InHand(u)) = 0
    BY <1>1, <1>4, <1>5 DEF Queued
  <2>. QED
    BY <2>1, Crews DEF UserBounds, QueueBound, HandBound, ChargeBound
<1>8. NowSkipsQueue
  BY <1>2 DEF NowSkipsQueue, Actor
<1>. QED
  BY <1>6, <1>7, <1>8 DEF BoundInv

LEMMA StepBoundInv == TypeOK /\ TypeOK' /\ BoundInv /\ [Next]_vars => BoundInv'
<1>. SUFFICES ASSUME TypeOK, TypeOK', BoundInv, [Next]_vars PROVE BoundInv'
  OBVIOUS
<1>1. CASE Next
  BY <1>1, RequesterBound, WorkerBound, ListNowBound, DownloadBound,
     BackgroundBound DEF Next
<1>2. CASE UNCHANGED vars
  BY <1>2, StillBound DEF vars
<1>. QED
  BY <1>1, <1>2

LEMMA BoundCorrect == Spec => [](TypeOK /\ BoundInv)
<1>. QED
  BY TypeCorrect, InitBoundInv, StepBoundInv, PTL DEF Spec

(* The queue never holds more copies of a link than there were handlers that *)
(* could ask for it at the same time, and the automatic downloader: the      *)
(* test-then-Enqueue without a common lock costs that, and no more.          *)
THEOREM FewCopies == Spec => []QueueCopies
<1>1. TypeOK /\ BoundInv => QueueCopies
  <2>. SUFFICES ASSUME TypeOK, BoundInv, NEW l \in Link
                PROVE  Cardinality(CopiesOf(l)) + Cardinality(AboutToEnqueue(l))
                         + (IF autoPick = l THEN 1 ELSE 0)
                           <= Cardinality(Requester) + 1
    BY DEF QueueCopies
  <2>1. Cardinality(CopiesOf(l)) = Count(queue, OfLink(l))
    BY CopiesCount DEF CopiesOf, TypeOK, QueueTypeOK
  <2>. QED
    BY <2>1 DEF BoundInv, CopiesBound, One
<1>. QED
  BY <1>1, BoundCorrect, PTL

(* However the handlers interleave, and though the queue is read unlocked, a *)
(* user never has more than TorrentUserEnqueueLimit items in it plus one for *)
(* each handler.                                                             *)
THEOREM UserQueueBounded == Spec => []UserQueueBound
<1>1. TypeOK /\ BoundInv => UserQueueBound
  <2>. SUFFICES ASSUME TypeOK, BoundInv, NEW u \in User
                PROVE  Cardinality(QueuedOf(u)) + Cardinality(PastQueueLimit(u))
                         <= UserEnqueueLimit + Cardinality(Requester)
    BY DEF UserQueueBound
  <2>1. Cardinality(QueuedOf(u)) = Queued(u)
    BY ItemsCount DEF QueuedOf, Queued, TypeOK, QueueTypeOK
  <2>. QED
    BY <2>1 DEF BoundInv, UserBounds, QueueBound
<1>. QED
  BY <1>1, BoundCorrect, PTL

(* The monthly usage of a user overruns the leech limit by no more than what *)
(* the queue limit, the handlers and the workers let through at a time, and  *)
(* by the downloads an administrator's bot has running at a time: the quota  *)
(* is only charged when a download is complete.                              *)
THEOREM QuotaBounded == Spec => []QuotaBound
<1>1. TypeOK /\ BoundInv => QuotaBound
  <2>. SUFFICES ASSUME TypeOK, BoundInv, NEW u \in User
                PROVE  usage[u] <= LeachLimit - 1 + UserEnqueueLimit - 1
                                 + 2 * Cardinality(Requester) + Cardinality(Worker)
                                 + Cardinality(Watcher)
    BY DEF QuotaBound
  <2>1. usage[u] \in Nat /\ Queued(u) \in Nat
    BY CountType DEF TypeOK, LinkTypeOK, QueueTypeOK, Queued
  <2>2. Cardinality(InHand(u)) \in Nat
    <3>1. InHand(u) \subseteq Actor
      BY DEF InHand
    <3>. QED
      BY <3>1, Crews, Part
  <2>3. ChargeBound(u)
    BY DEF BoundInv, UserBounds
  <2>. QED
    BY <2>1, <2>2, <2>3, Crews DEF ChargeBound
<1>. QED
  BY <1>1, BoundCorrect, PTL
=============================================================================
