------------------------ MODULE DownloadQueueProofs ------------------------
(* Theorems of DownloadQueue, for every set of workers, capacity, batch size *)
(* and bound.                                                                *)
EXTENDS DownloadQueue, SequenceTheorems, TLAPS

USE BatchAssumption, BoundAssumption

-----------------------------------------------------------------------------
(* Type correctness.                                                         *)

LEMMA UnchangedTypes ==
  ASSUME TypeOK
  PROVE  /\ UNCHANGED queueVars => QueueTypeOK'
         /\ UNCHANGED fileVars => FileTypeOK'
         /\ UNCHANGED workerVars => WorkerTypeOK'
         /\ UNCHANGED clientVars => ClientTypeOK'
         /\ UNCHANGED lifeVars => LifeTypeOK'
         /\ UNCHANGED <<dequeueWorkersSleep, dequeueCheck, stale>> => FlagTypeOK'
<1>1. UNCHANGED queueVars => QueueTypeOK'
  BY DEF TypeOK, QueueTypeOK, queueVars
<1>2. UNCHANGED fileVars => FileTypeOK'
  BY DEF TypeOK, FileTypeOK, fileVars
<1>3. UNCHANGED workerVars => WorkerTypeOK'
  BY DEF TypeOK, WorkerTypeOK, workerVars
<1>4. UNCHANGED clientVars => ClientTypeOK'
  BY DEF TypeOK, ClientTypeOK, clientVars
<1>5. UNCHANGED lifeVars => LifeTypeOK'
  BY DEF TypeOK, LifeTypeOK, lifeVars
<1>6. UNCHANGED <<dequeueWorkersSleep, dequeueCheck, stale>> => FlagTypeOK'
  BY DEF TypeOK, FlagTypeOK
<1>. QED
  BY <1>1, <1>2, <1>3, <1>4, <1>5, <1>6

LEMMA InitTypeOK == Init => TypeOK
<1>. SUFFICES ASSUME Init PROVE TypeOK
  OBVIOUS
<1>1. QueueTypeOK
  BY DEF Init, QueueTypeOK
<1>2. FileTypeOK /\ ClientTypeOK /\ LifeTypeOK
  BY DEF Init, FileTypeOK, ClientTypeOK, LifeTypeOK
<1>3. WorkerTypeOK
  BY DEF Init, WorkerTypeOK, NoItem
<1>4. FlagTypeOK
  BY Zenon DEF Init, FlagTypeOK
<1>. QED
  BY <1>1, <1>2, <1>3, <1>4 DEF TypeOK

LEMMA EnqueueTypeOK == TypeOK /\ Enqueue => TypeOK'
<1>. SUFFICES ASSUME TypeOK, Enqueue PROVE TypeOK'
  OBVIOUS
<1>1. tickets' \in Nat
  BY DEF TypeOK, ClientTypeOK, Enqueue
<1>2. QueueTypeOK'
  BY <1>1 DEF TypeOK, QueueTypeOK, Enqueue, CheckSave
<1>3. ClientTypeOK'
  BY <1>1 DEF TypeOK, ClientTypeOK, Enqueue
<1>. QED
  BY <1>2, <1>3, UnchangedTypes DEF TypeOK, Enqueue, fileVars, workerVars, lifeVars

LEMMA DequeueTypeOK ==
  ASSUME TypeOK, NEW w \in workers, Dequeue(w)
  PROVE  TypeOK'
<1>1. w \in Worker
  BY DEF TypeOK, WorkerTypeOK
<1>2. Head(queue) \in Nat /\ Tail(queue) \in Seq(Nat)
  BY DEF TypeOK, QueueTypeOK, Dequeue
<1>3. /\ queue' = Tail(queue)
      /\ CheckSave(w)
      /\ saver = "none" /\ operationCount \in 0 .. BatchSize - 1
  BY DEF TypeOK, QueueTypeOK, Dequeue, RestOf
<1>5. QueueTypeOK'
  BY <1>1, <1>2, <1>3, WorkerAssumption DEF QueueTypeOK, CheckSave
<1>4. WorkerTypeOK'
  BY <1>2 DEF TypeOK, WorkerTypeOK, Dequeue
<1>. QED
  BY <1>4, <1>5, UnchangedTypes DEF TypeOK, Dequeue, fileVars, lifeVars

LEMMA WorkerStepTypeOK ==
  ASSUME TypeOK, NEW w \in workers, WorkerStep(w)
  PROVE  TypeOK'
<1>1. CASE Dequeue(w)
  BY <1>1, DequeueTypeOK
<1>2. CASE ~Dequeue(w)
  <2>1. UNCHANGED <<queueVars, fileVars, clientVars, lifeVars>>
    BY <1>2 DEF WorkerStep, WorkerExit, WorkerGoes, WorkerAsks, DequeueEmpty,
       WorkerConsumed
  <2>2. /\ UNCHANGED <<workers, delivered>>
        /\ held' = held \/ held' = [held EXCEPT ![w] = NoItem]
        /\ \E p \in {"check", "asked", "dequeue", "consume", "exited"} :
              pc' = [pc EXCEPT ![w] = p]
    BY <1>2, Zenon DEF WorkerStep, WorkerExit, WorkerGoes, WorkerAsks,
       DequeueEmpty, AfterEmpty, WorkerConsumed
  <2>5. WorkerTypeOK'
    BY <2>2 DEF TypeOK, WorkerTypeOK, NoItem
  <2>3. UNCHANGED dequeueWorkersSleep \/ dequeueWorkersSleep' = ~dequeueCheck
    BY <1>2 DEF WorkerStep, WorkerExit, WorkerGoes, WorkerAsks, DequeueEmpty,
       WorkerConsumed
  <2>4. FlagTypeOK'
    BY <2>1, <2>3, Zenon DEF TypeOK, FlagTypeOK, fileVars, lifeVars
  <2>. QED
    BY <2>1, <2>4, <2>5, UnchangedTypes DEF TypeOK
<1>. QED
  BY <1>1, <1>2

LEMMA SaveTypeOK == TypeOK /\ (SaveOpen \/ SaveWrite \/ SaveFails) => TypeOK'
<1>. SUFFICES ASSUME TypeOK, SaveOpen \/ SaveWrite \/ SaveFails PROVE TypeOK'
  OBVIOUS
<1>1. QueueTypeOK'
  BY DEF TypeOK, QueueTypeOK, SaveOpen, SaveWrite, SaveFails, SaveReturns
<1>2. FileTypeOK'
  <2>1. /\ queueFile' = queueFile \/ queueFile' = <<>> \/ queueFile' = queue
        /\ \/ failures' = failures
           \/ failures < MaxFailure /\ failures' = failures + 1
    BY Zenon DEF SaveOpen, SaveWrite, SaveFails
  <2>4. <<>> \in Seq(Nat)
    OBVIOUS
  <2>2. queueFile' \in Seq(Nat)
    BY <2>1, <2>4 DEF TypeOK, QueueTypeOK, FileTypeOK
  <2>3. failures' \in 0 .. MaxFailure
    BY <2>1 DEF TypeOK, FileTypeOK
  <2>. QED
    BY <2>1, <2>2, <2>3 DEF FileTypeOK
<1>3. LifeTypeOK'
  BY DEF TypeOK, LifeTypeOK, SaveOpen, SaveWrite, SaveFails, SaveReturns, lifeVars
<1>4. UNCHANGED <<workerVars, clientVars>>
  BY DEF SaveOpen, SaveWrite, SaveFails
<1>5. /\ UNCHANGED <<dequeueWorkersSleep, dequeueCheck>>
      /\ UNCHANGED stale \/ stale' = FALSE \/ stale' = TRUE
  BY DEF SaveOpen, SaveWrite, SaveFails, workerVars, lifeVars
<1>6. FlagTypeOK'
  BY <1>5, Zenon DEF TypeOK, FlagTypeOK
<1>. QED
  BY <1>1, <1>2, <1>3, <1>4, <1>6, UnchangedTypes DEF TypeOK

LEMMA CrashTypeOK == TypeOK /\ Crash => TypeOK'
<1>. SUFFICES ASSUME TypeOK, Crash PROVE TypeOK'
  OBVIOUS
<1>1. queue' \in Seq(Nat) /\ FileTypeOK'
  <2>1. /\ queueFile' = queueFile
        /\ queue' = queueFile \/ queue' = <<>>
        /\ \/ failures' = failures
           \/ failures < MaxFailure /\ failures' = failures + 1
    BY Zenon DEF Crash
  <2>4. <<>> \in Seq(Nat)
    OBVIOUS
  <2>2. queueFile' \in Seq(Nat) /\ queue' \in Seq(Nat)
    BY <2>1, <2>4 DEF TypeOK, FileTypeOK
  <2>3. failures' \in 0 .. MaxFailure
    BY <2>1 DEF TypeOK, FileTypeOK
  <2>. QED
    BY <2>2, <2>3 DEF FileTypeOK
<1>2. QueueTypeOK'
  BY <1>1 DEF QueueTypeOK, Crash
<1>3. WorkerTypeOK'
  BY DEF WorkerTypeOK, Crash, NoItem
<1>4. ClientTypeOK'
  BY <1>1 DEF TypeOK, ClientTypeOK, Crash
<1>5. LifeTypeOK'
  BY DEF TypeOK, LifeTypeOK, Crash
<1>6. FlagTypeOK'
  BY Zenon DEF TypeOK, FlagTypeOK, Crash
<1>. QED
  BY <1>1, <1>2, <1>3, <1>4, <1>5, <1>6 DEF TypeOK

LEMMA LifeStepTypeOK ==
  /\ TypeOK
  /\ \/ CloseSignals \/ CloseSetsDone \/ CloseFlushes
     \/ Tick \/ TickLock \/ SetDequeueCheck
  => TypeOK'
<1>. SUFFICES ASSUME TypeOK,
                     \/ CloseSignals \/ CloseSetsDone \/ CloseFlushes
                     \/ Tick \/ TickLock \/ SetDequeueCheck
              PROVE  TypeOK'
  OBVIOUS
<1>. USE DEF CloseSignals, CloseSetsDone, CloseFlushes, Tick, TickLock, SetDequeueCheck
<1>1. QueueTypeOK'
  BY DEF TypeOK, QueueTypeOK, queueVars
<1>2. LifeTypeOK'
  BY DEF TypeOK, LifeTypeOK
<1>3. UNCHANGED <<fileVars, workerVars, clientVars>>
  OBVIOUS
<1>4. UNCHANGED dequeueCheck \/ dequeueCheck' = ~dequeueCheck
  OBVIOUS
<1>5. FlagTypeOK'
  BY <1>3, <1>4, Zenon DEF TypeOK, FlagTypeOK, fileVars, workerVars
<1>. QED
  BY <1>1, <1>2, <1>3, <1>5, UnchangedTypes DEF TypeOK

LEMMA StutterTypeOK == TypeOK /\ UNCHANGED vars => TypeOK'
  BY UnchangedTypes DEF TypeOK, vars, fileVars, workerVars, lifeVars

(* Every variable keeps its type under every step of the queue, its workers, *)
(* its saves, Close and a crash.                                             *)
THEOREM TypeCorrect == Spec => []TypeOK
<1>1. Init => TypeOK
  BY InitTypeOK
<1>2. TypeOK /\ [Next]_vars => TypeOK'
  BY EnqueueTypeOK, WorkerStepTypeOK, SaveTypeOK, CrashTypeOK, LifeStepTypeOK,
     StutterTypeOK DEF Next
<1>. QED
  BY <1>1, <1>2, PTL DEF Spec

-----------------------------------------------------------------------------
(* What a crash costs.  Outside a save an Enqueue or a Dequeue that does not *)
(* fill a batch adds one operation to the lag; a save that succeeds sets it  *)
(* to zero; one that fails makes the file stale.                             *)

LEMMA LagSelf ==
  ASSUME NEW q \in Seq(Nat), NEW n \in Nat
  PROVE  Lag(q, q, n)
<1>1. /\ 0 \in 0 .. n
      /\ Len(q) \in Nat
      /\ \A i \in 1 .. Len(q) - 0 : q[0 + i] = q[i]
  OBVIOUS
<1>. QED
  BY <1>1 DEF Lag

LEMMA LagAppend ==
  ASSUME NEW q \in Seq(Nat), NEW f \in Seq(Nat), NEW n \in Nat, NEW t \in Nat,
         Lag(q, f, n)
  PROVE  Lag(Append(q, t), f, n + 1)
<1>1. PICK d \in 0 .. n, e \in 0 .. n :
        /\ d + e <= n
        /\ d <= Len(f)
        /\ e <= Len(q)
        /\ Len(f) - d = Len(q) - e
        /\ \A i \in 1 .. Len(q) - e : f[d + i] = q[i]
  BY DEF Lag
<1>2. /\ Len(Append(q, t)) = Len(q) + 1
      /\ \A i \in 1 .. Len(q) : Append(q, t)[i] = q[i]
  OBVIOUS
<1>3. d \in 0 .. n + 1 /\ e + 1 \in 0 .. n + 1
  OBVIOUS
<1>4. /\ d + (e + 1) <= n + 1
      /\ e + 1 <= Len(Append(q, t))
      /\ Len(f) - d = Len(Append(q, t)) - (e + 1)
      /\ \A i \in 1 .. Len(Append(q, t)) - (e + 1) : f[d + i] = Append(q, t)[i]
  <2>1. Len(q) \in Nat /\ Len(f) \in Nat
    OBVIOUS
  <2>2. Len(Append(q, t)) - (e + 1) = Len(q) - e
    BY <1>2, <2>1
  <2>4. ASSUME NEW i \in 1 .. Len(Append(q, t)) - (e + 1)
        PROVE  f[d + i] = Append(q, t)[i]
    <3>0. i \in 1 .. Len(q) - e
      BY ONLY <2>2
    <3>1. i \in 1 .. Len(q)
      BY ONLY <2>1, <3>0, e \in 0 .. n, n \in Nat
    <3>2. f[d + i] = q[i]
      BY ONLY <1>1, <3>0
    <3>3. Append(q, t)[i] = q[i]
      BY <1>2, <3>1
    <3>. QED
      BY ONLY <3>2, <3>3
  <2>5. /\ d + (e + 1) <= n + 1
        /\ e + 1 <= Len(Append(q, t))
        /\ Len(f) - d = Len(Append(q, t)) - (e + 1)
    <3>1. /\ d + e <= n /\ e <= Len(q)
          /\ Len(f) - d = Len(q) - e
      BY ONLY <1>1
    <3>2. Len(Append(q, t)) = Len(q) + 1
      BY ONLY <1>2
    <3>3. Len(Append(q, t)) \in Nat
      BY ONLY <2>1, <3>2
    <3>4. \A x, y, z \in Nat : d + e <= n /\ e <= x /\ y - d = x - e /\ z = x + 1
             => d + (e + 1) <= n + 1 /\ e + 1 <= z /\ y - d = z - (e + 1)
      BY ONLY n \in Nat, d \in 0 .. n, e \in 0 .. n
    <3>. QED
      BY ONLY <2>1, <3>1, <3>2, <3>3, <3>4, Zenon
  <2>. QED
    BY ONLY <2>4, <2>5
<1>. QED
  BY <1>1, <1>3, <1>4 DEF Lag

LEMMA LagTail ==
  ASSUME NEW q \in Seq(Nat), NEW f \in Seq(Nat), NEW n \in Nat, q # <<>>,
         Lag(q, f, n)
  PROVE  Lag(Tail(q), f, n + 1)
<1>1. PICK d \in 0 .. n, e \in 0 .. n :
        /\ d + e <= n
        /\ d <= Len(f)
        /\ e <= Len(q)
        /\ Len(f) - d = Len(q) - e
        /\ \A i \in 1 .. Len(q) - e : f[d + i] = q[i]
  BY DEF Lag
<1>2. /\ Len(Tail(q)) = Len(q) - 1
      /\ Len(q) > 0
      /\ \A i \in 1 .. Len(q) - 1 : Tail(q)[i] = q[i + 1]
  OBVIOUS
<1>3. CASE e = Len(q)
  <2>1. d \in 0 .. n + 1 /\ e - 1 \in 0 .. n + 1
    BY <1>2, <1>3
  <2>2. /\ d + (e - 1) <= n + 1
        /\ e - 1 <= Len(Tail(q))
        /\ Len(f) - d = Len(Tail(q)) - (e - 1)
        /\ \A i \in 1 .. Len(Tail(q)) - (e - 1) : f[d + i] = Tail(q)[i]
    BY <1>1, <1>2, <1>3
  <2>. QED
    BY <1>1, <2>1, <2>2 DEF Lag
<1>4. CASE e < Len(q)
  <2>1. d + 1 \in 0 .. n + 1 /\ e \in 0 .. n + 1
    OBVIOUS
  <2>2. /\ (d + 1) + e <= n + 1
        /\ d + 1 <= Len(f)
        /\ e <= Len(Tail(q))
        /\ Len(f) - (d + 1) = Len(Tail(q)) - e
    BY <1>1, <1>2, <1>4
  <2>3. \A i \in 1 .. Len(Tail(q)) - e : f[(d + 1) + i] = Tail(q)[i]
    <3>. TAKE i \in 1 .. Len(Tail(q)) - e
    <3>1. Tail(q)[i] = q[i + 1]
      BY <1>2
    <3>2. i + 1 \in 1 .. Len(q) - e
      BY <1>2
    <3>3. f[d + (i + 1)] = q[i + 1]
      BY <1>1, <3>2
    <3>. QED
      BY <3>1, <3>3
  <2>. QED
    BY <2>1, <2>2, <2>3 DEF Lag
<1>. QED
  BY <1>1, <1>3, <1>4

LEMMA LagUnchanged ==
  ASSUME UNCHANGED <<queueVars, fileVars>>, Lag(queue, queueFile, operationCount)
  PROVE  Lag(queue, queueFile, operationCount)'
  BY DEF queueVars, fileVars

LEMMA RestartLossStep ==
  TypeOK /\ RestartLoss /\ [Next]_vars => RestartLoss'
<1>. SUFFICES ASSUME TypeOK, RestartLoss, [Next]_vars, (saver = "none")', ~stale'
              PROVE  Lag(queue, queueFile, operationCount)'
  BY DEF RestartLoss
<1>. USE DEF RestartLoss
<1>0. queue \in Seq(Nat) /\ queueFile \in Seq(Nat) /\ operationCount \in Nat
  BY DEF TypeOK, QueueTypeOK, FileTypeOK
<1>1. CASE Enqueue
  <2>1. /\ saver = "none" /\ ~stale
        /\ operationCount' = operationCount + 1
        /\ queue' = Append(queue, tickets + 1)
        /\ queueFile' = queueFile
        /\ tickets + 1 \in Nat
    BY <1>1 DEF Enqueue, CheckSave, fileVars, TypeOK, ClientTypeOK
  <2>. QED
    BY <1>0, <2>1, LagAppend
<1>2. ASSUME NEW w \in workers, Dequeue(w)
      PROVE  Lag(queue, queueFile, operationCount)'
  <2>1. /\ saver = "none" /\ ~stale
        /\ operationCount' = operationCount + 1
        /\ queue # <<>>
        /\ queue' = Tail(queue)
        /\ queueFile' = queueFile
    BY <1>2 DEF Dequeue, RestOf, CheckSave, fileVars
  <2>. QED
    BY <1>0, <2>1, LagTail
<1>3. CASE SaveWrite
  <2>1. queueFile' = queue' /\ queue' \in Seq(Nat) /\ operationCount' \in Nat
    BY <1>0, <1>3 DEF SaveWrite, SaveReturns
  <2>. QED
    BY <2>1, LagSelf
<1>4. CASE Crash
  <2>1. queueFile' = queue' /\ queue' \in Seq(Nat) /\ operationCount' \in Nat
    BY <1>0, <1>4 DEF Crash
  <2>. QED
    BY <2>1, LagSelf
<1>5. CASE SaveOpen \/ SaveFails
  BY <1>5 DEF SaveOpen, SaveFails
<1>6. CASE TickLock \/ CloseFlushes
  BY <1>6 DEF TickLock, CloseFlushes
<1>7. CASE Tick \/ SetDequeueCheck \/ CloseSignals \/ CloseSetsDone
  BY <1>7 DEF Tick, SetDequeueCheck, CloseSignals, CloseSetsDone,
     queueVars, fileVars, Lag
<1>8. ASSUME NEW w \in workers, WorkerStep(w), ~Dequeue(w)
      PROVE  Lag(queue, queueFile, operationCount)'
  <2>1. UNCHANGED <<queueVars, fileVars>>
    BY Zenon, <1>8 DEF WorkerStep, WorkerExit, WorkerGoes, WorkerAsks, DequeueEmpty,
       WorkerConsumed
  <2>2. Lag(queue, queueFile, operationCount)
    BY <2>1, Zenon DEF queueVars, fileVars
  <2>. QED
    BY <2>1, <2>2, LagUnchanged, Zenon
<1>9. CASE UNCHANGED vars
  <2>1. UNCHANGED <<queueVars, fileVars>> /\ Lag(queue, queueFile, operationCount)
    BY <1>9, Zenon DEF vars, queueVars, fileVars
  <2>. QED
    BY <2>1, LagUnchanged, Zenon
<1>. QED
  BY <1>1, <1>2, <1>3, <1>4, <1>5, <1>6, <1>7, <1>8, <1>9 DEF Next

(* A crash while no save is running and after no failed one repeats and      *)
(* forgets at most operationCount operations, which checkSave keeps below    *)
(* the batch size.                                                           *)
THEOREM CrashCost == Spec => []RestartLoss
<1>1. Init => RestartLoss
  BY LagSelf, 0 \in Nat, <<>> \in Seq(Nat) DEF Init, RestartLoss
<1>. QED
  BY <1>1, TypeCorrect, RestartLossStep, PTL DEF Spec

-----------------------------------------------------------------------------
(* The exact FIFO of one life of the process.                                *)

LEMMA AppendConcat ==
  ASSUME NEW d \in Seq(Nat), NEW q \in Seq(Nat), NEW t \in Nat
  PROVE  d \o Append(q, t) = Append(d \o q, t)
  OBVIOUS

LEMMA MoveHead ==
  ASSUME NEW d \in Seq(Nat), NEW q \in Seq(Nat), q # <<>>
  PROVE  Append(d, Head(q)) \o Tail(q) = d \o q
<1>1. Head(q) \in Nat /\ Tail(q) \in Seq(Nat) /\ <<Head(q)>> \in Seq(Nat)
  OBVIOUS
<1>2. Append(d, Head(q)) = d \o <<Head(q)>>
  BY <1>1, AppendIsConcat
<1>3. q = <<Head(q)>> \o Tail(q)
  OBVIOUS
<1>4. (d \o <<Head(q)>>) \o Tail(q) = d \o (<<Head(q)>> \o Tail(q))
  BY <1>1, ConcatAssociative
<1>. QED
  BY <1>2, <1>3, <1>4, Zenon

LEMMA FifoStep == TypeOK /\ Fifo /\ [Next]_vars => Fifo'
<1>. SUFFICES ASSUME TypeOK, Fifo, [Next]_vars PROVE Fifo'
  OBVIOUS
<1>0. /\ queue \in Seq(Nat) /\ delivered \in Seq(Nat) /\ tickets \in Nat
      /\ queueFile \in Seq(Nat)
  BY DEF TypeOK, QueueTypeOK, WorkerTypeOK, ClientTypeOK, FileTypeOK
<1>1. CASE Enqueue
  <2>1. /\ queue' = Append(queue, tickets + 1)
        /\ accepted' = Append(accepted, tickets + 1)
        /\ delivered' = delivered
    BY <1>1 DEF Enqueue, workerVars
  <2>. QED
    BY <1>0, <2>1, AppendConcat DEF Fifo
<1>2. ASSUME NEW w \in workers, Dequeue(w)
      PROVE  Fifo'
  <2>1. /\ queue # <<>> /\ queue' = Tail(queue)
        /\ delivered' = Append(delivered, Head(queue))
        /\ accepted' = accepted
    BY <1>2 DEF Dequeue, RestOf, clientVars
  <2>. QED
    BY <1>0, <2>1, MoveHead DEF Fifo
<1>3. CASE Crash
  <2>1. /\ queue' = queueFile \/ queue' = <<>>
        /\ accepted' = queue' /\ delivered' = <<>>
    BY <1>3, Zenon DEF Crash
  <2>2. <<>> \in Seq(Nat)
    OBVIOUS
  <2>3. queue' \in Seq(Nat)
    BY <1>0, <2>1, <2>2
  <2>. QED
    BY <2>1, <2>3 DEF Fifo
<1>4. ASSUME UNCHANGED <<queue, delivered, accepted>>
      PROVE  Fifo'
  BY <1>4 DEF Fifo
<1>5. CASE \/ SaveOpen \/ SaveWrite \/ SaveFails \/ Tick \/ TickLock
           \/ CloseSignals \/ CloseSetsDone \/ CloseFlushes \/ SetDequeueCheck
  BY <1>5, <1>4, Zenon DEF SaveOpen, SaveWrite, SaveFails, Tick, TickLock,
     CloseSignals, CloseSetsDone, CloseFlushes, SetDequeueCheck,
     queueVars, workerVars, clientVars
<1>6. ASSUME NEW w \in workers, WorkerStep(w), ~Dequeue(w)
      PROVE  Fifo'
  BY <1>6, <1>4, Zenon DEF WorkerStep, WorkerExit, WorkerGoes, WorkerAsks,
     DequeueEmpty, WorkerConsumed, queueVars, clientVars
<1>7. CASE UNCHANGED vars
  BY <1>7, <1>4, Zenon DEF vars, queueVars, workerVars, clientVars
<1>. QED
  BY <1>1, <1>2, <1>3, <1>5, <1>6, <1>7 DEF Next

(* What this process loaded and accepted is what it delivered, followed by   *)
(* what still waits: no interleaving of clients, workers and saves loses,    *)
(* repeats or reorders an item.                                              *)
THEOREM ExactFifo == Spec => []Fifo
<1>1. Init => Fifo
  <2>1. <<>> \o <<>> = <<>>
    OBVIOUS
  <2>. QED
    BY <2>1 DEF Init, Fifo
<1>. QED
  BY <1>1, TypeCorrect, FifoStep, PTL DEF Spec

-----------------------------------------------------------------------------
(* One consumer per item, from the order of the tickets.                     *)

LEMMA TicketOrderStep == TypeOK /\ TicketOrder /\ [Next]_vars => TicketOrder'
<1>. SUFFICES ASSUME TypeOK, TicketOrder, [Next]_vars PROVE TicketOrder'
  OBVIOUS
<1>0. /\ queue \in Seq(Nat) /\ queueFile \in Seq(Nat) /\ tickets \in Nat
      /\ held \in [Worker -> Nat] /\ workers \subseteq Worker
  BY DEF TypeOK, QueueTypeOK, WorkerTypeOK, ClientTypeOK, FileTypeOK
<1>. USE DEF TicketOrder, Increasing, NoItem
<1>1. CASE Enqueue
  <2>1. /\ queue' = Append(queue, tickets + 1) /\ tickets' = tickets + 1
        /\ held' = held /\ queueFile' = queueFile
    BY <1>1 DEF Enqueue, workerVars, fileVars
  <2>2. /\ Len(queue') = Len(queue) + 1
        /\ queue'[Len(queue) + 1] = tickets + 1
        /\ \A i \in 1 .. Len(queue) : queue'[i] = queue[i]
    BY <1>0, <2>1
  <2>3. ASSUME NEW i \in 1 .. Len(queue'), NEW j \in 1 .. Len(queue'), i < j
        PROVE  queue'[i] < queue'[j]
    <3>1. Len(queue) \in Nat /\ i \in 1 .. Len(queue)
      BY <1>0, <2>2, <2>3
    <3>2. CASE j \in 1 .. Len(queue)
      BY <2>2, <2>3, <3>1, <3>2
    <3>3. CASE j = Len(queue) + 1
      <4>1. queue[i] \in 1 .. tickets
        BY <3>1
      <4>. QED
        BY <1>0, <2>2, <3>1, <3>3, <4>1
    <3>4. j \in 1 .. Len(queue) \/ j = Len(queue) + 1
      BY ONLY <2>2, <2>3, <3>1, SMT
    <3>. QED
      BY ONLY <3>2, <3>3, <3>4, Zenon
  <2>. QED
    BY <1>0, <2>1, <2>2, <2>3
<1>2. ASSUME NEW w \in workers, Dequeue(w)
      PROVE  TicketOrder'
  <2>1. /\ queue # <<>> /\ queue' = Tail(queue) /\ tickets' = tickets
        /\ held' = [held EXCEPT ![w] = Head(queue)]
        /\ queueFile' = queueFile
    BY <1>2 DEF Dequeue, RestOf, clientVars, fileVars
  <2>2. /\ Len(queue) > 0 /\ Head(queue) = queue[1]
        /\ Len(queue') = Len(queue) - 1
        /\ \A i \in 1 .. Len(queue) - 1 : queue'[i] = queue[i + 1]
    BY <1>0, <2>1
  <2>3. ASSUME NEW i \in 1 .. Len(queue'), NEW j \in 1 .. Len(queue'), i < j
        PROVE  queue'[i] < queue'[j]
    <3>1. /\ i + 1 \in 1 .. Len(queue) /\ j + 1 \in 1 .. Len(queue)
          /\ i + 1 < j + 1
          /\ queue'[i] = queue[i + 1] /\ queue'[j] = queue[j + 1]
      BY <1>0, <2>2, <2>3
    <3>. QED
      BY <3>1
  <2>4. \A i \in 1 .. Len(queue') : queue'[i] \in 1 .. tickets
    BY <1>0, <2>2
  <2>5. ASSUME NEW v \in Worker
        PROVE  /\ held'[v] <= tickets
               /\ held'[v] # NoItem =>
                    \A i \in 1 .. Len(queue') : held'[v] < queue'[i]
               /\ held'[v] # NoItem => \A u \in Worker \ {v} : held'[u] # held'[v]
    BY <1>0, <2>1, <2>2
  <2>. QED
    BY <2>1, <2>3, <2>4, <2>5
<1>3. CASE Crash
  <2>1. /\ queue' = queueFile \/ queue' = <<>>
        /\ held' = [v \in Worker |-> 0] /\ tickets' = tickets
        /\ queueFile' = queueFile
    BY <1>3, Zenon DEF Crash
  <2>. QED
    BY <1>0, <2>1
<1>4. ASSUME UNCHANGED <<queue, held, tickets>>,
             queueFile' = queueFile \/ queueFile' = queue \/ queueFile' = <<>>
      PROVE  TicketOrder'
  BY <1>0, <1>4
<1>5. CASE \/ SaveOpen \/ SaveWrite \/ SaveFails \/ Tick \/ TickLock
           \/ CloseSignals \/ CloseSetsDone \/ CloseFlushes \/ SetDequeueCheck
  <2>1. /\ UNCHANGED <<queue, held, tickets>>
        /\ queueFile' = queueFile \/ queueFile' = queue \/ queueFile' = <<>>
    BY <1>5, Zenon DEF SaveOpen, SaveWrite, SaveFails, Tick, TickLock,
       CloseSignals, CloseSetsDone, CloseFlushes, SetDequeueCheck,
       queueVars, workerVars, clientVars, fileVars
  <2>. QED
    BY <2>1, <1>4, Zenon
<1>6. ASSUME NEW w \in workers, WorkerStep(w), ~Dequeue(w)
      PROVE  TicketOrder'
  <2>1. /\ UNCHANGED <<queue, queueFile, tickets>>
        /\ held' = held \/ held' = [held EXCEPT ![w] = 0]
    BY <1>6, Zenon DEF WorkerStep, WorkerExit, WorkerGoes, WorkerAsks,
       DequeueEmpty, WorkerConsumed, queueVars, clientVars, fileVars
  <2>2. \A v \in Worker : held'[v] = held[v] \/ held'[v] = 0
    BY <1>0, <2>1
  <2>. QED
    BY <1>0, <2>1, <2>2
<1>7. CASE UNCHANGED vars
  BY <1>7, <1>4, Zenon DEF vars, queueVars, workerVars, clientVars, fileVars
<1>. QED
  BY <1>1, <1>2, <1>3, <1>5, <1>6, <1>7 DEF Next

(* No two workers consume the same item, and no item is consumed while it    *)
(* still waits in the queue, across crashes as well.                         *)
THEOREM ConsumedOnce == Spec => []SingleConsumer
<1>1. Init => TicketOrder
  BY DEF Init, TicketOrder, Increasing, NoItem
<1>2. TypeOK /\ TicketOrder => SingleConsumer
  BY DEF TypeOK, QueueTypeOK, WorkerTypeOK, TicketOrder, SingleConsumer
<1>. QED
  BY <1>1, <1>2, TypeCorrect, TicketOrderStep, PTL DEF Spec

-----------------------------------------------------------------------------
(* Close.                                                                    *)

LEMMA QuiescenceStep == TypeOK /\ Quiescence /\ [Next]_vars => Quiescence'
<1>. SUFFICES ASSUME TypeOK, Quiescence, [Next]_vars
              PROVE  Quiescence'
  OBVIOUS
<1>. USE WorkerAssumption DEF Quiescence, NoItem
<1>0. /\ workers \subseteq Worker
      /\ pc \in [Worker -> {"check", "asked", "dequeue", "consume", "exited"}]
      /\ held \in [Worker -> Nat]
  BY DEF TypeOK, WorkerTypeOK
<1>1. CASE Enqueue
  BY <1>1 DEF Enqueue, CheckSave, workerVars, lifeVars
<1>2. ASSUME NEW w \in workers, WorkerStep(w)
      PROVE  Quiescence'
  <2>1. CASE Dequeue(w)
    <3>1. saver' = w \/ saver' = "none"
      BY <2>1 DEF Dequeue, CheckSave
    <3>2. /\ pc[w] = "dequeue" /\ pc' = [pc EXCEPT ![w] = "consume"]
          /\ held' = [held EXCEPT ![w] = Head(queue)]
          /\ UNCHANGED <<ticker, closer, workers>>
      BY <2>1 DEF Dequeue, lifeVars
    <3>. QED
      BY <1>0, <3>1, <3>2
  <2>2. CASE WorkerConsumed(w)
    BY <1>0, <2>2 DEF WorkerConsumed, queueVars, lifeVars
  <2>3. ASSUME pc[w] \in {"check", "asked", "dequeue"},
               \E p \in {"check", "asked", "dequeue", "exited"} :
                  pc' = [pc EXCEPT ![w] = p],
               UNCHANGED <<saver, ticker, closer, workers, held>>
        PROVE  Quiescence'
    BY <1>0, <2>3
  <2>4. CASE WorkerExit(w) \/ WorkerGoes(w) \/ WorkerAsks(w) \/ DequeueEmpty(w)
    <3>1. /\ pc[w] \in {"check", "asked", "dequeue"}
          /\ \E p \in {"check", "asked", "dequeue", "exited"} :
                pc' = [pc EXCEPT ![w] = p]
          /\ UNCHANGED <<saver, ticker, closer, workers, held>>
      BY <2>4 DEF WorkerExit, WorkerGoes, WorkerAsks, DequeueEmpty, AfterEmpty,
         queueVars, lifeVars
    <3>. QED
      BY <2>3, <3>1
  <2>. QED
    BY <1>2, <2>1, <2>2, <2>4 DEF WorkerStep
<1>3. CASE Tick \/ TickLock
  BY <1>3 DEF Tick, TickLock, queueVars, workerVars
<1>4. CASE SaveOpen
  BY <1>4 DEF SaveOpen, workerVars, lifeVars
<1>5. CASE SaveWrite \/ SaveFails
  BY <1>5 DEF SaveWrite, SaveFails, SaveReturns, workerVars
<1>6. CASE CloseSignals \/ CloseSetsDone \/ CloseFlushes
  BY <1>6 DEF CloseSignals, CloseSetsDone, CloseFlushes, AllExited,
     queueVars, workerVars
<1>7. CASE SetDequeueCheck \/ UNCHANGED vars
  BY <1>7 DEF SetDequeueCheck, vars, queueVars, workerVars, lifeVars
<1>8. CASE Crash
  BY <1>8 DEF Crash
<1>. QED
  BY <1>1, <1>2, <1>3, <1>4, <1>5, <1>6, <1>7, <1>8 DEF Next

LEMMA QuiescenceHolds == Spec => []Quiescence
<1>1. Init => Quiescence
  BY DEF Init, Quiescence, NoItem
<1>. QED
  BY <1>1, TypeCorrect, QuiescenceStep, PTL DEF Spec

(* When Close starts its last save nobody but a client can change the queue: *)
(* the workers have returned with nothing in hand, and so has the ticker.    *)
THEOREM CloseIsQuiet == Spec => []CloseQuiesces
<1>1. TypeOK /\ Quiescence => CloseQuiesces
  BY DEF Quiescence, CloseQuiesces, TypeOK, WorkerTypeOK
<1>. QED
  BY <1>1, TypeCorrect, QuiescenceHolds, PTL

-----------------------------------------------------------------------------
(* Refinement.                                                               *)

InHand == {held[w] : w \in Worker} \ {NoItem}

LEMMA TakesFromHead ==
  ASSUME TypeOK, TicketOrder, Quiescence, NEW w \in workers, Dequeue(w)
  PROVE  Abstract!Take
<1>1. /\ queue # <<>> /\ queue' = Tail(queue) /\ pc[w] = "dequeue"
      /\ tickets' = tickets /\ queueFile' = queueFile
      /\ held' = [held EXCEPT ![w] = Head(queue)]
  BY DEF Dequeue, RestOf, clientVars, fileVars
<1>2. /\ w \in Worker /\ held \in [Worker -> Nat]
      /\ queue \in Seq(Nat) /\ tickets \in Nat
  BY DEF TypeOK, WorkerTypeOK, QueueTypeOK, ClientTypeOK
<1>3. Head(queue) = queue[1] /\ 1 \in 1 .. Len(queue)
  BY <1>1, <1>2
<1>4. Head(queue) # NoItem /\ \A v \in Worker : held[v] # Head(queue)
  BY <1>2, <1>3 DEF TicketOrder, NoItem
<1>5. held[w] = NoItem
  BY <1>1, <1>2 DEF Quiescence
<1>6. \A v \in Worker : held'[v] = IF v = w THEN Head(queue) ELSE held[v]
  BY <1>1, <1>2
<1>7. InHand' = InHand \cup {Head(queue)}
  BY <1>2, <1>4, <1>5, <1>6 DEF InHand
<1>. QED
  BY <1>1, <1>4, <1>7 DEF Abstract!Take, InHand

LEMMA FinishesOne ==
  ASSUME TypeOK, TicketOrder, NEW w \in workers, WorkerConsumed(w)
  PROVE  [Abstract!Next]_(Abstract!fifoVars)
<1>1. /\ queue' = queue /\ tickets' = tickets /\ queueFile' = queueFile
      /\ held' = [held EXCEPT ![w] = NoItem]
  BY DEF WorkerConsumed, queueVars, clientVars, fileVars
<1>2. /\ w \in Worker /\ held \in [Worker -> Nat] /\ tickets \in 0 .. MaxTicket
  BY DEF TypeOK, WorkerTypeOK, ClientTypeOK
<1>3. \A v \in Worker : held'[v] = IF v = w THEN NoItem ELSE held[v]
  BY <1>1, <1>2
<1>4. CASE held[w] = NoItem
  <2>1. InHand' = InHand
    BY <1>3, <1>4 DEF InHand
  <2>. QED
    BY <1>1, <2>1 DEF Abstract!fifoVars, InHand
<1>5. CASE held[w] # NoItem
  <2>1. \A v \in Worker \ {w} : held[v] # held[w]
    BY <1>2, <1>5 DEF TicketOrder
  <2>2. InHand' = InHand \ {held[w]} /\ held[w] \in InHand
    BY <1>2, <1>3, <1>5, <2>1 DEF InHand
  <2>3. PICK t \in 1 .. MaxTicket : t = held[w]
    BY <1>2, <1>5 DEF TicketOrder, NoItem
  <2>4. Abstract!Finish(t)
    BY <1>1, <2>2, <2>3 DEF Abstract!Finish, InHand
  <2>5. \E u \in 1 .. MaxTicket : Abstract!Accept(u) \/ Abstract!Finish(u)
    BY <2>3, <2>4
  <2>. QED
    BY <2>5 DEF Abstract!Next
<1>. QED
  BY <1>4, <1>5

LEMMA FifoSimulation ==
  TypeOK /\ TicketOrder /\ Quiescence /\ [Next]_vars
    => [Abstract!Next]_(Abstract!fifoVars)
<1>. SUFFICES ASSUME TypeOK, TicketOrder, Quiescence, [Next]_vars
              PROVE  [Abstract!Next]_(Abstract!fifoVars)
  OBVIOUS
<1>1. CASE Enqueue
  <2>1. /\ tickets' = tickets + 1 /\ tickets < MaxTicket
        /\ queue' = Append(queue, tickets')
        /\ held' = held /\ queueFile' = queueFile
    BY <1>1 DEF Enqueue, workerVars, fileVars
  <2>2. tickets \in 0 .. MaxTicket
    BY DEF TypeOK, ClientTypeOK
  <2>3. /\ tickets' \in 1 .. MaxTicket /\ tickets' \notin 1 .. tickets
        /\ 1 .. tickets' = (1 .. tickets) \cup {tickets'}
    BY <2>1, <2>2
  <2>4. Abstract!Accept(tickets')
    BY <2>1, <2>3 DEF Abstract!Accept
  <2>5. \E t \in 1 .. MaxTicket : Abstract!Accept(t) \/ Abstract!Finish(t)
    BY <2>3, <2>4
  <2>. QED
    BY <2>5 DEF Abstract!Next
<1>2. ASSUME NEW w \in workers, WorkerStep(w)
      PROVE  [Abstract!Next]_(Abstract!fifoVars)
  <2>1. CASE Dequeue(w)
    BY <2>1, TakesFromHead DEF Abstract!Next
  <2>2. CASE WorkerConsumed(w)
    BY <2>2, FinishesOne
  <2>3. CASE WorkerExit(w) \/ WorkerGoes(w) \/ WorkerAsks(w) \/ DequeueEmpty(w)
    BY <2>3, Zenon DEF WorkerExit, WorkerGoes, WorkerAsks, DequeueEmpty,
       queueVars, fileVars, clientVars, Abstract!fifoVars
  <2>. QED
    BY <1>2, <2>1, <2>2, <2>3 DEF WorkerStep
<1>3. CASE SaveOpen \/ SaveWrite \/ SaveFails
  <2>1. /\ UNCHANGED <<queue, held, tickets>>
        /\ queueFile' = queueFile \/ queueFile' = queue \/ queueFile' = <<>>
    BY <1>3, Zenon DEF SaveOpen, SaveWrite, SaveFails, workerVars, clientVars
  <2>2. CASE queueFile' = queueFile
    BY <2>1, <2>2 DEF Abstract!fifoVars
  <2>3. CASE queueFile' \in {queue, <<>>}
    BY <2>1, <2>3 DEF Abstract!Next, Abstract!Snapshot
  <2>. QED
    BY <2>1, <2>2, <2>3
<1>4. CASE \/ Tick \/ TickLock \/ CloseSignals \/ CloseSetsDone
           \/ CloseFlushes \/ SetDequeueCheck \/ UNCHANGED vars
  BY <1>4, Zenon DEF Tick, TickLock, CloseSignals, CloseSetsDone, CloseFlushes,
     SetDequeueCheck, vars, queueVars, fileVars, workerVars, clientVars,
     Abstract!fifoVars
<1>5. CASE Crash
  <2>1. /\ queue' = queueFile \/ queue' = <<>>
        /\ held' = [v \in Worker |-> NoItem]
        /\ tickets' = tickets /\ queueFile' = queueFile
    BY <1>5, Zenon DEF Crash
  <2>2. InHand' = {}
    BY <2>1 DEF InHand
  <2>. QED
    BY <2>1, <2>2 DEF Abstract!Next, Abstract!Restart, InHand
<1>. QED
  BY <1>1, <1>2, <1>3, <1>4, <1>5 DEF Next

(* The queue implements its abstract promise for every number of workers,    *)
(* capacity and batch size: an exact FIFO with single delivery, whose        *)
(* restarts go back to what the file held.                                   *)
THEOREM FifoImplemented == Spec => ImplementsFifo
<1>1. Init => Abstract!Init
  BY DEF Init, Abstract!Init, NoItem
<1>2. Init => TicketOrder
  BY DEF Init, TicketOrder, Increasing, NoItem
<1>. QED
  BY <1>1, <1>2, TypeCorrect, TicketOrderStep, QuiescenceHolds, FifoSimulation,
     PTL DEF Spec, ImplementsFifo, Abstract!Spec
=============================================================================
