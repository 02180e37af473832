--------------------------- MODULE DownloadQueue ---------------------------
(* The persistent FIFO of requested downloads, internal/service/             *)
(* queue_service.go, from NewDownloadQueue to Close.                         *)
(*                                                                           *)
(* An item is the ticket number of its Enqueue.  dq.mutex is held for a      *)
(* whole Enqueue, Dequeue or save: a locked section that does not save is    *)
(* one action guarded by saver = "none", one that saves keeps the mutex      *)
(* (saver # "none") while os.WriteFile truncates and then writes the file.   *)
(* The program never calls Close, so each stop of the process is a Crash;    *)
(* Close is modelled as the operation it offers.                             *)
EXTENDS Naturals, Sequences, FiniteSets

CONSTANTS
    Worker,          \* the goroutines Start may launch
    SlotsPerWorker,  \* capacity / workers: 100 in torrent_service.go
    BatchSize,       \* operations between two saves: 10 in torrent_service.go
    MaxTicket,       \* bound: items accepted in the whole behaviour
    MaxCrash,        \* bound: crashes
    MaxFailure       \* bound: file reads and writes that fail

ASSUME SlotsAssumption == SlotsPerWorker \in Nat \ {0}
ASSUME BatchAssumption == BatchSize \in Nat \ {0}
ASSUME BoundAssumption ==
    /\ MaxTicket \in Nat
    /\ MaxCrash \in Nat
    /\ MaxFailure \in Nat
ASSUME WorkerAssumption ==
    /\ IsFiniteSet(Worker)
    /\ Worker \cap {"none", "client", "ticker", "close"} = {}

VARIABLES
    queue, operationCount, enqueueCounter, dequeueWorkersSleep,
    workers,      \* the goroutines started by this process
    pc, held,     \* of each worker: where it is, and the item it consumes
    saver,        \* who holds the mutex to save: "none" when it is free
    saveStep,     \* "open" or "write": how far os.WriteFile got
    queueFile,    \* what loadQueue would read now; a torn file reads as empty
    ticker,       \* periodicSaveQueue: "select", "lock", "save", "exited"
    closer,       \* Close: "open", "signal", "wait", "flush", "closed"
    dequeueCheck, \* the answer of the consumer's dequeue check
    accepted,     \* history: items loaded, then accepted, by this process
    delivered,    \* history: items handed to workers by this process
    stale,        \* history: a read or write failed since queueFile was good
    tickets, crashes, failures

queueVars == <<queue, operationCount, saver, saveStep>>
fileVars == <<queueFile, stale, failures>>
workerVars == <<workers, pc, held, dequeueWorkersSleep, delivered>>
clientVars == <<enqueueCounter, accepted, tickets>>
lifeVars == <<ticker, closer, dequeueCheck, crashes>>
vars == <<queueVars, fileVars, workerVars, clientVars, lifeVars>>

NoItem == 0
capacity == SlotsPerWorker * Cardinality(workers)
done == closer \in {"wait", "flush", "closed"}

-----------------------------------------------------------------------------
(* NewDownloadQueue and Start on a machine with no queue file: the number of *)
(* workers comes from the configuration of the day.                          *)
Init ==
    /\ workers \in (SUBSET Worker) \ {{}}
    /\ queue = <<>> /\ queueFile = <<>>
    /\ accepted = <<>> /\ delivered = <<>>
    /\ operationCount = 0 /\ enqueueCounter = 0
    /\ dequeueWorkersSleep = FALSE
    /\ pc = [w \in Worker |-> "check"]
    /\ held = [w \in Worker |-> NoItem]
    /\ saver = "none" /\ saveStep = "open"
    /\ ticker = "select" /\ closer = "open"
    /\ dequeueCheck = FALSE
    /\ stale = FALSE
    /\ tickets = 0
    /\ crashes = 0
    /\ failures = 0

(* The process dies and NewDownloadQueue runs again.  loadQueue keeps the    *)
(* file's items, more of them than fit perhaps, or none when reading fails.  *)
Crash ==
    /\ crashes < MaxCrash
    /\ crashes' = crashes + 1
    /\ \/ queue' = queueFile /\ stale' = FALSE /\ failures' = failures
       \/ queue' = <<>> /\ stale' = TRUE /\ failures < MaxFailure
                       /\ failures' = failures + 1
    /\ workers' \in (SUBSET Worker) \ {{}}
    /\ accepted' = queue' /\ delivered' = <<>>
    /\ operationCount' = 0 /\ enqueueCounter' = 0
    /\ dequeueWorkersSleep' = FALSE
    /\ pc' = [w \in Worker |-> "check"]
    /\ held' = [w \in Worker |-> NoItem]
    /\ saver' = "none" /\ saveStep' = "open"
    /\ ticker' = "select" /\ closer' = "open"
    /\ UNCHANGED <<queueFile, dequeueCheck, tickets>>

-----------------------------------------------------------------------------
CheckSaveUncounted(by) ==
    /\ operationCount' = (operationCount + 1) % BatchSize
    /\ UNCHANGED <<saver, saveStep>>

CheckSaveLate(by) ==
    /\ operationCount' = operationCount + 1
    /\ saver' = IF operationCount' > BatchSize THEN by ELSE "none"
    /\ saveStep' = "open"

CheckSave(by) ==
    /\ operationCount' = operationCount + 1
    /\ saver' = IF operationCount' >= BatchSize THEN by ELSE "none"
    /\ saveStep' = "open"

Enqueue ==
    /\ saver = "none"
    /\ Len(queue) < capacity
    /\ tickets < MaxTicket
    /\ tickets' = tickets + 1
    /\ queue' = Append(queue, tickets')
    /\ accepted' = Append(accepted, tickets')
    /\ enqueueCounter' = enqueueCounter + 1
    /\ CheckSave("client")
    /\ UNCHANGED <<fileVars, workerVars, lifeVars>>

NewestOut(q) == SubSeq(q, 1, Len(q) - 1)
NothingOut(q) == q
RestOf(q) == Tail(q)

ExitWhenEmpty == "exited"
AfterEmpty == "check"

Dequeue(w) ==
    /\ saver = "none"
    /\ pc[w] = "dequeue"
    /\ queue # <<>>
    /\ queue' = RestOf(queue)
    /\ held' = [held EXCEPT ![w] = Head(queue)]
    /\ delivered' = Append(delivered, Head(queue))
    /\ pc' = [pc EXCEPT ![w] = "consume"]
    /\ CheckSave(w)
    /\ UNCHANGED <<fileVars, clientVars, lifeVars, workers, dequeueWorkersSleep>>

DequeueEmpty(w) ==
    /\ saver = "none"
    /\ pc[w] = "dequeue"
    /\ queue = <<>>
    /\ pc' = [pc EXCEPT ![w] = AfterEmpty]
    /\ UNCHANGED <<queueVars, fileVars, clientVars, lifeVars,
                   workers, held, dequeueWorkersSleep, delivered>>

-----------------------------------------------------------------------------
WorkerExit(w) ==
    /\ pc[w] = "check"
    /\ done
    /\ pc' = [pc EXCEPT ![w] = "exited"]
    /\ UNCHANGED <<queueVars, fileVars, clientVars, lifeVars,
                   workers, held, dequeueWorkersSleep, delivered>>

(* done is read before the check runs, so a worker that saw it FALSE may     *)
(* still dequeue after Close set it.                                         *)
WorkerGoes(w) ==
    /\ pc[w] = "check"
    /\ ~done
    /\ pc' = [pc EXCEPT ![w] = "asked"]
    /\ UNCHANGED <<queueVars, fileVars, clientVars, lifeVars,
                   workers, held, dequeueWorkersSleep, delivered>>

WorkerAsks(w) ==
    /\ pc[w] = "asked"
    /\ dequeueWorkersSleep' = ~dequeueCheck
    /\ pc' = [pc EXCEPT ![w] = IF dequeueCheck THEN "dequeue" ELSE "check"]
    /\ UNCHANGED <<queueVars, fileVars, clientVars, lifeVars,
                   workers, held, delivered>>

(* consumerFunc(wid, item) returns.                                          *)
WorkerConsumed(w) ==
    /\ pc[w] = "consume"
    /\ saver # w
    /\ held' = [held EXCEPT ![w] = NoItem]
    /\ pc' = [pc EXCEPT ![w] = "check"]
    /\ UNCHANGED <<queueVars, fileVars, clientVars, lifeVars,
                   workers, dequeueWorkersSleep, delivered>>

SetDequeueCheck ==
    /\ dequeueCheck' = ~dequeueCheck
    /\ UNCHANGED <<queueVars, fileVars, workerVars, clientVars,
                   ticker, closer, crashes>>

-----------------------------------------------------------------------------
(* periodicSaveQueue reads operationCount before it takes the mutex.         *)
TickOnFullBatch == operationCount >= BatchSize
TickDue == operationCount > 0

Tick ==
    /\ ticker = "select"
    /\ TickDue
    /\ ticker' = "lock"
    /\ UNCHANGED <<queueVars, fileVars, workerVars, clientVars,
                   closer, dequeueCheck, crashes>>

TickLock ==
    /\ ticker = "lock"
    /\ saver = "none"
    /\ saver' = "ticker"
    /\ saveStep' = "open"
    /\ ticker' = "save"
    /\ UNCHANGED <<queue, operationCount, fileVars, workerVars, clientVars,
                   closer, dequeueCheck, crashes>>

(* Whatever saveQueue met, its caller resets operationCount (Close does not) *)
(* and releases the mutex.                                                   *)
SaveReturns ==
    /\ operationCount' = IF saver = "close" THEN operationCount ELSE 0
    /\ ticker' = IF saver = "ticker" THEN "select" ELSE ticker
    /\ closer' = IF saver = "close" THEN "closed" ELSE closer
    /\ saver' = "none"
    /\ saveStep' = "open"

SaveOpen ==
    /\ saver # "none"
    /\ saveStep = "open"
    /\ queueFile' = <<>>
    /\ saveStep' = "write"
    /\ UNCHANGED <<queue, operationCount, saver, stale, failures,
                   workerVars, clientVars, lifeVars>>

SaveWrite ==
    /\ saver # "none"
    /\ saveStep = "write"
    /\ queueFile' = queue
    /\ stale' = FALSE
    /\ SaveReturns
    /\ UNCHANGED <<queue, failures, workerVars, clientVars, dequeueCheck, crashes>>

SaveFails ==
    /\ saver # "none"
    /\ failures < MaxFailure
    /\ failures' = failures + 1
    /\ stale' = TRUE
    /\ SaveReturns
    /\ UNCHANGED <<queue, queueFile, workerVars, clientVars, dequeueCheck, crashes>>

-----------------------------------------------------------------------------
CloseSignals ==
    /\ closer = "open"
    /\ ticker = "select"
    /\ ticker' = "exited"
    /\ closer' = "signal"
    /\ UNCHANGED <<queueVars, fileVars, workerVars, clientVars,
                   dequeueCheck, crashes>>

CloseSetsDone ==
    /\ closer = "signal"
    /\ closer' = "wait"
    /\ UNCHANGED <<queueVars, fileVars, workerVars, clientVars,
                   ticker, dequeueCheck, crashes>>

NoWait == TRUE
AllExited == \A w \in workers : pc[w] = "exited"

CloseFlushes ==
    /\ closer = "wait"
    /\ AllExited
    /\ saver = "none"
    /\ saver' = "close"
    /\ saveStep' = "open"
    /\ closer' = "flush"
    /\ UNCHANGED <<queue, operationCount, fileVars, workerVars, clientVars,
                   ticker, dequeueCheck, crashes>>

-----------------------------------------------------------------------------
WorkerStep(w) ==
    \/ WorkerExit(w) \/ WorkerGoes(w) \/ WorkerAsks(w)
    \/ Dequeue(w) \/ DequeueEmpty(w) \/ WorkerConsumed(w)

Next ==
    \/ Enqueue
    \/ \E w \in workers : WorkerStep(w)
    \/ Tick \/ TickLock
    \/ SaveOpen \/ SaveWrite \/ SaveFails
    \/ CloseSignals \/ CloseSetsDone \/ CloseFlushes
    \/ SetDequeueCheck
    \/ Crash

Spec == Init /\ [][Next]_vars

(* A worker and the ticker keep running, the file system answers, and Go's   *)
(* sync.Mutex starves nobody (strong fairness of the locked sections).  The  *)
(* consumer is assumed to return.  Nothing makes a client enqueue, anyone    *)
(* close the queue, or the check change its answer.                          *)
Fairness ==
    /\ \A w \in Worker :
          /\ WF_vars(w \in workers /\ (WorkerExit(w) \/ WorkerGoes(w) \/ WorkerAsks(w)))
          /\ WF_vars(w \in workers /\ WorkerConsumed(w))
          /\ SF_vars(w \in workers /\ (Dequeue(w) \/ DequeueEmpty(w)))
    /\ WF_vars(Tick)
    /\ SF_vars(TickLock)
    /\ WF_vars(SaveOpen)
    /\ WF_vars(SaveWrite)
    /\ WF_vars(CloseSetsDone)
    /\ SF_vars(CloseFlushes)

FairSpec == Spec /\ Fairness

-----------------------------------------------------------------------------
(* Only an Enqueue or a Dequeue that is about to save holds a full batch.    *)
QueueTypeOK ==
    /\ queue \in Seq(Nat)
    /\ saver \in Worker \cup {"none", "client", "ticker", "close"}
    /\ saveStep \in {"open", "write"}
    /\ operationCount \in 0 .. BatchSize
    /\ saver \in {"none", "ticker", "close"} => operationCount < BatchSize

FileTypeOK ==
    /\ queueFile \in Seq(Nat)
    /\ failures \in 0 .. MaxFailure

WorkerTypeOK ==
    /\ workers \in (SUBSET Worker) \ {{}}
    /\ pc \in [Worker -> {"check", "asked", "dequeue", "consume", "exited"}]
    /\ held \in [Worker -> Nat]
    /\ delivered \in Seq(Nat)

ClientTypeOK ==
    /\ enqueueCounter \in Nat
    /\ accepted \in Seq(Nat)
    /\ tickets \in 0 .. MaxTicket

LifeTypeOK ==
    /\ ticker \in {"select", "lock", "save", "exited"}
    /\ closer \in {"open", "signal", "wait", "flush", "closed"}
    /\ crashes \in 0 .. MaxCrash

FlagTypeOK ==
    /\ dequeueWorkersSleep \in BOOLEAN
    /\ dequeueCheck \in BOOLEAN
    /\ stale \in BOOLEAN

(* Every variable keeps its type; the counted operations never exceed a      *)
(* batch, whoever saves (checkSave, periodicSaveQueue, Close).               *)
TypeOK ==
    /\ QueueTypeOK /\ FileTypeOK /\ WorkerTypeOK
    /\ ClientTypeOK /\ LifeTypeOK /\ FlagTypeOK

(* Within one life of the process the queue is an exact FIFO, whatever the   *)
(* interleaving of Enqueue, the workers' Dequeue and the saves: what workers *)
(* got, then what waits, is what was loaded and accepted, in that order.     *)
Fifo == delivered \o queue = accepted

Increasing(s) == \A i, j \in 1 .. Len(s) : i < j => s[i] < s[j]

(* An item is consumed by one worker, once: two workers of worker() never    *)
(* hold the same item, and no item is both held and still queued.            *)
SingleConsumer ==
    \A w \in Worker :
        held[w] # NoItem =>
            /\ \A v \in Worker \ {w} : held[v] # held[w]
            /\ \A i \in 1 .. Len(queue) : queue[i] # held[w]

(* The strengthening that makes SingleConsumer inductive: tickets grow along *)
(* the queue and along the file (a crash makes the file the queue), and a    *)
(* held ticket is older than every queued one.                               *)
TicketOrder ==
    /\ Increasing(queue)
    /\ Increasing(queueFile)
    /\ \A i \in 1 .. Len(queue) : queue[i] \in 1 .. tickets
    /\ \A i \in 1 .. Len(queueFile) : queueFile[i] \in 1 .. tickets
    /\ \A w \in Worker :
          /\ held[w] <= tickets
          /\ held[w] # NoItem => \A i \in 1 .. Len(queue) : held[w] < queue[i]
          /\ held[w] # NoItem => \A v \in Worker \ {w} : held[v] # held[w]

(* Lag(q, f, n): the file f can be turned into the queue q by n operations:  *)
(* d dequeues from its front and e enqueues at its end.                      *)
Lag(q, f, n) ==
    \E d, e \in 0 .. n :
        /\ d + e <= n
        /\ d <= Len(f)
        /\ e <= Len(q)
        /\ Len(f) - d = Len(q) - e
        /\ \A i \in 1 .. Len(q) - e : f[d + i] = q[i]

(* What a crash costs when no save is running and none failed: a restart     *)
(* repeats d items that were already taken out and forgets e that were       *)
(* accepted, d + e <= operationCount < BatchSize (checkSave, loadQueue).     *)
RestartLoss == saver = "none" /\ ~stale => Lag(queue, queueFile, operationCount)

(* When Close starts its last save no worker runs or holds an item, and      *)
(* periodicSaveQueue has returned: nobody can change the queue but clients.  *)
CloseQuiesces ==
    closer \in {"flush", "closed"} =>
        /\ ticker = "exited"
        /\ \A w \in workers : pc[w] = "exited" /\ held[w] = NoItem

(* The strengthening that makes CloseQuiesces inductive: who saves for the   *)
(* ticker and for Close is the ticker and Close, and a worker holds an item  *)
(* only while its consumer runs.                                             *)
Quiescence ==
    /\ saver = "ticker" => ticker = "save"
    /\ saver = "close" => closer = "flush"
    /\ closer # "open" => ticker = "exited"
    /\ closer \in {"flush", "closed"} => \A w \in workers : pc[w] = "exited"
    /\ \A w \in Worker : held[w] # NoItem => pc[w] = "consume"

Abstract == INSTANCE DownloadFifo
    WITH Item <- 1 .. MaxTicket,
         waiting <- queue,
         inHand <- {held[w] : w \in Worker} \ {NoItem},
         issued <- 1 .. tickets,
         snapshot <- queueFile

(* The queue implements its abstract promise: every step of its goroutines   *)
(* is a step of DownloadFifo, or none, with the items the workers hold as    *)
(* the items in hand and the queue file as the snapshot a restart reads.     *)
ImplementsFifo == Abstract!Spec

Queued(t) == \E i \in 1 .. Len(queue) : queue[i] = t
OnDisk(t) == \E i \in 1 .. Len(queueFile) : queueFile[i] = t

(* As long as the dequeue check ends up passing and nobody closes the queue, *)
(* an item does not wait for ever: a worker takes it (or a crash loses it).  *)
EventuallyDequeued ==
    <>[](dequeueCheck /\ closer = "open")
        => \A t \in 1 .. MaxTicket : Queued(t) ~> ~Queued(t)

(* With no failing write and an open queue, an accepted item reaches the     *)
(* file or leaves the queue: the ticker of periodicSaveQueue picks up what a *)
(* partial batch leaves.                                                     *)
EventuallySaved ==
    [](~stale /\ closer = "open")
        => \A t \in 1 .. MaxTicket : Queued(t) ~> (OnDisk(t) \/ ~Queued(t))
=============================================================================
