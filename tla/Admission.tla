----------------------------- MODULE Admission -----------------------------
(* How a download gets from a request, or from the automatic downloader,     *)
(* through the queue into the list of downloading files: torrent_service.go, *)
(* HandleDownloadTorrentRequest, HandleAutoDownloader, DownloadQueueConsumer *)
(* and the head of DownloadFile.                                             *)
(*                                                                           *)
(* Every check here (leech limit, user's queue limit, already downloading,   *)
(* already queued, concurrency) reads shared state in one step and acts on   *)
(* it in a later one; the invariants say how far that can go wrong.  The     *)
(* queue is the FIFO that DownloadQueue implements.  One file is one unit of *)
(* leech quota.                                                              *)
EXTENDS Naturals, Sequences, FiniteSets

CONSTANTS
    Requester,        \* concurrent handlers of PUT /v1/torrent/download
    Worker,           \* queue workers
    Watcher,          \* bound: downloads that handlers have started, at a time
    User, Link,
    AutoDoc,          \* [Link -> doc]: the movie whose document lists the link
    RequestKind,      \* the [source, now] a request may have
    Capacity,
    UserEnqueueLimit, \* TorrentUserEnqueueLimit
    LeachLimit,       \* the highest TorrentLeachLimitGb of the user's roles
    ConcurrencyLimit  \* TorrentDownloadConcurrencyLimit

ASSUME ActorAssumption ==
    /\ IsFiniteSet(Requester) /\ IsFiniteSet(Worker) /\ IsFiniteSet(Watcher)
    /\ Requester \cap (Worker \cup Watcher) = {}
    /\ Worker \cap Watcher = {}
ASSUME LimitAssumption ==
    /\ Capacity \in Nat
    /\ UserEnqueueLimit \in Nat \ {0}
    /\ LeachLimit \in Nat \ {0}
    /\ ConcurrencyLimit \in Nat \ {0}
ASSUME KindAssumption ==
    RequestKind \subseteq [source : {"user", "admin"}, now : BOOLEAN]

NoLink == "no link"
NoUser == "no user"
ASSUME NameAssumption == NoLink \notin Link /\ NoUser \notin User

VARIABLES
    queue,            \* of items
    downloadingFiles, \* entries [link, owner, over]: over is complete or Error
    pc, job,          \* of each actor: where it is, its item
    usage,            \* UserTorrent.TorrentLeachGb
    autoLinks,        \* links in some document's downloadTorrentLinks
    todo, autoPick    \* HandleAutoDownloader: links not yet seen, link in hand

vars == <<queue, downloadingFiles, pc, job, usage, autoLinks, todo, autoPick>>

(* A worker waits for Done, which its download's watcher sets last: the two  *)
(* are one actor.  A handler does not wait: the watcher of a download it has *)
(* started, which completes and charges it, is an actor of its own.          *)
Downloader == Worker \cup Watcher
Actor == Requester \cup Downloader
Item == [link : Link, user : User \cup {NoUser},
         source : {"user", "admin", "auto"}, now : BOOLEAN]
NoItem == [link |-> NoLink, user |-> NoUser, source |-> "auto", now |-> FALSE]
AutoItem(l) == [link |-> l, user |-> NoUser, source |-> "auto", now |-> FALSE]

ItemsOf(q, u) == {i \in 1 .. Len(q) : q[i].user = u}
QueuedOf(u) == ItemsOf(queue, u)
CopiesOf(l) == {i \in 1 .. Len(queue) : queue[i].link = l}
Listed(l) == \E e \in downloadingFiles : e.link = l

Init ==
    /\ queue = <<>>
    /\ downloadingFiles = {}
    /\ pc = [o \in Actor |-> "idle"]
    /\ job = [o \in Actor |-> NoItem]
    /\ usage = [u \in User |-> 0]
    /\ autoLinks = {}
    /\ todo = {}
    /\ autoPick = NoLink

Goto(o, label) == pc' = [pc EXCEPT ![o] = label]
Leave(o) == /\ Goto(o, IF o \in Worker THEN "freed" ELSE "idle")
            /\ job' = [job EXCEPT ![o] = NoItem]

-----------------------------------------------------------------------------
(* HandleDownloadTorrentRequest.  A request refused for its size, its bot or *)
(* its roles changes nothing and is not modelled.                            *)
Request(r) ==
    /\ pc[r] = "idle"
    /\ \E l \in Link, u \in User, k \in RequestKind :
          job' = [job EXCEPT ![r] =
                    [link |-> l, user |-> u, source |-> k.source, now |-> k.now]]
    /\ Goto(r, "leach")
    /\ UNCHANGED <<queue, downloadingFiles, usage, autoLinks, todo, autoPick>>

WithinLeach(u) == usage[u] < LeachLimit

CheckLeachLimit(r) ==
    /\ pc[r] = "leach"
    /\ \/ WithinLeach(job[r].user) /\ Goto(r, "limit") /\ UNCHANGED job
       \/ ~WithinLeach(job[r].user) /\ Leave(r)
    /\ UNCHANGED <<queue, downloadingFiles, usage, autoLinks, todo, autoPick>>

(* GetItemOfUser takes no lock: beside a Dequeue it may get the old start of *)
(* the slice with its new length, and miss the last item.  (The new start    *)
(* with the old length ends in a panic, which refuses the request.)          *)
SeenQueues ==
    {queue} \cup
    {SubSeq(queue, 1, Len(queue) - 1) : w \in {v \in Worker : pc[v] = "idle"}}

WithinQueueAtLimit(q, u) == Cardinality(ItemsOf(q, u)) <= UserEnqueueLimit
WithinQueue(q, u) == Cardinality(ItemsOf(q, u)) < UserEnqueueLimit

CheckEnqueueLimit(r) ==
    /\ pc[r] = "limit"
    /\ \E q \in SeenQueues :
          \/ /\ WithinQueue(q, job[r].user)
             /\ Goto(r, IF job[r].now THEN "start" ELSE "admitted")
             /\ UNCHANGED job
          \/ ~WithinQueue(q, job[r].user) /\ Leave(r)
    /\ UNCHANGED <<queue, downloadingFiles, usage, autoLinks, todo, autoPick>>

CheckDownloading(r) ==
    /\ pc[r] = "admitted"
    /\ \/ ~Listed(job[r].link) /\ Goto(r, "unlisted") /\ UNCHANGED job
       \/ Listed(job[r].link) /\ Leave(r)
    /\ UNCHANGED <<queue, downloadingFiles, usage, autoLinks, todo, autoPick>>

NotAsked(l) == TRUE
NotQueued(l) == CopiesOf(l) = {}

CheckQueued(r) ==
    /\ pc[r] = "unlisted"
    /\ \/ NotQueued(job[r].link) /\ Goto(r, "absent") /\ UNCHANGED job
       \/ ~NotQueued(job[r].link) /\ Leave(r)
    /\ UNCHANGED <<queue, downloadingFiles, usage, autoLinks, todo, autoPick>>

RoomForOneMore == Len(queue) <= Capacity
HasRoom == Len(queue) < Capacity

EnqueueRequest(r) ==
    /\ pc[r] = "absent"
    /\ queue' = IF HasRoom THEN Append(queue, job[r]) ELSE queue
    /\ Leave(r)
    /\ UNCHANGED <<downloadingFiles, usage, autoLinks, todo, autoPick>>

-----------------------------------------------------------------------------
(* HandleAutoDownloader.  The documents are read once: a link that its first *)
(* loop pulls (removeTorrentLinks) is still enqueued by the second.          *)
AutoRead ==
    /\ todo = {} /\ autoPick = NoLink
    /\ todo' = autoLinks
    /\ \E pulled \in SUBSET autoLinks : autoLinks' = autoLinks \ pulled
    /\ UNCHANGED <<queue, downloadingFiles, pc, job, usage, autoPick>>

AutoLook ==
    /\ autoPick = NoLink
    /\ \E l \in todo :
          /\ todo' = todo \ {l}
          /\ autoPick' = IF NotQueued(l) THEN l ELSE NoLink
    /\ UNCHANGED <<queue, downloadingFiles, pc, job, usage, autoLinks>>

(* ErrOverflow leaves the inner loop: the rest of the document is skipped,   *)
(* the next documents are still tried.                                       *)
AutoEnqueue ==
    /\ autoPick # NoLink
    /\ \/ /\ HasRoom
          /\ queue' = Append(queue, AutoItem(autoPick))
          /\ UNCHANGED todo
       \/ /\ ~HasRoom
          /\ todo' = {l \in todo : AutoDoc[l] # AutoDoc[autoPick]}
          /\ UNCHANGED queue
    /\ autoPick' = NoLink
    /\ UNCHANGED <<downloadingFiles, pc, job, usage, autoLinks>>

(* The crawler that fills downloadTorrentLinks (not in this repository).     *)
CrawlerAdds ==
    /\ \E l \in Link : autoLinks' = autoLinks \cup {l}
    /\ UNCHANGED <<queue, downloadingFiles, pc, job, usage, todo, autoPick>>

-----------------------------------------------------------------------------
(* worker and DownloadQueueConsumer.                                         *)
Dequeue(w) ==
    /\ pc[w] = "idle"
    /\ queue # <<>>
    /\ queue' = Tail(queue)
    /\ job' = [job EXCEPT ![w] = Head(queue)]
    /\ Goto(w, "wait")
    /\ UNCHANGED <<downloadingFiles, usage, autoLinks, todo, autoPick>>

WaitForDownloadConcurrencyFree(w) ==
    /\ pc[w] \in {"wait", "freed"}
    /\ Cardinality(downloadingFiles) < ConcurrencyLimit
    /\ Goto(w, IF pc[w] = "wait" THEN "start" ELSE "idle")
    /\ UNCHANGED <<queue, downloadingFiles, job, usage, autoLinks, todo, autoPick>>

(* RemoveAutoDownloaderLink: by a worker, of an automatic item only.         *)
PullAutoLink(o) ==
    autoLinks' = IF o \in Worker /\ job[o].source = "auto"
                 THEN autoLinks \ {job[o].link} ELSE autoLinks

(* DownloadFile before it lists the file: downloads are disabled, the disk   *)
(* is full or the database fails (the item is dropped), or the link is gone. *)
Refuse(o) ==
    /\ pc[o] = "start"
    /\ UNCHANGED autoLinks \/ PullAutoLink(o)
    /\ Leave(o)
    /\ UNCHANGED <<queue, downloadingFiles, usage, todo, autoPick>>

NeverListed(l) == FALSE
AlreadyListed(l) == Listed(l)

RefuseTwin(o) ==
    /\ pc[o] = "start"
    /\ AlreadyListed(job[o].link)
    /\ Leave(o)
    /\ UNCHANGED <<queue, downloadingFiles, usage, autoLinks, todo, autoPick>>

AddEntry(o, l) ==
    downloadingFiles' = downloadingFiles \cup {[link |-> l, owner |-> o, over |-> FALSE]}

List(w) ==
    /\ pc[w] = "start"
    /\ ~AlreadyListed(job[w].link)
    /\ AddEntry(w, job[w].link)
    /\ Goto(w, "running")
    /\ UNCHANGED <<queue, job, usage, autoLinks, todo, autoPick>>

(* An administrator's request to download now: the watcher x begins, and the *)
(* handler answers once the torrent is added (DownloadAll) or has failed.    *)
ListNow(r, x) ==
    /\ pc[r] = "start" /\ pc[x] = "idle"
    /\ ~AlreadyListed(job[r].link)
    /\ AddEntry(x, job[r].link)
    /\ pc' = [pc EXCEPT ![r] = "starting", ![x] = "running"]
    /\ job' = [job EXCEPT ![x] = job[r]]
    /\ UNCHANGED <<queue, usage, autoLinks, todo, autoPick>>

Answer(r) ==
    /\ pc[r] = "starting"
    /\ Leave(r)
    /\ UNCHANGED <<queue, downloadingFiles, usage, autoLinks, todo, autoPick>>

(* The entry of o's download stops being current; Cancel may have taken it.  *)
ForgetEnd(o) == UNCHANGED downloadingFiles
End(o) ==
    downloadingFiles' =
        {IF e.owner = o THEN [e EXCEPT !.over = TRUE] ELSE e : e \in downloadingFiles}

(* Error is set: by DownloadFile (too large, empty: the link is pulled), or  *)
(* by the watcher (timeout, inactive: it is not, the consumer's error is     *)
(* read from downloadFile.Error).                                            *)
Fail(o) ==
    /\ pc[o] = "running"
    /\ End(o)
    /\ UNCHANGED autoLinks \/ PullAutoLink(o)
    /\ Leave(o)
    /\ UNCHANGED <<queue, usage, todo, autoPick>>

(* The watcher sets DownloadedSize, then saves the link and charges the user *)
(* before Done; each of the two database writes may fail unnoticed.          *)
Complete(o) ==
    /\ pc[o] = "running"
    /\ End(o)
    /\ Goto(o, "complete")
    /\ UNCHANGED <<queue, job, usage, autoLinks, todo, autoPick>>

Charged(o) == job[o].source = "user"

SaveRetried(o) ==
    /\ pc[o] = "complete"
    /\ Charged(o) /\ job[o].user \in User
    /\ usage' = [usage EXCEPT ![job[o].user] = @ + 1]
    /\ \/ UNCHANGED <<autoLinks, pc, job>>
       \/ autoLinks' = autoLinks \ {job[o].link} /\ Leave(o)
    /\ UNCHANGED <<queue, downloadingFiles, todo, autoPick>>

Save(o) ==
    /\ pc[o] = "complete"
    /\ \/ UNCHANGED usage
       \/ Charged(o) /\ job[o].user \in User
             /\ usage' = [usage EXCEPT ![job[o].user] = @ + 1]
    /\ \/ UNCHANGED autoLinks
       \/ autoLinks' = autoLinks \ {job[o].link}
    /\ Leave(o)
    /\ UNCHANGED <<queue, downloadingFiles, todo, autoPick>>

(* GetDownloadingFiles, every two seconds and on each status request.        *)
Reap ==
    /\ downloadingFiles' = {e \in downloadingFiles : ~e.over}
    /\ UNCHANGED <<queue, pc, job, usage, autoLinks, todo, autoPick>>

(* CancelDownload and RemoveDownload: the download itself goes on ending.    *)
Cancel ==
    /\ \E e \in downloadingFiles : downloadingFiles' = downloadingFiles \ {e}
    /\ UNCHANGED <<queue, pc, job, usage, autoLinks, todo, autoPick>>

(* ResetAllUserTorrentUsages.                                                *)
MonthlyReset ==
    /\ usage' = [u \in User |-> 0]
    /\ UNCHANGED <<queue, downloadingFiles, pc, job, autoLinks, todo, autoPick>>

-----------------------------------------------------------------------------
RequesterStep(r) ==
    \/ Request(r) \/ CheckLeachLimit(r) \/ CheckEnqueueLimit(r)
    \/ CheckDownloading(r) \/ CheckQueued(r) \/ EnqueueRequest(r)
    \/ Answer(r)

WorkerStep(w) == Dequeue(w) \/ WaitForDownloadConcurrencyFree(w) \/ List(w)

DownloadStep(o) ==
    Refuse(o) \/ RefuseTwin(o) \/ Fail(o) \/ Complete(o) \/ Save(o)

Next ==
    \/ \E r \in Requester : RequesterStep(r)
    \/ \E w \in Worker : WorkerStep(w)
    \/ \E r \in Requester, x \in Watcher : ListNow(r, x)
    \/ \E o \in Actor : DownloadStep(o)
    \/ AutoRead \/ AutoLook \/ AutoEnqueue \/ CrawlerAdds
    \/ Reap \/ Cancel \/ MonthlyReset

Spec == Init /\ [][Next]_vars
-----------------------------------------------------------------------------
QueueTypeOK == queue \in Seq(Item) /\ Len(queue) <= Capacity

ListTypeOK ==
    downloadingFiles \subseteq [link : Link, owner : Downloader, over : BOOLEAN]

RequesterLabel == {"idle", "leach", "limit", "admitted", "unlisted", "absent",
                   "start", "starting"}
WatcherLabel == {"idle", "running", "complete"}
WorkerLabel == {"idle", "wait", "start", "running", "complete", "freed"}

ActorTypeOK ==
    /\ pc \in [Actor -> RequesterLabel \cup WorkerLabel \cup WatcherLabel]
    /\ job \in [Actor -> Item \cup {NoItem}]
    /\ \A o \in Actor : job[o] = NoItem <=> pc[o] \in {"idle", "freed"}
    /\ \A r \in Requester : pc[r] \in RequesterLabel
    /\ \A w \in Worker : pc[w] \in WorkerLabel
    /\ \A x \in Watcher : pc[x] \in WatcherLabel

LinkTypeOK ==
    /\ usage \in [User -> Nat]
    /\ autoLinks \subseteq Link
    /\ todo \subseteq Link
    /\ autoPick \in Link \cup {NoLink}

(* Every variable keeps its type; the queue never outgrows its capacity, and *)
(* who is in the middle of something has an item.                            *)
TypeOK == QueueTypeOK /\ ListTypeOK /\ ActorTypeOK /\ LinkTypeOK

(* Whatever duplicates the queue holds and whoever asks for a download now,  *)
(* a link is never listed twice as downloading (DownloadFile's lock).        *)
NoTwinEntries ==
    \A e, f \in downloadingFiles : e.link = f.link => e = f

(* An entry that is not over is being downloaded by its owner: no entry can  *)
(* be left behind to hold a slot of WaitForDownloadConcurrencyFree for ever. *)
NoLeakedSlot ==
    \A e \in downloadingFiles :
        ~e.over => pc[e.owner] = "running" /\ job[e.owner].link = e.link

GoingLinks == {e.link : e \in {x \in downloadingFiles : ~x.over}}
OverLinks == {e.link : e \in {x \in downloadingFiles : x.over}}

Entries == INSTANCE DownloadList WITH going <- GoingLinks, over <- OverLinks

(* Whatever handlers and workers race for, the list is the DownloadList that *)
(* Downloads implements too: a link is added when no entry has it, ends once *)
(* and by its own download, and is reaped only when it is over.              *)
ImplementsList == Entries!Spec

AboutToEnqueue(l) ==
    {r \in Requester : pc[r] = "absent" /\ job[r].link = l}

(* "Already exist in queue" is asked before Enqueue takes the lock again, so *)
(* a link may be queued more than once; but each copy costs one of the       *)
(* handlers (or the automatic downloader) that asked at the same time.       *)
QueueCopies ==
    \A l \in Link :
        Cardinality(CopiesOf(l)) + Cardinality(AboutToEnqueue(l))
          + (IF autoPick = l THEN 1 ELSE 0) <= Cardinality(Requester) + 1

PastQueueLimit(u) ==
    {r \in Requester : job[r].user = u /\ ~job[r].now
                         /\ pc[r] \in {"admitted", "unlisted", "absent"}}

(* TorrentUserEnqueueLimit is checked long before the Enqueue: a user may    *)
(* exceed it, by no more than the handlers that were past the check and one  *)
(* item that the last of them did not see.                                   *)
UserQueueBound ==
    \A u \in User :
        Cardinality(QueuedOf(u)) + Cardinality(PastQueueLimit(u))
          <= UserEnqueueLimit + Cardinality(Requester)

(* The leech quota is checked at the request and charged when the file is    *)
(* complete: a user may exceed it by what was queued, in hand or downloading *)
(* meanwhile, which for an administrator's bot, that downloads now and is    *)
(* charged, is as many files as it has started.  In one life of the process. *)
QuotaBound ==
    \A u \in User :
        usage[u] <= LeachLimit - 1 + UserEnqueueLimit - 1
                      + 2 * Cardinality(Requester) + Cardinality(Worker)
                      + Cardinality(Watcher)

(* "concurrency handled by queue-dequeue workers" (DownloadFile): no more    *)
(* downloads run than TorrentDownloadConcurrencyLimit.                       *)
Running == {o \in Downloader : pc[o] = "running"}
ConcurrencyHandled == Cardinality(Running) <= ConcurrencyLimit
=============================================================================
