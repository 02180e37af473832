-------------------------- MODULE AdmissionProofs --------------------------
(* Theorems of Admission, for every set of handlers, workers, users and      *)
(* links, and every limit.                                                   *)
EXTENDS Admission, TLAPS

USE ActorAssumption, LimitAssumption, KindAssumption, NameAssumption

-----------------------------------------------------------------------------
(* Type correctness.                                                         *)

LEMMA GotoType ==
  ASSUME ActorTypeOK, NEW o \in Actor, job[o] # NoItem,
         NEW label, label \notin {"idle", "freed"},
         o \in Requester => label \in RequesterLabel,
         o \in Worker => label \in WorkerLabel,
         o \in Watcher => label \in WatcherLabel,
         Goto(o, label), UNCHANGED job
  PROVE  ActorTypeOK'
BY DEF ActorTypeOK, Goto, Actor, Downloader

LEMMA LeaveType ==
  ASSUME ActorTypeOK, NEW o \in Actor, Leave(o)
  PROVE  ActorTypeOK'
BY DEF ActorTypeOK, Goto, Leave, Actor, Downloader, RequesterLabel, WorkerLabel,
       WatcherLabel

LEMMA StartJobType ==
  ASSUME ActorTypeOK, NEW o \in Actor, NEW item \in Item,
         NEW label \in {"leach", "wait"},
         o \in Requester => label = "leach",
         o \in Worker => label = "wait",
         o \notin Watcher,
         job' = [job EXCEPT ![o] = item], Goto(o, label)
  PROVE  ActorTypeOK'
<1>1. item # NoItem
  BY DEF Item, NoItem
<1>. QED
  BY <1>1 DEF ActorTypeOK, Goto, Actor, Downloader, RequesterLabel, WorkerLabel

(* An actor that is in the middle of something has an item.                  *)
LEMMA Busy ==
  ASSUME ActorTypeOK, NEW o \in Actor, pc[o] \notin {"idle", "freed"}
  PROVE  job[o] \in Item /\ job[o] # NoItem
BY DEF ActorTypeOK

LEMMA InitTypeOK == Init => TypeOK
<1>. SUFFICES ASSUME Init PROVE TypeOK
  OBVIOUS
<1>1. QueueTypeOK
  BY DEF Init, QueueTypeOK
<1>2. ListTypeOK
  BY DEF Init, ListTypeOK
<1>3. ActorTypeOK
  BY DEF Init, ActorTypeOK, Actor, Downloader, RequesterLabel, WorkerLabel,
         WatcherLabel
<1>4. LinkTypeOK
  BY DEF Init, LinkTypeOK
<1>. QED
  BY <1>1, <1>2, <1>3, <1>4 DEF TypeOK

(* The steps of a request before it is queued.                               *)
LEMMA RequesterTypeOK ==
  ASSUME TypeOK, NEW r \in Requester, RequesterStep(r)
  PROVE  TypeOK'
<1>. USE DEF TypeOK
<1>1. r \in Actor /\ r \notin Worker /\ r \notin Watcher
  BY DEF Actor
<1>2. CASE Request(r)
  <2>1. PICK l \in Link, u \in User, k \in RequestKind :
          job' = [job EXCEPT ![r] =
                    [link |-> l, user |-> u, source |-> k.source, now |-> k.now]]
    BY <1>2 DEF Request
  <2>2. [link |-> l, user |-> u, source |-> k.source, now |-> k.now] \in Item
    BY DEF Item
  <2>3. Goto(r, "leach")
    BY <1>2 DEF Request
  <2>4. ActorTypeOK'
    BY <1>1, <2>1, <2>2, <2>3, StartJobType
  <2>. QED
    BY <1>2, <2>4 DEF Request, QueueTypeOK, ListTypeOK, LinkTypeOK
<1>3. CASE CheckLeachLimit(r)
  <2>1. Leave(r) \/ (Goto(r, "limit") /\ UNCHANGED job)
    BY <1>3 DEF CheckLeachLimit
  <2>2. pc[r] = "leach"
    BY <1>3 DEF CheckLeachLimit
  <2>3. ActorTypeOK'
    BY <1>1, <2>1, <2>2, Busy, GotoType, LeaveType DEF RequesterLabel
  <2>. QED
    BY <1>3, <2>3 DEF CheckLeachLimit, QueueTypeOK, ListTypeOK, LinkTypeOK
<1>4. CASE CheckEnqueueLimit(r)
  <2>1. \/ Leave(r)
        \/ Goto(r, IF job[r].now THEN "start" ELSE "admitted") /\ UNCHANGED job
    BY <1>4 DEF CheckEnqueueLimit
  <2>2. pc[r] = "limit"
    BY <1>4 DEF CheckEnqueueLimit
  <2>3. ActorTypeOK'
    BY <1>1, <2>1, <2>2, Busy, GotoType, LeaveType DEF RequesterLabel
  <2>. QED
    BY <1>4, <2>3 DEF CheckEnqueueLimit, QueueTypeOK, ListTypeOK, LinkTypeOK
<1>5. CASE CheckDownloading(r)
  <2>1. Leave(r) \/ (Goto(r, "unlisted") /\ UNCHANGED job)
    BY <1>5 DEF CheckDownloading
  <2>2. pc[r] = "admitted"
    BY <1>5 DEF CheckDownloading
  <2>3. ActorTypeOK'
    BY <1>1, <2>1, <2>2, Busy, GotoType, LeaveType DEF RequesterLabel
  <2>. QED
    BY <1>5, <2>3 DEF CheckDownloading, QueueTypeOK, ListTypeOK, LinkTypeOK
<1>6. CASE CheckQueued(r)
  <2>1. Leave(r) \/ (Goto(r, "absent") /\ UNCHANGED job)
    BY <1>6 DEF CheckQueued
  <2>2. pc[r] = "unlisted"
    BY <1>6 DEF CheckQueued
  <2>3. ActorTypeOK'
    BY <1>1, <2>1, <2>2, Busy, GotoType, LeaveType DEF RequesterLabel
  <2>. QED
    BY <1>6, <2>3 DEF CheckQueued, QueueTypeOK, ListTypeOK, LinkTypeOK
<1>7. CASE EnqueueRequest(r)
  <2>1. pc[r] = "absent" /\ Leave(r)
    BY <1>7 DEF EnqueueRequest
  <2>2. ActorTypeOK'
    BY <1>1, <2>1, LeaveType
  <2>3. job[r] \in Item
    BY <1>1, <2>1, Busy
  <2>4. QueueTypeOK'
    BY <1>7, <2>3 DEF EnqueueRequest, HasRoom, QueueTypeOK
  <2>. QED
    BY <1>7, <2>2, <2>4 DEF EnqueueRequest, ListTypeOK, LinkTypeOK
<1>8. CASE Answer(r)
  <2>1. ActorTypeOK'
    BY <1>1, <1>8, LeaveType DEF Answer
  <2>. QED
    BY <1>8, <2>1 DEF Answer, QueueTypeOK, ListTypeOK, LinkTypeOK
<1>. QED
  BY <1>2, <1>3, <1>4, <1>5, <1>6, <1>7, <1>8 DEF RequesterStep

(* An entry for a downloader that has the item of the entry's link.          *)
LEMMA AddEntryType ==
  ASSUME ListTypeOK, NEW o \in Downloader, NEW item \in Item,
         AddEntry(o, item.link)
  PROVE  ListTypeOK'
<1>. DEFINE Entry == [link : Link, owner : Downloader, over : BOOLEAN]
            e == [link |-> item.link, owner |-> o, over |-> FALSE]
<1>1. item.link \in Link
  BY DEF Item
<1>2. e \in Entry
  BY <1>1
<1>3. downloadingFiles \subseteq Entry
  BY DEF ListTypeOK
<1>4. downloadingFiles' = downloadingFiles \cup {e}
  BY DEF AddEntry
<1>. HIDE DEF Entry, e
<1>5. downloadingFiles' \subseteq Entry
  BY <1>2, <1>3, <1>4
<1>. QED
  BY <1>5 DEF ListTypeOK, Entry

(* The steps of a queue worker that touch the queue or wait for a slot.      *)
LEMMA WorkerTypeOK ==
  ASSUME TypeOK, NEW w \in Worker, WorkerStep(w)
  PROVE  TypeOK'
<1>. USE DEF TypeOK
<1>1. w \in Actor /\ w \in Downloader /\ w \notin Requester /\ w \notin Watcher
  BY DEF Actor, Downloader
<1>2. CASE Dequeue(w)
  <2>1. /\ queue # <<>> /\ queue' = Tail(queue)
        /\ job' = [job EXCEPT ![w] = Head(queue)] /\ Goto(w, "wait")
    BY <1>2 DEF Dequeue
  <2>2. Head(queue) \in Item /\ QueueTypeOK'
    BY <2>1 DEF QueueTypeOK
  <2>3. ActorTypeOK'
    BY <1>1, <2>1, <2>2, StartJobType
  <2>. QED
    BY <1>2, <2>2, <2>3 DEF Dequeue, ListTypeOK, LinkTypeOK
<1>3. CASE WaitForDownloadConcurrencyFree(w)
  <2>1. /\ pc[w] \in {"wait", "freed"} /\ UNCHANGED job
        /\ Goto(w, IF pc[w] = "wait" THEN "start" ELSE "idle")
    BY <1>3 DEF WaitForDownloadConcurrencyFree
  <2>2. ActorTypeOK'
    BY <1>1, <2>1
       DEF ActorTypeOK, Goto, Actor, Downloader, RequesterLabel, WorkerLabel
  <2>. QED
    BY <1>3, <2>2
       DEF WaitForDownloadConcurrencyFree, QueueTypeOK, ListTypeOK, LinkTypeOK
<1>4. CASE List(w)
  <2>1. /\ pc[w] = "start" /\ AddEntry(w, job[w].link)
        /\ Goto(w, "running") /\ UNCHANGED job
    BY <1>4 DEF List
  <2>2. job[w] \in Item /\ job[w] # NoItem
    BY <1>1, <2>1, Busy
  <2>3. ListTypeOK'
    BY <1>1, <2>1, <2>2, AddEntryType
  <2>4. ActorTypeOK'
    BY <1>1, <2>1, <2>2, GotoType DEF WorkerLabel
  <2>. QED
    BY <1>4, <2>3, <2>4 DEF List, QueueTypeOK, LinkTypeOK
<1>. QED
  BY <1>2, <1>3, <1>4 DEF WorkerStep

(* A handler's item goes to the watcher of the download it starts.           *)
LEMMA ListNowTypeOK ==
  ASSUME TypeOK, NEW r \in Requester, NEW x \in Watcher, ListNow(r, x)
  PROVE  TypeOK'
<1>. USE DEF TypeOK
<1>1. /\ r \in Actor /\ x \in Actor /\ x \in Downloader
      /\ r \notin Downloader /\ x \notin Requester /\ x \notin Worker
  BY DEF Actor, Downloader
<1>2. job[r] \in Item /\ job[r] # NoItem
  BY <1>1, Busy DEF ListNow
<1>3. ListTypeOK'
  BY <1>1, <1>2, AddEntryType DEF ListNow
<1>4. ActorTypeOK'
  BY <1>1, <1>2 DEF ListNow, ActorTypeOK, Actor, Downloader, RequesterLabel,
         WorkerLabel, WatcherLabel
<1>. QED
  BY <1>3, <1>4 DEF ListNow, QueueTypeOK, LinkTypeOK

(* The other steps in DownloadFile, of a handler, a worker or a watcher.     *)
LEMMA DownloadTypeOK ==
  ASSUME TypeOK, NEW o \in Actor, DownloadStep(o)
  PROVE  TypeOK'
<1>. USE DEF TypeOK
<1>1. CASE Refuse(o)
  <2>1. LinkTypeOK'
    BY <1>1 DEF Refuse, PullAutoLink, LinkTypeOK
  <2>2. ActorTypeOK'
    BY <1>1, LeaveType DEF Refuse
  <2>. QED
    BY <1>1, <2>1, <2>2 DEF Refuse, QueueTypeOK, ListTypeOK
<1>2. CASE RefuseTwin(o)
  <2>1. ActorTypeOK'
    BY <1>2, LeaveType DEF RefuseTwin
  <2>. QED
    BY <1>2, <2>1 DEF RefuseTwin, QueueTypeOK, ListTypeOK, LinkTypeOK
<1>3. ASSUME End(o) PROVE ListTypeOK'
  <2>. DEFINE Entry == [link : Link, owner : Downloader, over : BOOLEAN]
  <2>1. \A e \in Entry : [e EXCEPT !.over = TRUE] \in Entry
    OBVIOUS
  <2>2. downloadingFiles \subseteq Entry
    BY DEF ListTypeOK
  <2>3. \A e \in downloadingFiles' : e \in Entry
    <3>. HIDE DEF Entry
    <3>. QED
      BY <1>3, <2>1, <2>2 DEF End
  <2>. QED
    BY <2>3 DEF ListTypeOK
<1>4. CASE Fail(o)
  <2>1. LinkTypeOK'
    BY <1>4 DEF Fail, PullAutoLink, LinkTypeOK
  <2>2. ActorTypeOK' /\ ListTypeOK'
    BY <1>3, <1>4, LeaveType DEF Fail
  <2>. QED
    BY <1>4, <2>1, <2>2 DEF Fail, QueueTypeOK
<1>5. CASE Complete(o)
  <2>1. /\ pc[o] = "running" /\ End(o)
        /\ Goto(o, "complete") /\ UNCHANGED job
    BY <1>5 DEF Complete
  <2>2. o \notin Requester /\ job[o] # NoItem
    BY <2>1, Busy DEF ActorTypeOK, RequesterLabel
  <2>3. ActorTypeOK' /\ ListTypeOK'
    BY <1>3, <2>1, <2>2, GotoType DEF WorkerLabel, WatcherLabel
  <2>. QED
    BY <1>5, <2>3 DEF Complete, QueueTypeOK, LinkTypeOK
<1>6. CASE Save(o)
  <2>1. LinkTypeOK'
    BY <1>6 DEF Save, LinkTypeOK
  <2>2. ActorTypeOK'
    BY <1>6, LeaveType DEF Save
  <2>. QED
    BY <1>6, <2>1, <2>2 DEF Save, QueueTypeOK, ListTypeOK
<1>. QED
  BY <1>1, <1>2, <1>4, <1>5, <1>6 DEF DownloadStep

(* The automatic downloader, the sweeps of the list, the monthly reset.      *)
LEMMA BackgroundTypeOK ==
  ASSUME TypeOK,
         \/ AutoRead \/ AutoLook \/ AutoEnqueue \/ CrawlerAdds
         \/ Reap \/ Cancel \/ MonthlyReset
  PROVE  TypeOK'
<1>. USE DEF TypeOK
<1>1. CASE AutoRead
  BY <1>1 DEF AutoRead, QueueTypeOK, ListTypeOK, ActorTypeOK, LinkTypeOK
<1>2. CASE AutoLook
  BY <1>2 DEF AutoLook, QueueTypeOK, ListTypeOK, ActorTypeOK, LinkTypeOK
<1>3. CASE AutoEnqueue
  <2>1. AutoItem(autoPick) \in Item
    BY <1>3 DEF AutoEnqueue, AutoItem, Item, LinkTypeOK
  <2>2. QueueTypeOK'
    BY <1>3, <2>1 DEF AutoEnqueue, HasRoom, QueueTypeOK
  <2>. QED
    BY <1>3, <2>2 DEF AutoEnqueue, ListTypeOK, ActorTypeOK, LinkTypeOK
<1>4. CASE CrawlerAdds
  BY <1>4 DEF CrawlerAdds, QueueTypeOK, ListTypeOK, ActorTypeOK, LinkTypeOK
<1>5. CASE Reap
  BY <1>5 DEF Reap, QueueTypeOK, ListTypeOK, ActorTypeOK, LinkTypeOK
<1>6. CASE Cancel
  BY <1>6 DEF Cancel, QueueTypeOK, ListTypeOK, ActorTypeOK, LinkTypeOK
<1>7. CASE MonthlyReset
  BY <1>7 DEF MonthlyReset, QueueTypeOK, ListTypeOK, ActorTypeOK, LinkTypeOK
<1>. QED
  BY <1>1, <1>2, <1>3, <1>4, <1>5, <1>6, <1>7

LEMMA StepTypeOK == TypeOK /\ [Next]_vars => TypeOK'
<1>. SUFFICES ASSUME TypeOK, [Next]_vars PROVE TypeOK'
  OBVIOUS
<1>1. CASE Next
  BY <1>1, RequesterTypeOK, WorkerTypeOK, ListNowTypeOK, DownloadTypeOK,
     BackgroundTypeOK
     DEF Next
<1>2. CASE UNCHANGED vars
  BY <1>2 DEF vars, TypeOK, QueueTypeOK, ListTypeOK, ActorTypeOK, LinkTypeOK
<1>. QED
  BY <1>1, <1>2

(* Every variable keeps its type, the queue its capacity, and every handler  *)
(* and worker that is in the middle of something its item.                   *)
THEOREM TypeCorrect == Spec => []TypeOK
<1>. QED
  BY InitTypeOK, StepTypeOK, PTL DEF Spec
-----------------------------------------------------------------------------
(* A step of one actor leaves the others where they are.                     *)

OnlyMoves(o) == \A p \in Actor : p # o => pc'[p] = pc[p] /\ job'[p] = job[p]

LEMMA RequesterMoves ==
  ASSUME TypeOK, NEW r \in Requester, RequesterStep(r)
  PROVE  OnlyMoves(r)
BY DEF OnlyMoves, TypeOK, ActorTypeOK, Leave, Goto, RequesterStep, Request,
       CheckLeachLimit, CheckEnqueueLimit, CheckDownloading, CheckQueued,
       EnqueueRequest, Answer

LEMMA WorkerMoves ==
  ASSUME TypeOK, NEW w \in Worker, WorkerStep(w)
  PROVE  OnlyMoves(w)
BY DEF OnlyMoves, TypeOK, ActorTypeOK, Goto, WorkerStep, Dequeue,
       WaitForDownloadConcurrencyFree, List

LEMMA DownloadMoves ==
  ASSUME TypeOK, NEW o \in Actor, DownloadStep(o)
  PROVE  OnlyMoves(o)
BY DEF OnlyMoves, TypeOK, ActorTypeOK, Leave, Goto, DownloadStep, Refuse,
       RefuseTwin, Fail, Complete, Save
-----------------------------------------------------------------------------
(* The list of downloading files.                                            *)

EntryInv == NoTwinEntries /\ NoLeakedSlot

(* What the list holds changes only where an entry is added, ended, reaped   *)
(* or cancelled.                                                             *)
LEMMA QuietEntries ==
  ASSUME EntryInv, UNCHANGED downloadingFiles,
         \A o \in Actor : pc[o] = "running" => pc'[o] = pc[o] /\ job'[o] = job[o],
         ListTypeOK
  PROVE  EntryInv'
BY DEF EntryInv, NoTwinEntries, NoLeakedSlot, ListTypeOK, Actor

LEMMA InitEntryInv == Init => EntryInv
BY DEF Init, EntryInv, NoTwinEntries, NoLeakedSlot

LEMMA FewerEntries ==
  ASSUME EntryInv, UNCHANGED <<pc, job>>, downloadingFiles' \subseteq downloadingFiles
  PROVE  EntryInv'
BY DEF EntryInv, NoTwinEntries, NoLeakedSlot

(* The end of o's download marks its entry, and only then does o move on.    *)
LEMMA EndedEntries ==
  ASSUME EntryInv, ListTypeOK, ActorTypeOK, NEW o \in Actor, End(o),
         \A p \in Actor : p # o => pc'[p] = pc[p] /\ job'[p] = job[p]
  PROVE  EntryInv'
<1>. DEFINE h(e) == IF e.owner = o THEN [e EXCEPT !.over = TRUE] ELSE e
<1>1. downloadingFiles' = {h(e) : e \in downloadingFiles}
  BY DEF End
<1>2. \A e \in downloadingFiles :
        /\ h(e).link = e.link /\ h(e).owner = e.owner /\ e.owner \in Actor
        /\ h(e).over = (IF e.owner = o THEN TRUE ELSE e.over)
  BY DEF ListTypeOK, Actor
<1>. HIDE DEF h
<1>3. ASSUME NEW e \in downloadingFiles', NEW f \in downloadingFiles', e.link = f.link
      PROVE  e = f
  <2>1. PICK a \in downloadingFiles, b \in downloadingFiles : e = h(a) /\ f = h(b)
    BY <1>1
  <2>2. a.link = b.link
    BY <1>2, <1>3, <2>1
  <2>3. a = b
    BY <2>2 DEF EntryInv, NoTwinEntries
  <2>. QED
    BY <2>1, <2>3
<1>4. ASSUME NEW e \in downloadingFiles', ~e.over
      PROVE  pc'[e.owner] = "running" /\ job'[e.owner].link = e.link
  <2>1. PICK a \in downloadingFiles : e = h(a)
    BY <1>1
  <2>2. e.owner = a.owner /\ a.owner \in Actor \ {o} /\ e.link = a.link /\ ~a.over
    BY <1>2, <1>4, <2>1
  <2>3. pc[a.owner] = "running" /\ job[a.owner].link = a.link
    BY <2>2 DEF EntryInv, NoLeakedSlot
  <2>. QED
    BY <2>2, <2>3
<1>. QED
  BY <1>3, <1>4 DEF EntryInv, NoTwinEntries, NoLeakedSlot

LEMMA RequesterEntries ==
  ASSUME TypeOK, EntryInv, NEW r \in Requester, RequesterStep(r)
  PROVE  EntryInv'
<1>1. r \in Actor /\ UNCHANGED downloadingFiles /\ pc[r] # "running"
  BY DEF Actor, RequesterStep, Request, CheckLeachLimit, CheckEnqueueLimit,
         CheckDownloading, CheckQueued, EnqueueRequest, Answer
<1>. QED
  BY <1>1, RequesterMoves, QuietEntries DEF TypeOK, OnlyMoves

(* The test of the link and the new entry are one step: the link was free,   *)
(* and its downloader is running from then on.                               *)
LEMMA AddedEntries ==
  ASSUME EntryInv, ListTypeOK, NEW o \in Downloader, NEW l, ~Listed(l),
         AddEntry(o, l), pc'[o] = "running", job'[o].link = l, pc[o] # "running",
         \A p \in Downloader : p # o => pc'[p] = pc[p] /\ job'[p] = job[p]
  PROVE  EntryInv'
<1>. DEFINE new == [link |-> l, owner |-> o, over |-> FALSE]
<1>1. downloadingFiles' = downloadingFiles \cup {new}
  BY DEF AddEntry
<1>2. new.link = l /\ new.owner = o
  OBVIOUS
<1>3. \A e \in downloadingFiles : e.owner \in Downloader /\ e.link # l
  BY DEF Listed, ListTypeOK
<1>. HIDE DEF new
<1>4. NoTwinEntries'
  BY <1>1, <1>2, <1>3 DEF EntryInv, NoTwinEntries
<1>5. NoLeakedSlot'
  BY <1>1, <1>2, <1>3 DEF EntryInv, NoLeakedSlot
<1>. QED
  BY <1>4, <1>5 DEF EntryInv

LEMMA WorkerEntries ==
  ASSUME TypeOK, EntryInv, NEW w \in Worker, WorkerStep(w)
  PROVE  EntryInv'
<1>1. w \in Actor /\ w \in Downloader /\ Downloader \subseteq Actor
  BY DEF Actor, Downloader
<1>2. CASE Dequeue(w) \/ WaitForDownloadConcurrencyFree(w)
  <2>1. UNCHANGED downloadingFiles /\ pc[w] # "running"
    BY <1>2 DEF Dequeue, WaitForDownloadConcurrencyFree
  <2>. QED
    BY <1>1, <2>1, WorkerMoves, QuietEntries DEF TypeOK, OnlyMoves
<1>3. CASE List(w)
  <2>1. /\ ~Listed(job[w].link) /\ AddEntry(w, job[w].link) /\ pc[w] # "running"
        /\ pc'[w] = "running" /\ job'[w].link = job[w].link
    BY <1>1, <1>3 DEF List, AlreadyListed, Goto, TypeOK, ActorTypeOK
  <2>. QED
    BY <1>1, <2>1, WorkerMoves, AddedEntries DEF TypeOK, OnlyMoves
<1>. QED
  BY <1>2, <1>3 DEF WorkerStep

LEMMA ListNowEntries ==
  ASSUME TypeOK, EntryInv, NEW r \in Requester, NEW x \in Watcher, ListNow(r, x)
  PROVE  EntryInv'
<1>1. /\ x \in Downloader /\ x \in Actor /\ r \notin Downloader
      /\ Downloader \subseteq Actor
  BY DEF Actor, Downloader
<1>2. /\ ~Listed(job[r].link) /\ AddEntry(x, job[r].link) /\ pc[x] # "running"
      /\ pc'[x] = "running" /\ job'[x].link = job[r].link
      /\ \A p \in Downloader : p # x => pc'[p] = pc[p] /\ job'[p] = job[p]
  BY <1>1 DEF ListNow, AlreadyListed, TypeOK, ActorTypeOK
<1>. QED
  BY <1>1, <1>2, AddedEntries DEF TypeOK

LEMMA DownloadEntries ==
  ASSUME TypeOK, EntryInv, NEW o \in Actor, DownloadStep(o)
  PROVE  EntryInv'
<1>1. \A p \in Actor : p # o => pc'[p] = pc[p] /\ job'[p] = job[p]
  BY DownloadMoves DEF OnlyMoves
<1>2. CASE Refuse(o) \/ RefuseTwin(o) \/ Save(o)
  <2>1. UNCHANGED downloadingFiles /\ pc[o] # "running"
    BY <1>2 DEF Refuse, RefuseTwin, Save
  <2>. QED
    BY <1>1, <2>1, QuietEntries DEF TypeOK
<1>3. CASE Fail(o) \/ Complete(o)
  BY <1>1, <1>3, EndedEntries DEF TypeOK, Fail, Complete
<1>. QED
  BY <1>2, <1>3 DEF DownloadStep

LEMMA BackgroundEntries ==
  ASSUME TypeOK, EntryInv,
         \/ AutoRead \/ AutoLook \/ AutoEnqueue \/ CrawlerAdds
         \/ Reap \/ Cancel \/ MonthlyReset
  PROVE  EntryInv'
<1>1. UNCHANGED <<pc, job>> /\ downloadingFiles' \subseteq downloadingFiles
  BY DEF AutoRead, AutoLook, AutoEnqueue, CrawlerAdds, Reap, Cancel, MonthlyReset
<1>. QED
  BY <1>1, FewerEntries

LEMMA StepEntryInv == TypeOK /\ EntryInv /\ [Next]_vars => EntryInv'
<1>. SUFFICES ASSUME TypeOK, EntryInv, [Next]_vars PROVE EntryInv'
  OBVIOUS
<1>1. CASE Next
  BY <1>1, RequesterEntries, WorkerEntries, ListNowEntries, DownloadEntries,
     BackgroundEntries
     DEF Next
<1>2. CASE UNCHANGED vars
  BY <1>2, FewerEntries DEF vars
<1>. QED
  BY <1>1, <1>2

LEMMA EntryCorrect == Spec => []EntryInv
<1>. QED
  BY TypeCorrect, InitEntryInv, StepEntryInv, PTL DEF Spec

(* No link is downloaded twice at once: DownloadFile's test and its append   *)
(* are one critical section of downloadingMutex, whoever else asks.          *)
THEOREM NoTwins == Spec => []NoTwinEntries
<1>1. EntryInv => NoTwinEntries
  BY DEF EntryInv
<1>. QED
  BY <1>1, EntryCorrect, PTL

(* An entry that is not over has a download behind it that will end it: no   *)
(* error path leaves one to hold a concurrency slot for ever.                *)
THEOREM NoLeaks == Spec => []NoLeakedSlot
<1>1. EntryInv => NoLeakedSlot
  BY DEF EntryInv
<1>. QED
  BY <1>1, EntryCorrect, PTL
-----------------------------------------------------------------------------
(* The list as the abstract DownloadList.                                    *)

(* The end of o's download moves at most its own link from going to over.    *)
LEMMA EndMoves ==
  ASSUME TypeOK, EntryInv, NEW o \in Actor, End(o)
  PROVE  Entries!Next \/ UNCHANGED Entries!listVars
<1>. DEFINE h(e) == IF e.owner = o THEN [e EXCEPT !.over = TRUE] ELSE e
<1>1. downloadingFiles' = {h(e) : e \in downloadingFiles}
  BY DEF End
<1>2. \A e \in downloadingFiles :
        h(e).link = e.link /\ (h(e).over <=> e.over \/ e.owner = o)
  BY DEF TypeOK, ListTypeOK
<1>. HIDE DEF h
<1>3. OverLinks' = OverLinks \cup {e.link : e \in {x \in downloadingFiles : x.owner = o}}
  <2>1. OverLinks' = {h(e).link : e \in {x \in downloadingFiles : h(x).over}}
    BY <1>1 DEF OverLinks
  <2>2. {h(e).link : e \in {x \in downloadingFiles : h(x).over}}
          = {e.link : e \in {x \in downloadingFiles : x.over \/ x.owner = o}}
    BY <1>2
  <2>. QED
    BY <2>1, <2>2 DEF OverLinks
<1>4. GoingLinks' = {e.link : e \in {x \in downloadingFiles : ~x.over /\ x.owner # o}}
  <2>1. GoingLinks' = {h(e).link : e \in {x \in downloadingFiles : ~h(x).over}}
    BY <1>1 DEF GoingLinks
  <2>. QED
    BY <1>2, <2>1
<1>5. CASE \E e \in downloadingFiles : e.owner = o /\ ~e.over
  <2>1. PICK e \in downloadingFiles : e.owner = o /\ ~e.over
    BY <1>5
  <2>2. e.link \in Link /\ e.link \in GoingLinks
    BY <2>1 DEF TypeOK, ListTypeOK, GoingLinks
  <2>3. \A f \in downloadingFiles : f.owner = o /\ ~f.over => f = e
    BY <2>1 DEF EntryInv, NoTwinEntries, NoLeakedSlot
  <2>4. \A f \in downloadingFiles : f.link = e.link => f = e
    BY DEF EntryInv, NoTwinEntries
  <2>5. GoingLinks' = GoingLinks \ {e.link}
    BY <1>4, <2>1, <2>3, <2>4 DEF GoingLinks
  <2>6. OverLinks' = OverLinks \cup {e.link}
    BY <1>3, <2>1, <2>3 DEF OverLinks
  <2>. QED
    BY <2>2, <2>5, <2>6 DEF Entries!Next, Entries!End
<1>6. CASE ~\E e \in downloadingFiles : e.owner = o /\ ~e.over
  <2>1. GoingLinks' = GoingLinks
    BY <1>4, <1>6 DEF GoingLinks
  <2>2. OverLinks' = OverLinks
    BY <1>3, <1>6 DEF OverLinks
  <2>. QED
    BY <2>1, <2>2 DEF Entries!listVars
<1>. QED
  BY <1>5, <1>6

LEMMA AddMoves ==
  ASSUME TypeOK, NEW o, NEW item \in Item, ~Listed(item.link),
         AddEntry(o, item.link)
  PROVE  Entries!Next
<1>. DEFINE new == [link |-> item.link, owner |-> o, over |-> FALSE]
<1>1. new.link = item.link /\ ~new.over
  OBVIOUS
<1>2. item.link \in Link
  BY DEF Item
<1>3. item.link \notin GoingLinks \cup OverLinks
  BY DEF Listed, GoingLinks, OverLinks
<1>4. downloadingFiles' = downloadingFiles \cup {new}
  BY DEF AddEntry
<1>. HIDE DEF new
<1>5. GoingLinks' = GoingLinks \cup {item.link}
  BY <1>1, <1>4 DEF GoingLinks
<1>6. OverLinks' = OverLinks
  BY <1>1, <1>4 DEF OverLinks
<1>. QED
  BY <1>2, <1>3, <1>5, <1>6 DEF Entries!Next, Entries!Add

LEMMA WorkerListMoves ==
  ASSUME TypeOK, NEW w \in Worker, List(w)
  PROVE  Entries!Next
<1>1. w \in Actor /\ job[w] \in Item
  BY Busy DEF List, TypeOK, Actor, Downloader
<1>. QED
  BY <1>1, AddMoves DEF List, AlreadyListed

LEMMA ListNowMoves ==
  ASSUME TypeOK, NEW r \in Requester, NEW x \in Watcher, ListNow(r, x)
  PROVE  Entries!Next
<1>1. r \in Actor /\ job[r] \in Item
  BY Busy DEF ListNow, TypeOK, Actor
<1>. QED
  BY <1>1, AddMoves DEF ListNow, AlreadyListed

(* An entry has its link for itself, so that only this link is dropped.      *)
LEMMA CancelMoves ==
  ASSUME TypeOK, EntryInv, Cancel
  PROVE  Entries!Next
<1>1. PICK e \in downloadingFiles : downloadingFiles' = downloadingFiles \ {e}
  BY DEF Cancel
<1>2. \A f \in downloadingFiles : f.link = e.link => f = e
  BY DEF EntryInv, NoTwinEntries
<1>3. GoingLinks' = GoingLinks \ {e.link} /\ OverLinks' = OverLinks \ {e.link}
  BY <1>1, <1>2 DEF GoingLinks, OverLinks
<1>4. {e.link} \in SUBSET (GoingLinks \cup OverLinks)
  BY DEF GoingLinks, OverLinks
<1>. QED
  BY <1>3, <1>4 DEF Entries!Next, Entries!Drop

LEMMA ListSimulation == TypeOK /\ EntryInv /\ [Next]_vars => [Entries!Next]_Entries!listVars
<1>. SUFFICES ASSUME TypeOK, EntryInv, [Next]_vars
              PROVE  Entries!Next \/ UNCHANGED Entries!listVars
  OBVIOUS
<1>1. ASSUME NEW r \in Requester, RequesterStep(r) PROVE UNCHANGED downloadingFiles
  BY <1>1 DEF RequesterStep, Request, CheckLeachLimit, CheckEnqueueLimit,
         CheckDownloading, CheckQueued, EnqueueRequest, Answer
<1>2. ASSUME NEW w \in Worker, WorkerStep(w)
      PROVE  UNCHANGED downloadingFiles \/ List(w)
  BY <1>2 DEF WorkerStep, Dequeue, WaitForDownloadConcurrencyFree
<1>3. ASSUME NEW o \in Actor, DownloadStep(o)
      PROVE  UNCHANGED downloadingFiles \/ End(o)
  BY <1>3 DEF DownloadStep, Refuse, RefuseTwin, Fail, Complete, Save
<1>4. CASE AutoRead \/ AutoLook \/ AutoEnqueue \/ CrawlerAdds \/ MonthlyReset
  BY <1>4 DEF AutoRead, AutoLook, AutoEnqueue, CrawlerAdds, MonthlyReset,
         Entries!listVars, GoingLinks, OverLinks
<1>5. CASE Reap
  <2>1. GoingLinks' = GoingLinks /\ OverLinks' = {}
    BY <1>5 DEF Reap, GoingLinks, OverLinks
  <2>. QED
    BY <2>1 DEF Entries!Next, Entries!Reap
<1>6. UNCHANGED downloadingFiles => UNCHANGED Entries!listVars
  BY DEF Entries!listVars, GoingLinks, OverLinks
<1>7. UNCHANGED vars => UNCHANGED downloadingFiles
  BY DEF vars
<1>. QED
  BY <1>1, <1>2, <1>3, <1>4, <1>5, <1>6, <1>7, WorkerListMoves, ListNowMoves,
     EndMoves, CancelMoves DEF Next

(* Whatever handlers and workers race for, the list moves as DownloadList    *)
(* does: DownloadFile adds a link that no entry has, a download ends its own *)
(* entry once, and GetDownloadingFiles takes exactly what is over.           *)
THEOREM ListImplemented == Spec => ImplementsList
<1>1. Init => Entries!Init
  BY DEF Init, Entries!Init, GoingLinks, OverLinks
<1>. QED
  BY <1>1, TypeCorrect, EntryCorrect, ListSimulation, PTL
     DEF Spec, ImplementsList, Entries!Spec
=============================================================================
