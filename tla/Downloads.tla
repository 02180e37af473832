----------------------------- MODULE Downloads -----------------------------
(* The life of a download: DownloadFile and its watcher goroutine, the list  *)
(* of downloading files, cancellation, and the periodic tasks that look at   *)
(* the download directory (torrent_service.go).                              *)
(*                                                                           *)
(* A download is one call of DownloadFile; it reads and writes the shared    *)
(* *DownloadingFile with its watcher, without a lock.  A panic in a watcher  *)
(* goroutine is recovered by nobody and takes the process down; a restart    *)
(* keeps the directory and the database.                                     *)
EXTENDS Naturals, FiniteSets

CONSTANTS
    Download, Link, Name,
    NameOf,       \* [Link -> Name]: the file name inside the torrent
    Magnet,       \* the links that are magnet links
    Marked,       \* links whose meta file is called ...-<name>.torrent
    MaxStart      \* bound: downloads started by one process

NoLink == "no link"

ASSUME LinkAssumption ==
    /\ NoLink \notin Link
    /\ NameOf \in [Link -> Name]
    /\ Magnet \subseteq Link
    /\ Marked \subseteq Link
    /\ MaxStart \in Nat

VARIABLES
    link,        \* TorrentUrl
    starter,     \* DownloadFile of each download
    watcher,     \* its goroutine
    torrent,     \* d.Torrent: "nil", "open", "closed"
    received,    \* downloads whose BytesCompleted equals Size
    named,       \* downloads whose Name and Size are set
    full,        \* downloads whose DownloadedSize equals Size
    failed,      \* downloads whose Error is set
    listed,      \* downloadingFiles
    request,     \* of each name: how far CancelDownload or RemoveDownload is
    localFiles,  \* names the scanner has listed
    sweep,       \* RemoveIncompleteDownloadFiles: its ReadDir, names still to see
    files,       \* the download directory: content of each name
    metaFiles,   \* links whose meta file exists
    localLinks,  \* links whose localLink is set in the database
    up, starts

downloadVars == <<link, starter, watcher, torrent, received, named, full, failed, listed>>
taskVars == <<request, localFiles, sweep>>
diskVars == <<files, metaFiles, localLinks>>
lifeVars == <<up, starts>>
vars == <<downloadVars, taskVars, diskVars, lifeVars>>

NoSweep == [names |-> {}, metas |-> {}]
FileOf(d) == NameOf[link[d]]
ListedName(n) == \E d \in listed : d \in named /\ FileOf(d) = n
MarkedBy(metas, n) == {l \in metas \cap Marked : NameOf[l] = n}
OnDisk == {n \in Name : files[n] # "none"}

Failing == {"failMeta", "failAdd", "failExists", "failCheck"}
Sent == {"sentMeta", "sentAdd", "sentCheck"}

Init ==
    /\ link = [d \in Download |-> NoLink]
    /\ starter = [d \in Download |-> "idle"]
    /\ watcher = [d \in Download |-> "off"]
    /\ torrent = [d \in Download |-> "nil"]
    /\ received = {} /\ named = {} /\ full = {} /\ failed = {}
    /\ listed = {}
    /\ request = [n \in Name |-> "none"]
    /\ localFiles = {} /\ sweep = NoSweep
    /\ files = [n \in Name |-> "none"]
    /\ metaFiles = {} /\ localLinks = {}
    /\ up = TRUE /\ starts = 0

-----------------------------------------------------------------------------
(* DownloadFile                                                              *)

(* RemoveDownload holds downloadingFilesMux while it removes the file.       *)
Locked == \E n \in Name : request[n] = "unlink"

At(d, label) == up /\ starter[d] = label
Goto(d, label) == starter' = [starter EXCEPT ![d] = label]

(* The locked check of the list, the append, and "go func()".  A record that *)
(* is out of the list with its DownloadFile and watcher returned is done     *)
(* with, and stands for the next download.                                   *)
Unused(d) ==
    \/ starter[d] = "idle"
    \/ /\ starter[d] \in {"failed", "returned", "writing"}
       /\ watcher[d] = "ended"
       /\ d \notin listed

UsedRecord(d) ==
    named' = named \ {d} /\ UNCHANGED received
NewRecord(d) ==
    named' = named \ {d} /\ received' = received \ {d}

Start(d) ==
    /\ up /\ ~Locked /\ Unused(d)
    /\ starts < MaxStart
    /\ starts' = starts + 1
    /\ \E l \in Link :
          /\ \A e \in listed : link[e] # l
          /\ link' = [link EXCEPT ![d] = l]
    /\ listed' = listed \cup {d}
    /\ Goto(d, "meta")
    /\ watcher' = [watcher EXCEPT ![d] = "on"]
    /\ torrent' = [torrent EXCEPT ![d] = "nil"]
    /\ NewRecord(d)
    /\ full' = full \ {d} /\ failed' = failed \ {d}
    /\ UNCHANGED <<taskVars, diskVars, up>>

(* strings.HasPrefix(torrentUrl, "magent:?") holds of no link; the other     *)
(* branch creates the meta file before it asks for it.                       *)
CreateMeta(d) ==
    /\ At(d, "meta")
    /\ metaFiles' = metaFiles \cup {link[d]}
    /\ Goto(d, "fetch")
    /\ UNCHANGED <<link, watcher, torrent, received, named, full, failed,
                   listed, taskVars, files, localLinks, lifeVars>>

(* http.Get answers, or fails (of a magnet link it always does); the file it *)
(* created stays, and MetaFileName is then "".                               *)
FetchMeta(d) ==
    /\ At(d, "fetch")
    /\ \/ link[d] \notin Magnet /\ Goto(d, "add")
       \/ Goto(d, "failMeta")
    /\ UNCHANGED <<link, watcher, torrent, received, named, full, failed,
                   listed, taskVars, diskVars, lifeVars>>

(* AddTorrentFromFile and the assignments of Name and Size.                  *)
AddTorrent(d) ==
    /\ At(d, "add")
    /\ \/ link[d] \in metaFiles /\ Goto(d, "named") /\ named' = named \cup {d}
       \/ Goto(d, "failAdd") /\ UNCHANGED named
    /\ UNCHANGED <<link, watcher, torrent, received, full, failed,
                   listed, taskVars, diskVars, lifeVars>>

AssignTorrent(d) ==
    /\ At(d, "named")
    /\ torrent' = [torrent EXCEPT ![d] = "open"]
    /\ Goto(d, "check")
    /\ UNCHANGED <<link, watcher, received, named, full, failed,
                   listed, taskVars, diskVars, lifeVars>>

(* CheckFileExistAndSize; localFiles is read without its lock.               *)
Check(d) ==
    /\ At(d, "check")
    /\ \/ FileOf(d) \in localFiles /\ Goto(d, "failExists")
       \/ FileOf(d) \notin localFiles /\ Goto(d, "failCheck")
       \/ FileOf(d) \notin localFiles /\ Goto(d, "going")
    /\ UNCHANGED <<link, watcher, torrent, received, named, full, failed, listed,
                   taskVars, diskVars, lifeVars>>

DownloadAll(d) ==
    /\ At(d, "going")
    /\ Goto(d, "returned")
    /\ UNCHANGED <<link, watcher, torrent, received, named, full, failed, listed,
                   taskVars, diskVars, lifeVars>>

(* The deferred send needs the watcher in its select: a watcher that has     *)
(* already ended leaves DownloadFile, and its queue worker, here for ever.   *)
SendDone(d) ==
    /\ up /\ starter[d] \in Failing
    /\ watcher[d] = "on"
    /\ watcher' = [watcher EXCEPT ![d] = "ended"]
    /\ Goto(d, CASE starter[d] = "failMeta" -> "sentMeta"
                 [] starter[d] = "failCheck" -> "sentCheck"
                 [] OTHER -> "sentAdd")
    /\ UNCHANGED <<link, torrent, received, named, full, failed, listed,
                   taskVars, diskVars, lifeVars>>

(* d.Error = err, with the watcher gone.                                     *)
NoError(d) == UNCHANGED failed
RecordError(d) == failed' = failed \cup {d}

SetError(d) ==
    /\ up /\ starter[d] \in Sent
    /\ RecordError(d)
    /\ Goto(d, CASE starter[d] = "sentMeta" -> "failed"
                 [] starter[d] = "sentCheck" -> "undoFile"
                 [] OTHER -> "undoMeta")
    /\ UNCHANGED <<link, watcher, torrent, received, named, full, listed,
                   taskVars, diskVars, lifeVars>>

UndoFile(d) ==
    /\ At(d, "undoFile")
    /\ files' = [files EXCEPT ![FileOf(d)] = "none"]
    /\ Goto(d, "undoMeta")
    /\ UNCHANGED <<link, watcher, torrent, received, named, full, failed, listed,
                   taskVars, metaFiles, localLinks, lifeVars>>

UndoMeta(d) ==
    /\ At(d, "undoMeta")
    /\ metaFiles' = metaFiles \ {link[d]}
    /\ Goto(d, "failed")
    /\ UNCHANGED <<link, watcher, torrent, received, named, full, failed, listed,
                   taskVars, files, localLinks, lifeVars>>

-----------------------------------------------------------------------------
(* The torrent client (external): it writes what it is asked for into the    *)
(* file, and counts a piece as complete once, so that a file deleted after   *)
(* the first piece is never whole again.  A file that is already whole is    *)
(* verified when the torrent is added.                                       *)
Write(d) ==
    /\ up /\ torrent[d] = "open" /\ d \notin received
    /\ starter[d] \in {"returned", "writing"}
    /\ files[FileOf(d)] = "none"
    /\ files' = [files EXCEPT ![FileOf(d)] =
                    IF starter[d] = "returned" THEN "partial" ELSE "torn"]
    /\ Goto(d, "writing")
    /\ UNCHANGED <<link, watcher, torrent, received, named, full, failed, listed,
                   taskVars, metaFiles, localLinks, lifeVars>>

Receive(d) ==
    /\ up /\ torrent[d] = "open" /\ d \notin received
    /\ \/ files[FileOf(d)] = "whole"
       \/ starter[d] \in {"returned", "writing"} /\ files[FileOf(d)] # "none"
    /\ received' = received \cup {d}
    /\ files' = [files EXCEPT ![FileOf(d)] = IF @ = "partial" THEN "whole" ELSE @]
    /\ UNCHANGED <<link, starter, watcher, torrent, named, full, failed, listed,
                   taskVars, metaFiles, localLinks, lifeVars>>

-----------------------------------------------------------------------------
(* The watcher goroutine.  Drop panics on a nil torrent and on one that is   *)
(* dropped already; nothing in the goroutine recovers.                       *)
Panic == up' = FALSE /\ UNCHANGED <<downloadVars, taskVars, diskVars, starts>>

DropAndEnd(d) ==
    /\ torrent[d] = "open"
    /\ torrent' = [torrent EXCEPT ![d] = "closed"]
    /\ failed' = failed \cup {d}
    /\ watcher' = [watcher EXCEPT ![d] = "ended"]
    /\ UNCHANGED <<link, starter, received, named, full, listed,
                   taskVars, diskVars, lifeVars>>

EndQuietly(d) ==
    /\ torrent[d] = "nil"
    /\ failed' = failed \cup {d}
    /\ watcher' = [watcher EXCEPT ![d] = "ended"]
    /\ UNCHANGED <<link, starter, torrent, received, named, full, listed,
                   taskVars, diskVars, lifeVars>>
PanicOnNil(d) == torrent[d] = "nil" /\ Panic

(* ctx.Done(): TorrentDownloadTimeoutMin is over.                            *)
Timeout(d) ==
    /\ up /\ watcher[d] = "on"
    /\ \/ DropAndEnd(d)
       \/ PanicOnNil(d)
       \/ torrent[d] = "closed" /\ Panic

(* Two minutes without progress.                                             *)
Inactive(d) ==
    /\ up /\ watcher[d] = "on" /\ d \notin received
    /\ \/ DropAndEnd(d)
       \/ torrent[d] = "closed" /\ Panic

TickComplete(d) ==
    /\ up /\ watcher[d] = "on" /\ torrent[d] # "nil" /\ d \in received
    /\ full' = full \cup {d}
    /\ watcher' = [watcher EXCEPT ![d] = "complete"]
    /\ UNCHANGED <<link, starter, torrent, received, named, failed, listed,
                   taskVars, diskVars, lifeVars>>

RemoveMeta(d) ==
    /\ up /\ watcher[d] = "complete"
    /\ metaFiles' = metaFiles \ {link[d]}
    /\ watcher' = [watcher EXCEPT ![d] = "link"]
    /\ UNCHANGED <<link, starter, torrent, received, named, full, failed, listed,
                   taskVars, files, localLinks, lifeVars>>

(* SaveTorrentLocalLink's result goes into DownloadFile's own err: a failure *)
(* may turn its return into an error, a success may hide one it is about to  *)
(* report.  Then the charge; a download that a bot asked for has a message   *)
(* to send, and Done waits for the answer to it.                             *)
AfterLink(d) ==
    \E label \in {"notify", "last"} : watcher' = [watcher EXCEPT ![d] = label]

SaveLink(d) ==
    /\ up /\ watcher[d] = "link"
    /\ \/ /\ localLinks' = localLinks \cup {link[d]}
          /\ \/ UNCHANGED starter
             \/ starter[d] \in Failing /\ Goto(d, "returned")
       \/ /\ UNCHANGED localLinks
          /\ IF starter[d] = "going" THEN Goto(d, "failCheck") ELSE UNCHANGED starter
    /\ AfterLink(d)
    /\ UNCHANGED <<link, torrent, received, named, full, failed, listed,
                   taskVars, files, metaFiles, lifeVars>>

Watch(d, from, to) ==
    /\ up /\ watcher[d] = from
    /\ watcher' = [watcher EXCEPT ![d] = to]
    /\ UNCHANGED <<link, starter, torrent, received, named, full, failed, listed,
                   taskVars, diskVars, lifeVars>>

(* The http.Get of SendLocalDownloadLinkToUerBot, which has no timeout.      *)
BotAnswers(d) == Watch(d, "notify", "last")

SetDone(d) == Watch(d, "last", "ended")

-----------------------------------------------------------------------------
(* The list of downloading files                                             *)

IsFull(d) == d \in full
IsOver(d) == d \in full \/ d \in failed

(* GetDownloadingFiles, from its ticker or a status request.                 *)
Reap ==
    /\ up /\ ~Locked
    /\ \E d \in listed : IsOver(d)
    /\ listed' = {d \in listed : ~IsOver(d)}
    /\ UNCHANGED <<link, starter, watcher, torrent, received, named, full, failed,
                   taskVars, diskVars, lifeVars>>

(* CancelDownload and RemoveDownload search the list without its mutex.  A   *)
(* panic of Drop is recovered by the web framework: nothing changes.  Bound: *)
(* one request for a name at a time.                                         *)
Ask(n, label) == request' = [request EXCEPT ![n] = label]

DropByName(n) ==
    \/ \E d \in listed \cap named :
          /\ FileOf(d) = n /\ torrent[d] = "open"
          /\ torrent' = [torrent EXCEPT ![d] = "closed"]
    \/ ~ListedName(n) /\ UNCHANGED torrent

Delist(n) == listed' = {d \in listed : d \notin named \/ FileOf(d) # n}

CancelSearch(n) ==
    /\ up /\ request[n] = "none"
    /\ DropByName(n)
    /\ Ask(n, IF ListedName(n) THEN "cancel" ELSE "delist")
    /\ UNCHANGED <<link, starter, watcher, received, named, full, failed, listed,
                   localFiles, sweep, diskVars, lifeVars>>

(* It reads the list by its index again for the name of the file to remove:  *)
(* when the entry is gone, that is another one, or a panic.                  *)
CancelFile(n) ==
    /\ up /\ request[n] = "cancel"
    /\ \/ \E d \in listed :
             /\ ListedName(n) => d \in named /\ FileOf(d) = n
             /\ files' = [m \in Name |->
                             IF d \in named /\ m = FileOf(d) THEN "none" ELSE files[m]]
             /\ Ask(n, "delist")
       \/ ~ListedName(n) /\ UNCHANGED files /\ Ask(n, "none")
    /\ UNCHANGED <<downloadVars, localFiles, sweep, metaFiles, localLinks, lifeVars>>

CancelDelist(n) ==
    /\ up /\ ~Locked /\ request[n] = "delist"
    /\ Delist(n)
    /\ Ask(n, "none")
    /\ UNCHANGED <<link, starter, watcher, torrent, received, named, full, failed,
                   localFiles, sweep, diskVars, lifeVars>>

RemoveSearch(n) ==
    /\ up /\ request[n] = "none" /\ files[n] # "none"
    /\ DropByName(n)
    /\ Ask(n, "remove")
    /\ UNCHANGED <<link, starter, watcher, received, named, full, failed, listed,
                   localFiles, sweep, diskVars, lifeVars>>

RemoveDelist(n) ==
    /\ up /\ ~Locked /\ request[n] = "remove"
    /\ Delist(n)
    /\ Ask(n, "unlink")
    /\ UNCHANGED <<link, starter, watcher, torrent, received, named, full, failed,
                   localFiles, sweep, diskVars, lifeVars>>

RemoveFile(n) ==
    /\ up /\ request[n] = "unlink"
    /\ files' = [files EXCEPT ![n] = "none"]
    /\ Ask(n, "none")
    /\ UNCHANGED <<downloadVars, localFiles, sweep, metaFiles, localLinks, lifeVars>>

RequestStep(n) ==
    CancelFile(n) \/ CancelDelist(n) \/ RemoveDelist(n) \/ RemoveFile(n)

-----------------------------------------------------------------------------
(* CleanUp: RemoveIncompleteDownloadFiles reads the directory once, then     *)
(* looks at each file; RemoveOrphanTorrentMetaFiles; RemoveExpiredLocalFiles *)
SweepStart ==
    /\ up /\ sweep = NoSweep /\ OnDisk # {}
    /\ sweep' = [names |-> OnDisk, metas |-> metaFiles \cap Marked]
    /\ UNCHANGED <<downloadVars, request, localFiles, diskVars, lifeVars>>

SweepTakes(n) ==
    /\ n \in sweep.names
    /\ files[n] # "none"
    /\ ~ListedName(n)
    /\ MarkedBy(sweep.metas, n) # {}

(* Each meta file that marks the name removes the file again; the second     *)
(* removal fails, and leaves that meta file where it is.                     *)
SweepFile(n) ==
    /\ up /\ n \in sweep.names
    /\ sweep' = IF sweep.names = {n} THEN NoSweep
                ELSE [sweep EXCEPT !.names = @ \ {n}]
    /\ IF SweepTakes(n)
       THEN /\ files' = [files EXCEPT ![n] = "none"]
            /\ \E l \in MarkedBy(sweep.metas, n) : metaFiles' = metaFiles \ {l}
       ELSE UNCHANGED <<files, metaFiles>>
    /\ UNCHANGED <<downloadVars, request, localFiles, localLinks, lifeVars>>

(* d.MetaFileName is set once the meta file has been fetched.                *)
MetaNamed(d) == d \in named \/ starter[d] \in {"add", "failAdd", "sentAdd", "undoMeta"}
MetaHeldByAny(l) == \E d \in Download : MetaNamed(d) /\ link[d] = l
MetaHeld(l) == \E d \in listed : MetaNamed(d) /\ link[d] = l

(* More than five minutes after the meta file was written.                   *)
OrphanSweep(l) ==
    /\ up /\ l \in metaFiles \ Magnet
    /\ ~MetaHeld(l)
    /\ metaFiles' = metaFiles \ {l}
    /\ UNCHANGED <<downloadVars, taskVars, files, localLinks, lifeVars>>

(* RemoveExpiredLocalFiles clears the link of a serial only.                 *)
Expire(n) ==
    /\ up /\ n \in localFiles /\ files[n] # "none"
    /\ files' = [files EXCEPT ![n] = "none"]
    /\ localLinks' \in {localLinks, {l \in localLinks : NameOf[l] # n}}
    /\ UNCHANGED <<downloadVars, taskVars, metaFiles, lifeVars>>

-----------------------------------------------------------------------------
(* GetLocalFiles: a name stays listed while the file exists; a new name is   *)
(* listed unless it is being downloaded or a meta file marks it.             *)
WholeOnly ==
    {n \in OnDisk : n \in localFiles \/ (~ListedName(n) /\ files[n] = "whole")}
Scanned ==
    {n \in OnDisk : n \in localFiles
                      \/ (~ListedName(n) /\ MarkedBy(metaFiles, n) = {})}

Scan ==
    /\ up /\ localFiles # Scanned
    /\ localFiles' = Scanned
    /\ UNCHANGED <<downloadVars, request, sweep, diskVars, lifeVars>>

(* RemoveInvalidLocalLinkFromDb.                                             *)
SyncLink(l) ==
    /\ up /\ l \in localLinks /\ NameOf[l] \notin localFiles
    /\ localLinks' = localLinks \ {l}
    /\ UNCHANGED <<downloadVars, taskVars, files, metaFiles, lifeVars>>

(* RemoveLocalFilesNotFoundInDb.                                             *)
SyncFile(n) ==
    /\ up /\ n \in localFiles /\ files[n] # "none"
    /\ \A l \in localLinks : NameOf[l] # n
    /\ files' = [files EXCEPT ![n] = "none"]
    /\ UNCHANGED <<downloadVars, taskVars, metaFiles, localLinks, lifeVars>>

(* The same for the empty file a magnet link leaves: it does not look like a *)
(* meta file, so the scanner lists it and the next sync removes it.          *)
SyncStray(l) ==
    /\ up /\ l \in metaFiles \cap Magnet
    /\ metaFiles' = metaFiles \ {l}
    /\ UNCHANGED <<downloadVars, taskVars, files, localLinks, lifeVars>>

-----------------------------------------------------------------------------
Kill == up /\ Panic

Restart ==
    /\ ~up
    /\ up' = TRUE /\ starts' = 0
    /\ link' = [d \in Download |-> NoLink]
    /\ starter' = [d \in Download |-> "idle"]
    /\ watcher' = [d \in Download |-> "off"]
    /\ torrent' = [d \in Download |-> "nil"]
    /\ received' = {} /\ named' = {} /\ full' = {} /\ failed' = {}
    /\ listed' = {}
    /\ request' = [n \in Name |-> "none"]
    /\ localFiles' = {} /\ sweep' = NoSweep
    /\ UNCHANGED diskVars

StarterStep(d) ==
    \/ CreateMeta(d) \/ AddTorrent(d) \/ AssignTorrent(d) \/ Check(d)
    \/ DownloadAll(d) \/ SendDone(d) \/ SetError(d) \/ UndoFile(d) \/ UndoMeta(d)

WatcherStep(d) ==
    TickComplete(d) \/ RemoveMeta(d) \/ SaveLink(d) \/ SetDone(d)

Next ==
    \/ \E d \in Download :
          \/ Start(d) \/ FetchMeta(d) \/ StarterStep(d)
          \/ Write(d) \/ Receive(d)
          \/ Timeout(d) \/ Inactive(d) \/ WatcherStep(d) \/ BotAnswers(d)
    \/ \E n \in Name :
          \/ CancelSearch(n) \/ RemoveSearch(n) \/ RequestStep(n)
          \/ SweepFile(n) \/ Expire(n) \/ SyncFile(n)
    \/ \E l \in Link : OrphanSweep(l) \/ SyncLink(l) \/ SyncStray(l)
    \/ SweepStart \/ Reap \/ Scan
    \/ Kill \/ Restart

Spec == Init /\ [][Next]_vars

(* What runs by itself: the goroutines between two waits, the timeout of the *)
(* context, and the tickers of UpdateDownloadingFiles, UpdateLocalFiles,     *)
(* CleanUp and SyncFilesAndDb.  Not: the answers to http.Get, which has no   *)
(* timeout (FetchMeta, BotAnswers), the peers (Write, Receive), requests,    *)
(* cancellations, and restarts.                                              *)
Fairness ==
    /\ \A d \in Download :
          /\ WF_vars(StarterStep(d))
          /\ WF_vars(Timeout(d))
          /\ WF_vars(WatcherStep(d))
    /\ \A n \in Name :
          /\ WF_vars(RequestStep(n))
          /\ WF_vars(SweepFile(n))
          /\ WF_vars(Expire(n))
          /\ WF_vars(SyncFile(n))
    /\ \A l \in Link :
          /\ WF_vars(OrphanSweep(l))
          /\ WF_vars(SyncLink(l))
          /\ WF_vars(SyncStray(l))
    /\ WF_vars(SweepStart)
    /\ WF_vars(Reap)
    /\ WF_vars(Scan)

FairSpec == Spec /\ Fairness

-----------------------------------------------------------------------------
StarterLabel == Failing \cup Sent \cup
    {"idle", "meta", "fetch", "add", "named", "check", "going", "returned",
     "writing", "undoFile", "undoMeta", "failed"}

RecordTypeOK ==
    /\ link \in [Download -> Link \cup {NoLink}]
    /\ starter \in [Download -> StarterLabel]
    /\ watcher \in [Download -> {"off", "on", "complete", "link", "notify", "last", "ended"}]
    /\ torrent \in [Download -> {"nil", "open", "closed"}]
    /\ named \subseteq Download /\ failed \subseteq Download
    /\ listed \subseteq Download

FieldsOK ==
    /\ \A d \in Download :
          /\ link[d] = NoLink <=> starter[d] = "idle"
          /\ watcher[d] = "off" <=> starter[d] = "idle"
          /\ starter[d] = "named" => d \in named
    /\ full \subseteq received /\ received \subseteq named
    /\ \A d \in Download : torrent[d] # "nil" => d \in named
    /\ \A d \in listed : watcher[d] # "off"

TaskTypeOK ==
    /\ request \in [Name -> {"none", "cancel", "delist", "remove", "unlink"}]
    /\ localFiles \subseteq Name
    /\ sweep \in [names : SUBSET Name, metas : SUBSET Marked]

DiskTypeOK ==
    /\ files \in [Name -> {"none", "partial", "torn", "whole"}]
    /\ metaFiles \subseteq Link /\ localLinks \subseteq Link

LifeTypeOK == up \in BOOLEAN /\ starts \in 0 .. MaxStart

(* Types, and how the fields of a *DownloadingFile depend on each other: a   *)
(* torrent is assigned after the name, and only a complete one is full.      *)
TypeOK == RecordTypeOK /\ FieldsOK /\ TaskTypeOK /\ DiskTypeOK /\ LifeTypeOK

(* An entry of downloadingFiles is watched, or GetDownloadingFiles will take *)
(* it away, or its DownloadFile has just released the watcher and is about   *)
(* to record its error: none is left that counts against the download        *)
(* concurrency and shields its file from the sweep with nobody to end it.    *)
NoZombieEntry ==
    \A d \in listed : watcher[d] = "on" \/ IsOver(d) \/ starter[d] \in Sent

GoingLinks == {link[d] : d \in {e \in listed : ~IsOver(e)}}
OverLinks == {link[d] : d \in {e \in listed : IsOver(e)}}

Entries == INSTANCE DownloadList WITH going <- GoingLinks, over <- OverLinks

(* Both goroutines of a download, cancellations and restarts move the list   *)
(* as DownloadList does: an entry ends once, though both of them set Error   *)
(* and DownloadedSize, and is not back to going while it is listed.          *)
ImplementsList == Entries!Spec

(* Every entry leaves the list, whatever hangs: the meta file's server, the  *)
(* peers, or the consumer that called DownloadFile.                          *)
EntryLeavesList == \A d \in Download : d \in listed ~> d \notin listed \/ ~up

Busy(d) ==
    starter[d] # "idle"
      /\ ~(starter[d] \in {"returned", "writing", "failed"} /\ watcher[d] = "ended")
Hangs(d) == starter[d] \in Failing /\ watcher[d] = "ended"

(* The queue worker gets its turn back: DownloadFile returns and Done is set *)
(* though the meta file's server may never answer and the peers never send;  *)
(* a download that was cancelled, or has no torrent yet at the timeout, ends *)
(* with the process instead.  The exceptions are a watcher that ended before *)
(* the deferred send (DownloadFile waits for it for ever), and one that      *)
(* waits for the messenger's server, which no timeout ends.                  *)
SlotReleased ==
    \A d \in Download :
        Busy(d) ~> ~Busy(d) \/ Hangs(d) \/ watcher[d] = "notify" \/ ~up

(* Why SlotReleased has its exception: DownloadFile does not get past its    *)
(* deferred send when the watcher ended first, whatever anybody else does,   *)
(* before the process ends.  The queue worker that called it is lost.        *)
HangsForGood == [][\A d \in Download : Hangs(d) /\ up => Hangs(d)']_vars

(* Whatever order cancel, timeout, the sweeps, the scanner and the sync come *)
(* in, a file that is not whole and that nobody downloads goes away.         *)
Abandoned(n) == files[n] \in {"partial", "torn"} /\ ~ListedName(n)
PartialGone == \A n \in Name : Abandoned(n) ~> ~Abandoned(n) \/ ~up

(* A meta file is removed when no listed download is of its link, with each  *)
(* way DownloadFile, its watcher or a crash may leave one behind.            *)
MetaLeft(l) == l \in metaFiles /\ \A d \in listed : link[d] # l
MetaGone == \A l \in Link : MetaLeft(l) ~> ~MetaLeft(l) \/ ~up

(* "torrent-meta-file exist --> incomplete download": when                   *)
(* RemoveIncompleteDownloadFiles takes a file whose meta file is there, the  *)
(* file is not a whole one, recorded in the database and listed as local.    *)
Recorded(n) == n \in localFiles /\ \E l \in localLinks : NameOf[l] = n
WholeSpared ==
    \A n \in Name :
        SweepTakes(n) /\ MarkedBy(metaFiles, n) # {}
            => ~(files[n] = "whole" /\ Recorded(n))

(* "link to torrent file or magnet link": the URL of a magnet link is not    *)
(* taken for that of a meta file.                                            *)
MagnetsAdded == \A d \in Download : starter[d] = "fetch" => link[d] \notin Magnet
=============================================================================
