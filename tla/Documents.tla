----------------------------- MODULE Documents ------------------------------
(* The documents of the movies collection (torrent_repository.go) and the    *)
(* tasks that keep them in step with the download directory                  *)
(* (torrent_service.go): who sets and clears localLink, and in which of the  *)
(* places a torrent link appears at.                                         *)
(*                                                                           *)
(* A torrent link is found at slots: in the qualities of a movie, or in a    *)
(* season of a serial.  UpdateOne changes one document; of a serial it       *)
(* changes one season, the first that matches ("seasons.$").                 *)
EXTENDS Naturals, FiniteSets

CONSTANTS
    Slot,        \* [doc, part, season, link]
    Doc, Link, File,
    TypeOf,      \* [Doc -> {"movie", "serial"}]: isMovie of the document's type
    FileOf,      \* [Link -> File]: the file a torrent holds
    Batch,       \* local files RemoveLocalFilesNotFoundInDb asks for at once
    MaxAsk,      \* bound: downloads asked for
    MaxRemoval,  \* bound: removals of links asked for
    MaxFailure   \* bound: database and file system calls that fail

Parts == {"movie", "serial"}
NoFile == "no file"

ASSUME DocumentAssumption ==
    /\ IsFiniteSet(Slot)
    /\ Slot \subseteq [doc : Doc, part : Parts, season : Nat, link : Link]
    /\ TypeOf \in [Doc -> Parts]
    /\ FileOf \in [Link -> File] /\ NoFile \notin File
    /\ Batch \in Nat \ {0}
    /\ MaxAsk \in Nat /\ MaxRemoval \in Nat /\ MaxFailure \in Nat

VARIABLES
    localLink,      \* of each slot: a file, or NoFile for ""
    removeLinks,    \* removeTorrentLinks of each document
    downloadLinks,  \* downloadTorrentLinks of each document
    files,          \* the download directory: what is complete
    localFiles,
    downloads,      \* <<doc, link>>: entries of downloadingFiles that run
    done,           \* <<doc, link>>: its entries that are complete
    saving,         \* <<doc, link>>: watchers that have yet to save the link
    sync,           \* SyncFilesAndDb: "off", "serial", "movie", "between", "files"
    cursor,         \* its cursor, <<slot, file>>; or the files still to look for
    doomed,         \* files of its last batch that were not found
    autoTodo,       \* HandleAutoDownloader: links it has yet to remove
    autoFiles,      \* it has removed some: RemoveLocalFilesNotFoundInDb follows
    asks, failures,
    fresh,          \* history: files no scan has listed since they were complete
    unwanted        \* history: links somebody asked to remove

autoVars == <<autoTodo, autoFiles>>
linkVars == <<removeLinks, downloadLinks, autoVars, unwanted>>
syncVars == <<sync, cursor, doomed>>
diskVars == <<files, localFiles, fresh>>
listVars == <<downloads, done, saving>>
vars == <<localLink, linkVars, diskVars, listVars, syncVars, asks, failures>>

MuxFree == sync \in {"off", "between"}
Recorded(f) == \E s \in Slot : localLink[s] = f
Fails == failures < MaxFailure /\ failures' = failures + 1

Init ==
    /\ localLink = [s \in Slot |-> NoFile]
    /\ removeLinks = [d \in Doc |-> {}] /\ downloadLinks = [d \in Doc |-> {}]
    /\ files = {} /\ localFiles = {} /\ fresh = {}
    /\ downloads = {} /\ done = {} /\ saving = {}
    /\ sync = "off" /\ cursor = {} /\ doomed = {}
    /\ autoTodo = {} /\ autoFiles = FALSE /\ unwanted = {}
    /\ asks = 0 /\ failures = 0

-----------------------------------------------------------------------------
(* UpdateOne: some document with a slot that matches; all of its qualities,  *)
(* or the first season that has such a slot.                                 *)
Matching(part, match) == {s \in match : s.part = part}

AllOfSeason(d, part, match) ==
    LET here == {s \in Matching(part, match) : s.doc = d}
    IN  {s \in Slot : /\ s.doc = d /\ s.part = part
                      /\ \E h \in here : s.season = h.season}

FirstOf(d, part, match) ==
    LET here == {s \in Matching(part, match) : s.doc = d}
    IN  {s \in here : part = "serial" => \A h \in here : s.season <= h.season}

Set(d, part, match, value) ==
    localLink' = [s \in Slot |->
                     IF s \in FirstOf(d, part, match) THEN value ELSE localLink[s]]

UpdateOne(part, match, value) ==
    \/ \E s \in Matching(part, match) : Set(s.doc, part, match, value)
    \/ Matching(part, match) = {} /\ UNCHANGED localLink

WithLink(l) == {s \in Slot : s.link = l}
WithLocalLink(f) == {s \in Slot : localLink[s] = f}

CheckTorrentLinkExist(d, l) == \E s \in WithLink(l) : s.doc = d

(* The result of this update is ignored by every caller.                     *)
RemoveTorrentLocalLink(part, f) ==
    \/ UpdateOne(part, WithLocalLink(f), NoFile) /\ UNCHANGED failures
    \/ UNCHANGED localLink /\ Fails

-----------------------------------------------------------------------------
(* Downloads.  SaveTorrentLocalLink asks for the slots of the document's     *)
(* type, and pulls the link from the document if there are any.              *)
SaveTorrentLocalLink(d, l) ==
    LET mine == {s \in WithLink(l) : s.doc = d} IN
    /\ UpdateOne(TypeOf[d], mine, FileOf[l])
    /\ downloadLinks' =
         IF Matching(TypeOf[d], mine) = {} THEN downloadLinks
         ELSE [downloadLinks EXCEPT ![d] = @ \ {l}]

ListedFile(f) == \E x \in downloads \cup done : FileOf[x[2]] = f

DownloadFile(d, l) ==
    /\ asks < MaxAsk
    /\ asks' = asks + 1
    /\ CheckTorrentLinkExist(d, l)
    /\ \A x \in downloads \cup done : x[2] # l
    /\ FileOf[l] \notin localFiles
    /\ downloads' = downloads \cup {<<d, l>>}
    /\ UNCHANGED <<localLink, linkVars, diskVars, done, saving, syncVars, failures>>

(* The watcher sees that the file is complete: the entry is over, and the    *)
(* link not yet saved.                                                       *)
DownloadDone(d, l) ==
    /\ <<d, l>> \in downloads
    /\ downloads' = downloads \ {<<d, l>>}
    /\ done' = done \cup {<<d, l>>}
    /\ saving' = saving \cup {<<d, l>>}
    /\ files' = files \cup {FileOf[l]}
    /\ fresh' = fresh \cup {FileOf[l]}
    /\ UNCHANGED <<localLink, linkVars, localFiles, syncVars, asks, failures>>

(* GetDownloadingFiles takes complete entries off the list, whether or not   *)
(* their watchers have saved the links.                                      *)
GetDownloadingFiles ==
    /\ done # {} /\ done' = {}
    /\ UNCHANGED <<localLink, linkVars, diskVars, downloads, saving, syncVars, asks,
                   failures>>

SaveLink(d, l) ==
    /\ <<d, l>> \in saving
    /\ saving' = saving \ {<<d, l>>}
    /\ \/ SaveTorrentLocalLink(d, l) /\ UNCHANGED failures
       \/ UNCHANGED <<localLink, downloadLinks>> /\ Fails
    /\ UNCHANGED <<removeLinks, autoVars, unwanted, diskVars, downloads, done,
                   syncVars, asks>>

(* RemoveAutoDownloaderLink follows some errors.                             *)
DownloadFails(d, l) ==
    /\ <<d, l>> \in downloads
    /\ downloads' = downloads \ {<<d, l>>}
    /\ downloadLinks' \in {downloadLinks, [downloadLinks EXCEPT ![d] = @ \ {l}]}
    /\ UNCHANGED <<localLink, removeLinks, autoVars, unwanted, diskVars, done,
                   saving, syncVars, asks, failures>>

-----------------------------------------------------------------------------
(* Files go: an administrator removes one, or cancels its download, which    *)
(* takes its entries off the list too (a watcher that is to save a link goes *)
(* on); or one expires, which clears the local link of a serial only.        *)
RemoveDownload(f) ==
    /\ f \in files \/ ListedFile(f)
    /\ files' = files \ {f}
    /\ downloads' = {x \in downloads : FileOf[x[2]] # f}
    /\ done' = {x \in done : FileOf[x[2]] # f}
    /\ UNCHANGED <<localLink, linkVars, localFiles, fresh, saving, syncVars,
                   asks, failures>>

RemoveExpired(f) ==
    /\ MuxFree
    /\ f \in localFiles \cap files
    /\ files' = files \ {f}
    /\ RemoveTorrentLocalLink("serial", f)
    /\ UNCHANGED <<linkVars, localFiles, fresh, listVars, syncVars, asks>>

(* A name that is not listed as local is not while it is downloaded.         *)
Scanned == {f \in files : f \in localFiles \/ ~ListedFile(f)}

GetLocalFiles ==
    /\ MuxFree
    /\ localFiles # Scanned \/ fresh # files \ Scanned
    /\ localFiles' = Scanned
    /\ fresh' = files \ Scanned
    /\ UNCHANGED <<localLink, linkVars, files, listVars, syncVars, asks, failures>>

-----------------------------------------------------------------------------
(* HandleAutoDownloader.  The documents are read once; what removes a link   *)
(* asks for any document that has it, and pulls it from that document's      *)
(* downloadTorrentLinks: removeTorrentLinks never gets shorter.              *)
RemovalsAsked == {x \in Doc \X Link : x[2] \in removeLinks[x[1]]}

AskDownload(d, l) ==
    /\ asks < MaxAsk
    /\ asks' = asks + 1
    /\ CheckTorrentLinkExist(d, l)
    /\ downloadLinks' = [downloadLinks EXCEPT ![d] = @ \cup {l}]
    /\ UNCHANGED <<localLink, removeLinks, autoVars, unwanted, diskVars,
                   listVars, syncVars, failures>>

AskRemoval(d, l) ==
    /\ CheckTorrentLinkExist(d, l)
    /\ removeLinks' = [removeLinks EXCEPT ![d] = @ \cup {l}]
    /\ unwanted' = unwanted \cup {l}
    /\ Cardinality(RemovalsAsked') <= MaxRemoval
    /\ UNCHANGED <<localLink, downloadLinks, autoVars, diskVars, listVars,
                   syncVars, asks, failures>>

GetTorrentAutoDownloaderLinks ==
    /\ autoTodo = {} /\ ~autoFiles
    /\ autoTodo' = RemovalsAsked
    /\ autoTodo' # {}
    /\ UNCHANGED <<localLink, removeLinks, downloadLinks, autoFiles, unwanted, diskVars,
                   listVars, syncVars, asks, failures>>

PullRemoveLink(d, l) ==
    LET slots == Matching(TypeOf[d], WithLink(l)) IN
    /\ <<d, l>> \in autoTodo
    /\ autoTodo' = autoTodo \ {<<d, l>>}
    /\ autoFiles' = (autoTodo' = {})
    /\ \/ \E s \in slots :
             /\ Set(s.doc, TypeOf[d], slots, NoFile)
             /\ downloadLinks' = [downloadLinks EXCEPT ![s.doc] = @ \ {l}]
             /\ UNCHANGED failures
       \/ slots = {} /\ UNCHANGED <<localLink, downloadLinks, failures>>
       \/ UNCHANGED <<localLink, downloadLinks>> /\ Fails
    /\ UNCHANGED <<removeLinks, unwanted, diskVars, listVars, syncVars, asks>>

-----------------------------------------------------------------------------
(* RemoveInvalidLocalLinkFromDb and RemoveLocalFilesNotFoundInDb, one after  *)
(* the other; each holds localFilesMux, and ends at a query that fails.      *)
AllTorrentLinks(part) == {<<s, localLink[s]>> : s \in Matching(part, Slot)}
GetAllTorrentLocalLinks(part) ==
    {<<s, localLink[s]>> : s \in {t \in Matching(part, Slot) : localLink[t] # NoFile}}

SyncStart ==
    /\ sync = "off"
    /\ \/ sync' = "serial" /\ cursor' = GetAllTorrentLocalLinks("serial") /\ UNCHANGED failures
       \/ sync' = "between" /\ UNCHANGED cursor /\ Fails
    /\ UNCHANGED <<localLink, linkVars, diskVars, listVars, doomed, asks>>

CursorPart == "serial"
SyncPart == sync

HandleTorrentLinksRemoveCursor ==
    \E x \in cursor :
        /\ sync \in {"serial", "movie"}
        /\ cursor' = cursor \ {x}
        /\ IF x[2] \in localFiles THEN UNCHANGED <<localLink, failures>>
           ELSE RemoveTorrentLocalLink(SyncPart, x[2])
        /\ UNCHANGED <<linkVars, diskVars, listVars, sync, doomed, asks>>

SyncMovies ==
    /\ sync = "serial" /\ cursor = {}
    /\ \/ sync' = "movie" /\ cursor' = GetAllTorrentLocalLinks("movie") /\ UNCHANGED failures
       \/ sync' = "between" /\ UNCHANGED cursor /\ Fails
    /\ UNCHANGED <<localLink, linkVars, diskVars, listVars, doomed, asks>>

SyncLinksEnd ==
    /\ sync = "movie" /\ cursor = {}
    /\ sync' = "between"
    /\ UNCHANGED <<localLink, linkVars, diskVars, listVars, cursor, doomed, asks, failures>>

SyncFilesStart ==
    /\ sync = "between"
    /\ sync' = "files" /\ cursor' = localFiles
    /\ UNCHANGED <<localLink, linkVars, diskVars, listVars, doomed, asks, failures>>

(* The same at the end of HandleAutoDownloader, in its own goroutine.  (When *)
(* SyncFilesAndDb is between its two halves it runs after the second one,    *)
(* which is the same function.)                                              *)
AutoFilesStart ==
    /\ sync = "off" /\ autoFiles
    /\ autoFiles' = FALSE
    /\ sync' = "files" /\ cursor' = localFiles
    /\ UNCHANGED <<localLink, removeLinks, downloadLinks, autoTodo, unwanted, diskVars,
                   listVars, doomed, asks, failures>>

(* Batches of Batch files, the last one of what is left.                     *)
FullBatch(b) == b \subseteq cursor /\ Cardinality(b) = Batch
BatchReady(b) ==
    /\ b \subseteq cursor
    /\ \/ Cardinality(b) = Batch
       \/ Cardinality(b) < Batch /\ b = cursor

FindTorrentLinks(b) ==
    /\ sync = "files" /\ doomed = {} /\ b # {}
    /\ BatchReady(b)
    /\ \/ /\ doomed' = {f \in b : ~Recorded(f)}
          /\ cursor' = cursor \ b
          /\ UNCHANGED <<sync, failures>>
       \/ sync' = "off" /\ cursor' = {} /\ UNCHANGED doomed /\ Fails
    /\ UNCHANGED <<localLink, linkVars, diskVars, listVars, asks>>

RemoveNotFound(f) ==
    /\ f \in doomed
    /\ doomed' = doomed \ {f}
    /\ \/ files' = files \ {f} /\ UNCHANGED failures
       \/ f \in files /\ UNCHANGED files /\ Fails
    /\ UNCHANGED <<localLink, linkVars, localFiles, fresh, listVars, sync, cursor, asks>>

SyncEnd ==
    /\ sync = "files" /\ doomed = {}
    /\ \A b \in SUBSET cursor : b # {} => ~BatchReady(b)
    /\ sync' = "off" /\ cursor' = {}
    /\ UNCHANGED <<localLink, linkVars, diskVars, listVars, doomed, asks, failures>>

-----------------------------------------------------------------------------
SyncStep ==
    \/ HandleTorrentLinksRemoveCursor \/ SyncMovies \/ SyncLinksEnd
    \/ \E b \in SUBSET localFiles : FindTorrentLinks(b)
    \/ \E f \in File : RemoveNotFound(f)
    \/ SyncEnd
AutoStep == AutoFilesStart \/ \E d \in Doc, l \in Link : PullRemoveLink(d, l)

Next ==
    \/ \E d \in Doc, l \in Link :
          \/ DownloadFile(d, l) \/ DownloadDone(d, l) \/ DownloadFails(d, l)
          \/ SaveLink(d, l)
          \/ AskDownload(d, l) \/ AskRemoval(d, l)
    \/ \E f \in File : RemoveDownload(f) \/ RemoveExpired(f)
    \/ GetDownloadingFiles \/ GetLocalFiles
    \/ GetTorrentAutoDownloaderLinks \/ AutoStep
    \/ SyncStart \/ SyncFilesStart \/ SyncStep

Spec == Init /\ [][Next]_vars

(* The tickers fire, and sync.Mutex starves nobody: scan, sync and downloader*)
(* get it although the others come back.  A download ends, at the latest by   *)
(* its timeout (Downloads: EntryLeavesList).  A link need not be saved.      *)
Fairness ==
    /\ WF_vars(GetDownloadingFiles) /\ SF_vars(GetLocalFiles)
    /\ WF_vars(\E d \in Doc, l \in Link : DownloadDone(d, l) \/ DownloadFails(d, l))
    /\ SF_vars(SyncStart) /\ WF_vars(SyncFilesStart \/ SyncStep)
    /\ SF_vars(GetTorrentAutoDownloaderLinks \/ AutoStep)

FairSpec == Spec /\ Fairness

-----------------------------------------------------------------------------
(* Types; a cursor is open only while a task has localFilesMux, and files    *)
(* are doomed only while files are looked for.                               *)
TypeOK ==
    /\ localLink \in [Slot -> File \cup {NoFile}]
    /\ removeLinks \in [Doc -> SUBSET Link] /\ downloadLinks \in [Doc -> SUBSET Link]
    /\ files \subseteq File /\ localFiles \subseteq File /\ fresh \subseteq File
    /\ downloads \subseteq Doc \X Link
    /\ done \subseteq Doc \X Link /\ saving \subseteq Doc \X Link
    /\ sync \in {"off", "serial", "movie", "between", "files"}
    /\ IF sync = "files" THEN cursor \subseteq File ELSE cursor \subseteq Slot \X File
    /\ MuxFree => cursor = {}
    /\ doomed \subseteq File /\ (doomed # {} => sync = "files")
    /\ autoTodo \subseteq Doc \X Link /\ autoFiles \in BOOLEAN /\ unwanted \subseteq Link
    /\ asks \in 0 .. MaxAsk /\ failures \in 0 .. MaxFailure

(* The local link of a file that is there is cleared only when somebody      *)
(* asked to remove its link, or when no scan has listed the file yet.        *)
PresentKeepsLink ==
    [][\A s \in Slot :
          /\ localLink[s] \in files'
          /\ localLink'[s] = NoFile
          => s.link \in unwanted \/ localLink[s] \in fresh]_vars

(* When nobody asks any more, every local link is of a file that is there:   *)
(* each occurrence of a dangling link is cleared, in whichever document and  *)
(* season, although an update changes one season of one document.            *)
LinksAgree == <>[](\A s \in Slot : localLink[s] \in files \cup {NoFile})

(* And every file that is there has a link, or is removed in the end: with   *)
(* LinksAgree, documents and directory agree.                                *)
FilesAgree == <>[](\A f \in files : Recorded(f))
=============================================================================
