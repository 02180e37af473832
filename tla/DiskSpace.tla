----------------------------- MODULE DiskSpace ------------------------------
(* The space of the download directory (torrent_service.go): the snapshot of *)
(* it that UpdateStats takes every two seconds, the checks of DownloadFile   *)
(* against the last snapshot, and CleanUpSpace.                              *)
(*                                                                           *)
(* Sizes of files are in bytes, Mega to the megabyte; limits and statistics  *)
(* are in megabytes.  UpdateStats and CleanUpSpace are one goroutine, which  *)
(* reads the directory and the two lists one after the other, without their  *)
(* mutexes, and publishes the figure it makes of them at the end;            *)
(* DownloadFile runs in the queue's workers, the scan and the requests for   *)
(* files in goroutines of their own.                                         *)
EXTENDS Integers, FiniteSets, Sequences, SequencesExt

CONSTANTS
    File,
    Size,            \* [File -> Nat \ {0}], in bytes
    SpaceLimit,      \* TorrentDownloadMaxSpaceSize
    SpaceThreshold,  \* TorrentDownloadSpaceThresholdSize, 0 for none
    SizeLimit,       \* TorrentDownloadMaxFileSize, 0 for none
    Reserve,         \* the 200 MB CheckFileExistAndSize keeps back
    LruCap,          \* the 10 GB CleanUpSpace never asks more than
    Mega,            \* bytes in a megabyte
    Piece,           \* bytes of a file that the client writes at a time
    InitialSpace,    \* RemainingSpaceMb before the first snapshot
    MaxStart,        \* bound: downloads
    MaxFailure       \* bound: file system calls that fail

ASSUME SizeAssumption ==
    /\ IsFiniteSet(File)
    /\ Size \in [File -> Nat \ {0}]
    /\ {SpaceLimit, SpaceThreshold, SizeLimit, Reserve, LruCap, InitialSpace} \subseteq Nat
    /\ {Mega, Piece} \subseteq Nat \ {0}
    /\ MaxStart \in Nat /\ MaxFailure \in Nat

VARIABLES
    disk,        \* what of each file is on disk
    stage,       \* of the download of each file, "none" when not in the list
    listed,      \* localFiles
    usage,       \* downloaded files, the longest ago first; LastDownloadTime
    busy,        \* files whose ActiveDownloads is not 0
    remaining,   \* stats.RemainingSpaceMb
    cleaner,     \* CleanUpSpace: "off", "unused", "idle"
    toVisit,     \* the entries its loop has yet to look at
    doomed,      \* the entry removeTorrentFile is called for next
    freedSpace,
    phase,       \* what UpdateStats does next: "directory", "local",
                 \* "downloads", "publish"
    total, lists, \* what it has counted: in the directory, in the lists
    starts, failures,
    known,       \* history: entries that had a download at the second sort
    missed,      \* history: files that the lists it has read do not hold
    since,       \* history: files let in since it read the downloads
    unseen,      \* history: missed, of the snapshot that was published
    late,        \* history: since, at that publication
    admitted     \* history: files DownloadFile let in after it

fileVars == <<disk, stage, listed>>
useVars == <<usage, busy>>
cleanVars == <<cleaner, toVisit, doomed, freedSpace, known>>
passVars == <<phase, total, lists, missed>>
admitVars == <<since, admitted>>
statVars == <<remaining, unseen, late, passVars, admitVars>>
boundVars == <<starts, failures>>
vars == <<fileVars, useVars, cleanVars, statVars, boundVars>>

Stages == {"none", "asked", "named", "going", "failed"}

(* What g gives the files of S, counted unit by unit.                        *)
Units(g, S) == UNION {{f} \X (1 .. g[f]) : f \in S}
Sum(g, S) == Cardinality(Units(g, S))

(* A sequence without repetition, in its order, without what is not in S.    *)
Kept(s, S) ==
    {p \in SetToSeqs(ToSet(s) \cap S) :
        \A i, j \in DOMAIN p :
            i < j => \E k, l \in DOMAIN s : k < l /\ s[k] = p[i] /\ s[l] = p[j]}

OnDisk == {f \in File : disk[f] > 0}
Downloading == {f \in File : stage[f] \in {"named", "going", "failed"}}
minInt64(a, b) == IF a < b THEN a ELSE b
lruActivationThreshold == minInt64(LruCap, 4 * SpaceThreshold)

Init ==
    /\ disk = [f \in File |-> 0]
    /\ stage = [f \in File |-> "none"]
    /\ listed = {} /\ usage = <<>> /\ busy = {}
    /\ remaining = InitialSpace
    /\ cleaner = "off" /\ toVisit = <<>> /\ doomed = {} /\ freedSpace = 0 /\ known = {}
    /\ starts = 0 /\ failures = 0
    /\ phase = "directory" /\ total = 0 /\ lists = 0 /\ missed = {} /\ since = {}
    /\ unseen = File /\ late = {} /\ admitted = {}

-----------------------------------------------------------------------------
(* DownloadFile                                                              *)
SetStage(f, s) == stage' = [stage EXCEPT ![f] = s]

(* The first check, before the torrent's size is known.                      *)
Ask(f) ==
    /\ stage[f] = "none" /\ starts < MaxStart
    /\ starts' = starts + 1
    /\ ~(remaining < SpaceThreshold /\ SpaceThreshold > 0)
    /\ SetStage(f, "asked")
    /\ UNCHANGED <<disk, listed, useVars, cleanVars, statVars, failures>>

NameAndSize(f) ==
    /\ stage[f] = "asked"
    /\ SetStage(f, "named")
    /\ UNCHANGED <<disk, listed, useVars, cleanVars, statVars, boundVars>>

TooBig(f) == Size[f] > SizeLimit * Mega /\ SizeLimit > 0
NoRoom(f) == Size[f] > (remaining - Reserve) * Mega /\ remaining > 0

(* Between its reading of the downloads and the publication, UpdateStats     *)
(* does not see who is let in, against the figure it is about to replace.    *)
LetIn(f) ==
    /\ SetStage(f, "going")
    /\ admitted' = admitted \cup {f}
    /\ since' = IF phase = "publish" THEN since \cup {f} ELSE since

CheckFileExistAndSize(f) ==
    /\ stage[f] = "named"
    /\ \/ /\ f \in listed
          /\ SetStage(f, "failed")
          /\ UNCHANGED <<disk, admitVars>>
       \/ /\ f \notin listed
          /\ TooBig(f) \/ NoRoom(f)
          /\ SetStage(f, "failed")
          /\ disk' = [disk EXCEPT ![f] = 0]
          /\ UNCHANGED admitVars
       \/ /\ f \notin listed
          /\ ~TooBig(f) /\ ~NoRoom(f)
          /\ LetIn(f)
          /\ UNCHANGED disk
    /\ UNCHANGED <<listed, useVars, cleanVars, remaining, unseen, late, passVars, boundVars>>

(* The torrent client writes; GetDownloadingFiles takes what is done off the *)
(* list.                                                                     *)
Receive(f) ==
    /\ stage[f] = "going" /\ disk[f] < Size[f]
    /\ disk' = [disk EXCEPT ![f] = minInt64(Size[f], @ + Piece)]
    /\ UNCHANGED <<stage, listed, useVars, cleanVars, statVars, boundVars>>

Over(f) == stage[f] = "failed" \/ (stage[f] = "going" /\ disk[f] = Size[f])

Reap(f) ==
    /\ Over(f)
    /\ SetStage(f, "none")
    /\ UNCHANGED <<disk, listed, useVars, cleanVars, statVars, boundVars>>

-----------------------------------------------------------------------------
(* GetLocalFiles; an entry that goes takes its counters with it.             *)
Found == {f \in OnDisk : stage[f] = "none"}
FoundToo == listed \cup Found
LocalFilesNow == (listed \cap OnDisk) \cup Found

ScanFiles ==
    /\ cleaner = "off"
    /\ listed' = LocalFilesNow
    /\ listed' # listed
    /\ usage' \in Kept(usage, listed')
    /\ busy' = busy \cap listed'
    /\ UNCHANGED <<disk, stage, cleanVars, statVars, boundVars>>

(* IncrementFileDownloadCount and DecrementFileDownloadCount, without        *)
(* localFilesMux; RemoveDownload.                                            *)
IncrementDownloads(f) ==
    /\ f \in listed
    /\ f \notin busy
    /\ busy' = busy \cup {f}
    /\ usage' \in {Append(p, f) : p \in Kept(usage, File \ {f})}
    /\ UNCHANGED <<fileVars, cleanVars, statVars, boundVars>>

DecrementDownloads(f) ==
    /\ f \in busy
    /\ busy' = busy \ {f}
    /\ UNCHANGED <<fileVars, usage, cleanVars, statVars, boundVars>>

RemoveDownload(f) ==
    /\ disk[f] > 0 /\ stage[f] = "none"
    /\ disk' = [disk EXCEPT ![f] = 0]
    /\ UNCHANGED <<stage, listed, useVars, cleanVars, statVars, boundVars>>

-----------------------------------------------------------------------------
(* UpdateStats.  Each file counts in whole megabytes.                        *)
Whole == [f \in File |-> Size[f] \div Mega]

(* What is pledged of a file is what it will hold when its download is done. *)
Pledged == [f \in File |-> IF stage[f] = "going" THEN Size[f] ELSE disk[f]]

(* GetDiskSpaceUsage counts what is on disk, or answers 0 with an error that *)
(* is dropped, when a file vanishes under it.                                *)
GetDiskSpaceUsage ==
    /\ phase = "directory" /\ cleaner = "off"
    /\ phase' = "local"
    /\ \/ total' = Sum(disk, File) \div Mega /\ UNCHANGED failures
       \/ failures < MaxFailure /\ failures' = failures + 1 /\ total' = 0
    /\ UNCHANGED <<fileVars, useVars, cleanVars, lists, missed, remaining, unseen, late,
                   admitVars, starts>>

(* The loops over the lists hold no mutex: an entry that is deleted under    *)
(* one moves those after it, and the loop may pass over some.                *)
Looped(list, leaving) == IF leaving = {} THEN {list} ELSE SUBSET list

SumLocalFiles ==
    /\ phase = "local"
    /\ phase' = "downloads"
    /\ \E read \in Looped(listed, listed \ OnDisk) :
          lists' = Sum(Whole, read) /\ missed' = File \ read
    /\ UNCHANGED <<fileVars, useVars, cleanVars, total, remaining, unseen, late,
                   admitVars, boundVars>>

SumDownloads ==
    /\ phase = "downloads"
    /\ phase' = "publish"
    /\ \E read \in Looped(Downloading, {f \in File : Over(f)}) :
          /\ lists' = lists + Sum(Whole, read)
          /\ missed' = {f \in missed \ read : Pledged[f] > 0}
    /\ since' = {}
    /\ UNCHANGED <<fileVars, useVars, cleanVars, total, remaining, unseen, late, admitted,
                   boundVars>>

DirectoryOnly == total
maxUsedSpace == IF total > lists THEN total ELSE lists

Publish ==
    /\ phase = "publish"
    /\ phase' = "directory" /\ total' = 0 /\ lists' = 0 /\ missed' = {} /\ since' = {}
    /\ remaining' = SpaceLimit - maxUsedSpace
    /\ unseen' = missed /\ late' = since /\ admitted' = {}
    /\ IF remaining' < lruActivationThreshold
       THEN /\ cleaner' = "unused"
            /\ toVisit' \in SetToSeqs(listed)
       ELSE UNCHANGED <<cleaner, toVisit>>
    /\ UNCHANGED <<fileVars, useVars, doomed, freedSpace, known, boundVars>>

UpdateStats == GetDiskSpaceUsage \/ SumLocalFiles \/ SumDownloads \/ Publish

(* CleanUpSpace                                                              *)
Enough == remaining + freedSpace >= lruActivationThreshold
Unused(f) == f \notin ToSet(usage)

(* The first loop goes by the expiration times, which may be in any order,   *)
(* and counts a file as freed before it is removed.                          *)
CleanUnused ==
    LET f == Head(toVisit) IN
    /\ cleaner = "unused" /\ doomed = {}
    /\ toVisit # <<>> /\ ~Enough
    /\ toVisit' = Tail(toVisit)
    /\ IF Unused(f)
       THEN doomed' = {f} /\ freedSpace' = freedSpace + Whole[f]
       ELSE UNCHANGED <<doomed, freedSpace>>
    /\ UNCHANGED <<fileVars, useVars, cleaner, known, statVars, boundVars>>

(* The second sort: entries without a download first, in any order, then by  *)
(* the last one.                                                             *)
ByExpiration == SetToSeqs(listed)
ByLastDownload == {p \o usage : p \in SetToSeqs(listed \ ToSet(usage))}

SortByLastDownload ==
    /\ cleaner = "unused" /\ doomed = {}
    /\ toVisit = <<>> \/ Enough
    /\ cleaner' = "idle"
    /\ toVisit' \in ByLastDownload
    /\ known' = ToSet(usage)
    /\ UNCHANGED <<fileVars, useVars, doomed, freedSpace, statVars, boundVars>>

ActiveDownloads(f) == f \in busy

CleanIdle ==
    LET f == Head(toVisit) IN
    /\ cleaner = "idle" /\ doomed = {}
    /\ toVisit # <<>> /\ ~Enough
    /\ toVisit' = Tail(toVisit)
    /\ doomed' = IF ActiveDownloads(f) THEN {} ELSE {f}
    /\ UNCHANGED <<fileVars, useVars, cleaner, freedSpace, known, statVars, boundVars>>

(* os.Remove fails for an entry whose file is gone, or by itself.            *)
RemoveSucceeds(f) ==
    /\ disk[f] > 0
    /\ disk' = [disk EXCEPT ![f] = 0]
    /\ UNCHANGED failures

RemoveFails(f) ==
    /\ UNCHANGED disk
    /\ \/ disk[f] = 0 /\ UNCHANGED failures
       \/ disk[f] > 0 /\ failures < MaxFailure /\ failures' = failures + 1

(* The second loop does not count what a removal frees, and counts the bytes *)
(* of a file that could not be removed as megabytes.                         *)
removeTorrentFile ==
    \E f \in doomed :
        /\ \/ RemoveSucceeds(f) /\ UNCHANGED freedSpace
           \/ /\ RemoveFails(f)
              /\ freedSpace' = freedSpace + (IF cleaner = "idle" THEN Size[f] ELSE 0)
        /\ doomed' = {}
        /\ UNCHANGED <<stage, listed, useVars, cleaner, toVisit, known, statVars, starts>>

CleanStops ==
    /\ cleaner = "idle" /\ doomed = {}
    /\ toVisit = <<>> \/ Enough
    /\ cleaner' = "off"
    /\ UNCHANGED <<fileVars, useVars, toVisit, doomed, freedSpace, known, statVars, boundVars>>

CleanEnd ==
    /\ cleaner = "idle" /\ doomed = {}
    /\ toVisit = <<>> \/ Enough
    /\ cleaner' = "off" /\ toVisit' = <<>> /\ freedSpace' = 0 /\ known' = {}
    /\ UNCHANGED <<fileVars, useVars, doomed, statVars, boundVars>>

-----------------------------------------------------------------------------
CleanUpSpace ==
    CleanUnused \/ SortByLastDownload \/ CleanIdle \/ removeTorrentFile \/ CleanEnd

Next ==
    \/ \E f \in File :
          \/ Ask(f) \/ NameAndSize(f) \/ CheckFileExistAndSize(f)
          \/ Receive(f) \/ Reap(f)
          \/ IncrementDownloads(f) \/ DecrementDownloads(f) \/ RemoveDownload(f)
    \/ ScanFiles
    \/ UpdateStats
    \/ CleanUpSpace

Spec == Init /\ [][Next]_vars

(* The ticker keeps firing, its goroutine goes on, and the scan gets the     *)
(* mutex in the end.                                                         *)
Fairness ==
    /\ SF_vars(ScanFiles)
    /\ WF_vars(UpdateStats \/ CleanUpSpace)

FairSpec == Spec /\ Fairness

-----------------------------------------------------------------------------
(* Types; CleanUpSpace only keeps entries to visit while it runs.            *)
FileTypeOK ==
    /\ disk \in [File -> Nat] /\ \A f \in File : disk[f] <= Size[f]
    /\ stage \in [File -> Stages]
    /\ listed \subseteq File

UseTypeOK ==
    /\ usage \in Seq(File) /\ IsInjective(usage)
    /\ ToSet(usage) \subseteq listed /\ busy \subseteq ToSet(usage)

CleanTypeOK ==
    /\ cleaner \in {"off", "unused", "idle"}
    /\ toVisit \in Seq(File) /\ ToSet(toVisit) \subseteq listed
    /\ doomed \subseteq listed /\ known \subseteq File
    /\ freedSpace \in Nat
    /\ cleaner = "off" => toVisit = <<>> /\ doomed = {} /\ freedSpace = 0
    /\ cleaner # "off" => phase = "directory"

StatTypeOK ==
    /\ phase \in {"directory", "local", "downloads", "publish"}
    /\ total \in Nat /\ lists \in Nat
    /\ remaining \in Int
    /\ {missed, since, unseen, late, admitted} \subseteq SUBSET File

BoundTypeOK == starts \in 0 .. MaxStart /\ failures \in 0 .. MaxFailure

TypeOK == FileTypeOK /\ UseTypeOK /\ CleanTypeOK /\ StatTypeOK /\ BoundTypeOK

(* What the directory will hold, in bytes, when the downloads that go on are *)
(* done; and what counting the files in whole megabytes may leave out of it. *)
Promised == Sum(Pledged, File)
Rounding == Cardinality({f \in File \ admitted : Pledged[f] > 0}) * (Mega - 1)

(* The first download that is let in after a snapshot was published, which   *)
(* missed no file, keeps the directory below the limit, less Reserve, but    *)
(* for the part of a megabyte that each other file may have and for the      *)
(* downloads that were let in while UpdateStats, holding no mutex, had read  *)
(* the list of the downloads and not yet published.                          *)
FirstAdmissionFits ==
    [][admitted = {} /\ admitted' # {} /\ unseen = {} /\ remaining > 0
        => Promised' <= (SpaceLimit - Reserve) * Mega + Sum(Size, late) + Rounding']_vars

(* The bytes of one file, which a failed removal of the second loop adds to  *)
(* what was freed in megabytes, end the loop: they are more than it can be   *)
(* short of.  With 10 GB at most to free, this is so for files of a megabyte *)
(* and more, when they are less than half a terabyte.                        *)
MostUsed == 2 * Sum(Whole, File) + Cardinality(File)
BytesEndTheLoop == \A f \in File : Size[f] >= LruCap + MostUsed

(* CleanUpSpace chooses no file that somebody is downloading, though its     *)
(* first loop does not look at ActiveDownloads; and a file that was          *)
(* downloaded, and not only since the entries were sorted, goes when those   *)
(* that never were are gone, although the first loop counts as freed what it *)
(* fails to remove.                                                          *)
UnusedGoFirst ==
    [][\A f \in doomed' \ doomed :
          /\ f \notin busy
          /\ f \in known => \A g \in listed : Unused(g) => disk[g] = 0]_vars

(* A shortage that lasts, when no more downloads start, leaves no idle file  *)
(* behind, in spite of entries whose file is gone.                           *)
ShortageClearsIdle ==
    \A f \in File :
        ~<>[](/\ remaining < lruActivationThreshold
              /\ disk[f] > 0 /\ f \in listed \ busy)
=============================================================================
