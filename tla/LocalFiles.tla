----------------------------- MODULE LocalFiles -----------------------------
(* The list of local files and what is done with a file in it                *)
(* (torrent_service.go, torrent_handler.go, api.go): the scan of the         *)
(* download directory, the two routes that serve a file and their download   *)
(* counters, the expiration of files and its extension.                      *)
(*                                                                           *)
(* localFilesMux covers the scan, the expiration and the extension.  The     *)
(* counters have a mutex of their own, under which they walk localFiles      *)
(* without localFilesMux: while slices.DeleteFunc moves the entries the walk *)
(* may miss an entry or read one that is already cleared, and panic.         *)
EXTENDS Integers, FiniteSets

CONSTANTS
    File,            \* the files that are watched; the list may hold others
    Request,         \* concurrent requests for them
    Limit,           \* TorrentFilesServingConcurrencyLimit, 0 for none
    ExpireHours,     \* TorrentFilesExpireHour
    ExtendHours,     \* TorrentFileExpireExtendHour
    ExpireDelay,     \* GetTorrentFileExpireDelay of a file
    ReportsBirth,    \* the file system tells when a file was created
    MaxNow,          \* bound: the clock
    MaxTouch,        \* bound: the latest access time
    MaxLeak,         \* bound: counts that are never given back
    MaxRace          \* bound: walks that meet a moving entry

NoFile == "no file"

ASSUME NumberAssumption ==
    /\ Limit \in Nat /\ ExpireHours \in Nat \ {0} /\ ExtendHours \in Nat
    /\ ExpireDelay \in Nat
    /\ MaxNow \in Nat \ {0} /\ MaxTouch \in Nat /\ MaxLeak \in Nat /\ MaxRace \in Nat
ASSUME SetAssumption ==
    /\ IsFiniteSet(Request)
    /\ NoFile \notin File
    /\ ReportsBirth \in BOOLEAN

VARIABLES
    disk,        \* of each file: "none", "partial" (downloading), "whole"
    touched,     \* its access time, or its birth if that is later
    entry,       \* its *LocalFile in localFiles
    requests,    \* the requests being answered
    activeDownloadsCounts,
    mux,         \* localFilesMux: "free", or who has it
    work,        \* the scan's os.ReadDir, or the entries still to be expired
    doomed,      \* the expired file os.Remove is called on next
    now,
    races,       \* walks that missed a moving entry so far
    leaked,      \* history: counts nobody will give back
    counted,     \* history: requests that are counted in the file's entry
    raced,       \* history: requests that saw another one counted since Check
    drifted,     \* history: files whose entry missed an update
    stale        \* history: files touched since the scan looked at them

fileVars == <<disk, touched, stale>>
serveVars == <<requests, activeDownloadsCounts, leaked, counted, races, raced>>
taskVars == <<mux, work, doomed>>
vars == <<fileVars, entry, serveVars, taskVars, now, drifted>>

NoEntry == [listed |-> FALSE, active |-> 0, last |-> 0, expire |-> 0]
Idle == [at |-> "idle", file |-> NoFile]
Listed(f) == entry[f].listed
Waiting == {r \in Request : requests[r].at \in {"checked", "opened"}}
Inside == {r \in Request : requests[r].at \in {"serving", "static"}}

Init ==
    /\ disk = [f \in File |-> "none"]
    /\ touched = [f \in File |-> 0]
    /\ entry = [f \in File |-> NoEntry]
    /\ requests = [r \in Request |-> Idle]
    /\ activeDownloadsCounts = 0
    /\ mux = "free" /\ work = {} /\ doomed = {}
    /\ now = 1
    /\ races = 0 /\ leaked = 0 /\ counted = {} /\ raced = {} /\ drifted = {} /\ stale = {}

-----------------------------------------------------------------------------
(* The world around: a download writes a file, the clock advances, reading a *)
(* file may set its access time, RemoveDownload takes a file away.           *)
Begin(f) ==
    /\ disk[f] = "none" /\ ~Listed(f)
    /\ disk' = [disk EXCEPT ![f] = "partial"]
    /\ UNCHANGED <<touched, stale, entry, serveVars, taskVars, now, drifted>>

Complete(f) ==
    /\ disk[f] = "partial"
    /\ disk' = [disk EXCEPT ![f] = "whole"]
    /\ touched' = [touched EXCEPT ![f] = now]
    /\ UNCHANGED <<stale, entry, serveVars, taskVars, now, drifted>>

Hour ==
    /\ now < MaxNow
    /\ now' = now + 1
    /\ UNCHANGED <<fileVars, entry, serveVars, taskVars, drifted>>

RemoveDownload(f) ==
    /\ disk[f] # "none"
    /\ disk' = [disk EXCEPT ![f] = "none"]
    /\ UNCHANGED <<touched, stale, entry, serveVars, taskVars, now, drifted>>

Access(f) ==
    /\ disk[f] = "whole" /\ touched[f] # now
    /\ touched' = [touched EXCEPT ![f] = now]
    /\ stale' = stale \cup {f}
    /\ UNCHANGED <<disk, entry, serveVars, taskVars, now, drifted>>

-----------------------------------------------------------------------------
(* Serving                                                                   *)

Answer(r, at, f) == requests' = [requests EXCEPT ![r] = [at |-> at, file |-> f]]
Dropping == {f \in File : Listed(f) /\ f \notin work}
Moving == mux = "drop"
Miss(f) ==
    \/ ~Listed(f) /\ UNCHANGED races
    \/ Moving /\ races < MaxRace /\ races' = races + 1

BelowOrAtLimit == activeDownloadsCounts <= Limit \/ Limit = 0
CheckConcurrentServingLimit == activeDownloadsCounts < Limit \/ Limit = 0

(* ServeLocalFile.  A refused request changes nothing.                       *)
Check(r, f) ==
    /\ requests[r] = Idle
    /\ CheckConcurrentServingLimit
    /\ Answer(r, "checked", f)
    /\ UNCHANGED <<fileVars, entry, activeDownloadsCounts, leaked, counted, races,
                   raced, taskVars, now, drifted>>

OpenDeferredFirst(r) ==
    /\ requests[r].at = "checked"
    /\ IF disk[requests[r].file] # "none"
       THEN Answer(r, "opened", requests[r].file) /\ UNCHANGED <<raced, activeDownloadsCounts>>
       ELSE /\ requests' = [requests EXCEPT ![r] = Idle] /\ raced' = raced \ {r}
            /\ activeDownloadsCounts' = activeDownloadsCounts - 1
    /\ UNCHANGED <<fileVars, entry, leaked, counted, races, taskVars, now, drifted>>

Open(r) ==
    /\ requests[r].at = "checked"
    /\ IF disk[requests[r].file] # "none"
       THEN Answer(r, "opened", requests[r].file) /\ UNCHANGED raced
       ELSE requests' = [requests EXCEPT ![r] = Idle] /\ raced' = raced \ {r}
    /\ UNCHANGED <<fileVars, entry, activeDownloadsCounts, leaked, counted, races,
                   taskVars, now, drifted>>

(* IncrementFileDownloadCount: the entry is found, or there is none or it is *)
(* missed, or a cleared entry panics before the deferred decrement is set.   *)
CountFile(f) ==
    entry' = [entry EXCEPT ![f].active = @ + 1, ![f].last = now]

CountAll(f) == activeDownloadsCounts' = activeDownloadsCounts + 1

IncrementFileDownloadCount(r, f, at) ==
    /\ CountAll(f)
    /\ raced' = (raced \cup Waiting) \ {r}
    /\ \/ /\ Listed(f)
          /\ CountFile(f)
          /\ counted' = counted \cup {r}
          /\ Answer(r, at, f)
          /\ UNCHANGED <<leaked, races>>
       \/ /\ Miss(f)
          /\ Answer(r, at, f)
          /\ UNCHANGED <<entry, counted, leaked>>
       \/ /\ Moving /\ races < MaxRace
          /\ races' = races + 1 /\ leaked' = leaked + 1
          /\ requests' = [requests EXCEPT ![r] = Idle]
          /\ UNCHANGED <<entry, counted>>
    /\ UNCHANGED <<fileVars, taskVars, now, drifted>>

Serve(r) ==
    /\ requests[r].at = "opened"
    /\ IncrementFileDownloadCount(r, requests[r].file, "serving")

(* The static route /direct_download: Next counts without a check, whether   *)
(* or not the file exists; ModifyResponse gives the count back, but the web  *)
(* framework does not call it after a 404.                                   *)
StaticNext(r, f) ==
    /\ requests[r] = Idle
    /\ disk[f] # "none" \/ leaked < MaxLeak
    /\ IncrementFileDownloadCount(r, f, "static")

StaticNotFound(r) ==
    /\ requests[r].at = "static"
    /\ disk[requests[r].file] = "none"
    /\ leaked < MaxLeak
    /\ leaked' = leaked + 1
    /\ requests' = [requests EXCEPT ![r] = Idle]
    /\ counted' = counted \ {r}
    /\ drifted' = IF r \in counted THEN drifted \cup {requests[r].file} ELSE drifted
    /\ UNCHANGED <<fileVars, entry, activeDownloadsCounts, races, raced, taskVars, now>>

GlobalCountOnly(f) == entry' = entry
UncountFile(f) == entry' = [entry EXCEPT ![f].active = @ - 1]

(* DecrementFileDownloadCount, deferred by ServeLocalFile, or called by      *)
(* ModifyResponse.  An entry that is decremented for a request it does not   *)
(* count, or not decremented for one it does, has drifted.                   *)
Finish(r) ==
    LET f == requests[r].file IN
    /\ r \in Inside
    /\ activeDownloadsCounts' = activeDownloadsCounts - 1
    /\ requests' = [requests EXCEPT ![r] = Idle]
    /\ counted' = counted \ {r}
    /\ \/ /\ Listed(f)
          /\ UncountFile(f)
          /\ UNCHANGED races
          /\ drifted' = IF r \in counted THEN drifted ELSE drifted \cup {f}
       \/ /\ Miss(f)
          /\ UNCHANGED entry
          /\ drifted' = IF r \in counted THEN drifted \cup {f} ELSE drifted
    /\ UNCHANGED <<fileVars, leaked, raced, taskVars, now>>

-----------------------------------------------------------------------------
(* GetLocalFiles                                                             *)

(* GetFileExpireTime: without birth times its panic is recovered, and the    *)
(* zero time returned.                                                       *)
GetFileExpireTime(f) == IF ReportsBirth THEN touched[f] + ExpireHours ELSE 0

ScanRead ==
    /\ mux = "free"
    /\ mux' = "add"
    /\ work' = {f \in File : disk[f] # "none"}
    /\ UNCHANGED <<fileVars, entry, serveVars, doomed, now, drifted>>

OnlyNew(f) ==
    IF Listed(f) THEN entry[f]
    ELSE [listed |-> TRUE, active |-> 0, last |-> 0, expire |-> GetFileExpireTime(f)]

Scanned(f) ==
    IF Listed(f) THEN [entry[f] EXCEPT !.expire = GetFileExpireTime(f)]
    ELSE [listed |-> TRUE, active |-> 0, last |-> 0, expire |-> GetFileExpireTime(f)]

(* Files that are still downloading are passed over, and files that are gone *)
(* since (dir.Info fails).                                                   *)
ScanAdd ==
    /\ mux = "add"
    /\ mux' = "drop"
    /\ entry' = [f \in File |->
                    IF f \in work /\ disk[f] = "whole" THEN Scanned(f) ELSE entry[f]]
    /\ stale' = stale \ {f \in work : disk[f] = "whole"}
    /\ UNCHANGED <<disk, touched, serveVars, work, doomed, now, drifted>>

ScanDrop ==
    /\ mux = "drop"
    /\ mux' = "free"
    /\ work' = {}
    /\ entry' = [f \in File |-> IF f \in Dropping THEN NoEntry ELSE entry[f]]
    /\ counted' = {r \in counted : requests[r].file \notin Dropping}
    /\ drifted' = drifted \ Dropping
    /\ UNCHANGED <<fileVars, requests, activeDownloadsCounts, leaked, races, raced,
                   doomed, now>>

-----------------------------------------------------------------------------
(* RemoveExpiredLocalFiles looks at the entries one after the other; the     *)
(* look and os.Remove are two steps for the requests.                        *)

ExpiredAnyway(f) == Listed(f) /\ now > entry[f].expire
ExpiredIfRead(f) ==
    /\ Listed(f) /\ now > entry[f].expire /\ entry[f].active = 0
    /\ now > entry[f].last + ExpireDelay /\ entry[f].last > 0
Expired(f) ==
    /\ Listed(f)
    /\ now > entry[f].expire
    /\ entry[f].active = 0
    /\ now > entry[f].last + ExpireDelay \/ entry[f].last = 0

ExpireStart ==
    /\ mux = "free"
    /\ mux' = "expire"
    /\ work' = {f \in File : Listed(f)}
    /\ UNCHANGED <<fileVars, entry, serveVars, doomed, now, drifted>>

ExpireLook(f) ==
    /\ mux = "expire" /\ f \in work /\ doomed = {}
    /\ work' = work \ {f}
    /\ doomed' = IF Expired(f) THEN {f} ELSE {}
    /\ UNCHANGED <<fileVars, entry, serveVars, mux, now, drifted>>

ExpireRemove ==
    /\ mux = "expire" /\ doomed # {}
    /\ doomed' = {}
    /\ disk' = [f \in File |-> IF f \in doomed THEN "none" ELSE disk[f]]
    /\ UNCHANGED <<touched, stale, entry, serveVars, mux, work, now, drifted>>

ExpireEnd ==
    /\ mux = "expire" /\ work = {} /\ doomed = {}
    /\ mux' = "free"
    /\ UNCHANGED <<fileVars, entry, serveVars, work, doomed, now, drifted>>

(* ExtendLocalFileExpireTime moves the times of the file, not its entry; it  *)
(* answers with the expiration of the entry plus the extension.              *)
ExtendLocalFileExpireTime(f) ==
    /\ mux = "free"
    /\ ExtendHours > 0 /\ ReportsBirth
    /\ Listed(f) /\ disk[f] # "none"
    /\ touched[f] + ExtendHours <= MaxTouch
    /\ touched' = [touched EXCEPT ![f] = @ + ExtendHours]
    /\ stale' = stale \cup {f}
    /\ UNCHANGED <<disk, entry, serveVars, taskVars, now, drifted>>

-----------------------------------------------------------------------------
RequestStep(r) ==
    \/ \E f \in File : Check(r, f) \/ StaticNext(r, f)
    \/ Open(r) \/ Serve(r) \/ StaticNotFound(r) \/ Finish(r)

FileStep(f) ==
    \/ Begin(f) \/ Complete(f) \/ RemoveDownload(f) \/ Access(f)
    \/ ExpireLook(f) \/ ExtendLocalFileExpireTime(f)

Next ==
    \/ \E r \in Request : RequestStep(r)
    \/ \E f \in File : FileStep(f)
    \/ ScanRead \/ ScanAdd \/ ScanDrop
    \/ ExpireStart \/ ExpireRemove \/ ExpireEnd
    \/ Hour

Spec == Init /\ [][Next]_vars

(* The tickers keep firing, a task that has the mutex goes on, and           *)
(* sync.Mutex starves nobody.  No request, download, hour or administrator   *)
(* has to come, and no request has to end.                                   *)
Fairness ==
    /\ SF_vars(ScanRead)
    /\ WF_vars(ScanAdd \/ ScanDrop)
    /\ SF_vars(ExpireStart)
    /\ WF_vars(ExpireRemove \/ ExpireEnd \/ \E f \in File : ExpireLook(f))

FairSpec == Spec /\ Fairness

-----------------------------------------------------------------------------
EntryType == [listed : BOOLEAN, active : Int, last : Nat, expire : Nat]
RequestType == [at : {"idle", "checked", "opened", "serving", "static"},
                file : File \cup {NoFile}]

(* Types; the holder of localFilesMux has something to work on only while it *)
(* holds the mutex.                                                          *)
TypeOK ==
    /\ disk \in [File -> {"none", "partial", "whole"}]
    /\ touched \in [File -> Nat]
    /\ entry \in [File -> EntryType]
    /\ requests \in [Request -> RequestType]
    /\ \A r \in Request : requests[r].at = "idle" <=> requests[r].file = NoFile
    /\ activeDownloadsCounts \in Nat
    /\ mux \in {"free", "add", "drop", "expire"}
    /\ work \subseteq File /\ doomed \subseteq File
    /\ mux = "free" => work = {}
    /\ mux # "expire" => doomed = {}
    /\ now \in 1 .. MaxNow
    /\ leaked \in Nat /\ races \in 0 .. MaxRace
    /\ counted \subseteq Inside /\ raced \subseteq Waiting
    /\ drifted \subseteq File /\ stale \subseteq File

CountedOf(f) == {r \in counted : requests[r].file = f}
CountIsExact == activeDownloadsCounts = Cardinality(Inside) + leaked
ActiveIsExact ==
    \A f \in File : Listed(f) /\ f \notin drifted
        => entry[f].active = Cardinality(CountedOf(f))

(* activeDownloadsCounts is the requests being served and those that ended   *)
(* without giving their count back: never too small, and too large by        *)
(* exactly the leak.  ActiveDownloads of an entry that has not drifted are   *)
(* the requests counted in it, although the scan replaces entries under      *)
(* another mutex.                                                            *)
CountersExact == CountIsExact /\ ActiveIsExact

(* CheckConcurrentServingLimit and the increment are two steps: the limit is *)
(* exceeded by a request that ServeLocalFile let in only if another one was  *)
(* counted between the two.                                                  *)
OvershootNeedsRace ==
    [][\A r \in Waiting :
          /\ requests'[r].at = "serving"
          /\ Limit > 0 /\ activeDownloadsCounts' > Limit
          => r \in raced]_vars

(* An expired file is given up only when nobody is counted on it, unless its *)
(* entry has drifted.                                                        *)
ExpireSparesReaders ==
    [][\A f \in doomed' \ doomed : f \in drifted \/ CountedOf(f) = {}]_vars

(* A file is given up only when its time is over, on disk and not only in    *)
(* the list, unless it was touched after the last scan.                      *)
ExpireInTime ==
    [][\A f \in doomed' \ doomed :
          ReportsBirth /\ disk[f] = "whole" /\ f \notin stale
            => now > touched[f] + ExpireHours]_vars

(* A file whose time is over and that nobody reads any more is not kept for  *)
(* ever, unless its entry has drifted.                                       *)
ExpiredGoes ==
    \A f \in File :
        ~<>[](/\ disk[f] = "whole" /\ f \notin drifted /\ CountedOf(f) = {}
              /\ ReportsBirth => now > touched[f] + ExpireHours
              /\ now > entry[f].last + ExpireDelay)
=============================================================================
