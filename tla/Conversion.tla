----------------------------- MODULE Conversion -----------------------------
(* Streaming (stream_service.go, stream_handler.go): HandleFileConversion    *)
(* makes an mp4 of an mkv inside the request that plays it, under a mutex    *)
(* that is released by hand; a file that is asked for by another name, or    *)
(* with noConversion, is opened as it is.  Downloads write mkv files, and    *)
(* RemoveDownload and the cleaners take files away meanwhile; a request that *)
(* panics is recovered by the router.                                        *)
EXTENDS Integers, FiniteSets

CONSTANTS
    Movie,       \* a movie has an mkv file and the mp4 made of it
    Request,     \* concurrent requests to play one
    MaxPanic,    \* bound: probes and sockets that fail by themselves
    MaxFailure,  \* bound: file system and ffmpeg calls that fail
    MaxCrash,    \* bound: ends of the process
    MaxDownload  \* bound: downloads

NoMovie == "no movie"

ASSUME SetAssumption ==
    /\ IsFiniteSet(Movie) /\ IsFiniteSet(Request)
    /\ NoMovie \notin Movie
    /\ {"free", "lost"} \cap Request = {}
ASSUME BoundAssumption ==
    {MaxPanic, MaxFailure, MaxCrash, MaxDownload} \subseteq Nat

VARIABLES
    mkv, mp4,         \* what is there of each movie: "none", "partial", "whole"
    requests,         \* [at, movie, seen]; seen: what was there of the opened file
    convertingFiles,  \* the movies in the list of that name
    mux,              \* convertingFilesMux: "free", its holder, or "lost"
    panics, failures, crashes, downloads,
    torn,             \* history: movies whose mp4 was left, or made, unfinished
    removedSince      \* history: requests whose mp4 was removed before they open it

fileVars == <<mkv, mp4, torn>>
lockVars == <<convertingFiles, mux>>
boundVars == <<panics, failures, crashes, downloads>>
vars == <<fileVars, requests, lockVars, boundVars, removedSince>>

Idle == [at |-> "idle", movie |-> NoMovie, seen |-> "none"]
MovieOf(r) == requests[r].movie
At(r, place) == requests[r].at = place
Goes(r, place) == requests' = [requests EXCEPT ![r].at = place]
Sees(r, place, content) ==
    requests' = [requests EXCEPT
                    ![r] = [at |-> place, movie |-> MovieOf(r), seen |-> content]]
Rests(r) == Goes(r, "idle")
Ends(r) == requests' = [requests EXCEPT ![r] = Idle]

(* Requests that have a file and have not opened it yet: the mp4 they found  *)
(* or made, or the file they named.                                          *)
Ready(r) == At(r, "ready")
Named(r) == At(r, "mkv") \/ At(r, "mp4")
Converting(r) == requests[r].at \in {"probe", "socket", "ffmpeg", "failed"}
Lose(m) ==
    removedSince' = removedSince \cup
        {r \in Request : requests[r].at \in {"ffmpeg", "ready"} /\ MovieOf(r) = m}
Forget(r) == removedSince' = removedSince \ {r}

Init ==
    /\ mkv = [m \in Movie |-> "none"]
    /\ mp4 = [m \in Movie |-> "none"]
    /\ requests = [r \in Request |-> Idle]
    /\ convertingFiles = {} /\ mux = "free"
    /\ panics = 0 /\ failures = 0 /\ crashes = 0 /\ downloads = 0
    /\ torn = {} /\ removedSince = {}

-----------------------------------------------------------------------------
(* HandleFileConversion.  The name of an mkv is to be converted: the list is *)
(* looked at without the mutex, and while it is not empty the request is     *)
(* refused.  An mp4, or an mkv with noConversion or DontConvertMkv, passes.  *)
HandleFileConversion(r, m) ==
    /\ At(r, "idle")
    /\ \E place \in {"waiting", "mkv", "mp4"} :
          /\ place = "waiting" => convertingFiles = {}
          /\ requests' = [requests EXCEPT
                             ![r] = [at |-> place, movie |-> m, seen |-> "none"]]
    /\ UNCHANGED <<fileVars, lockVars, boundVars, removedSince>>

EnterUnlocked(r) ==
    /\ At(r, "waiting")
    /\ mux' = r
    /\ Goes(r, "locked")
    /\ UNCHANGED <<fileVars, convertingFiles, boundVars, removedSince>>

Lock(r) ==
    /\ At(r, "waiting") /\ mux = "free"
    /\ mux' = r
    /\ Goes(r, "locked")
    /\ UNCHANGED <<fileVars, convertingFiles, boundVars, removedSince>>

(* os.Stat takes whatever is there for a converted file.                     *)
AlreadyConverted(m) == mp4[m] # "none"

FindConverted(r) ==
    /\ At(r, "locked") /\ AlreadyConverted(MovieOf(r))
    /\ mux' = "free"
    /\ Goes(r, "ready")
    /\ UNCHANGED <<fileVars, convertingFiles, boundVars, removedSince>>

-----------------------------------------------------------------------------
(* ConvertMkvToMp4                                                           *)
KeepListed(r) == convertingFiles' = convertingFiles
Delist(r) == convertingFiles' = convertingFiles \ {MovieOf(r)}

Enlist(r) ==
    /\ At(r, "locked") /\ ~AlreadyConverted(MovieOf(r))
    /\ convertingFiles' = convertingFiles \cup {MovieOf(r)}
    /\ Goes(r, "probe")
    /\ UNCHANGED <<fileVars, mux, boundVars, removedSince>>

Probe(r) ==
    /\ At(r, "probe") /\ mkv[MovieOf(r)] # "none"
    /\ Goes(r, "socket")
    /\ UNCHANGED <<fileVars, lockVars, boundVars, removedSince>>

(* A panic runs the deferred deletion, not the Unlock of the caller.         *)
PanicAway(r) ==
    /\ Delist(r)
    /\ mux' = "lost"
    /\ Ends(r)
    /\ UNCHANGED <<fileVars, failures, crashes, downloads, removedSince>>

ProbePanics(r) ==
    /\ At(r, "probe")
    /\ \/ mkv[MovieOf(r)] = "none" /\ UNCHANGED panics
       \/ mkv[MovieOf(r)] # "none" /\ panics < MaxPanic /\ panics' = panics + 1
    /\ PanicAway(r)

(* ffmpeg takes whatever is there of the mkv.                                *)
TempSock(r) ==
    /\ At(r, "socket")
    /\ \/ /\ panics < MaxPanic
          /\ panics' = panics + 1
          /\ PanicAway(r)
       \/ /\ IF mkv[MovieOf(r)] # "none"
             THEN /\ Sees(r, "ffmpeg", mkv[MovieOf(r)])
                  /\ mp4' = [mp4 EXCEPT ![MovieOf(r)] = "partial"]
             ELSE Goes(r, "failed") /\ UNCHANGED mp4
          /\ UNCHANGED <<mkv, torn, lockVars, boundVars, removedSince>>

(* The file ffmpeg writes may have been removed: it then has no name.        *)
FfmpegSucceeds(r) ==
    LET m == MovieOf(r) IN
    /\ At(r, "ffmpeg")
    /\ IF mp4[m] = "none"
       THEN UNCHANGED <<mp4, torn>>
       ELSE /\ mp4' = [mp4 EXCEPT ![m] = requests[r].seen]
            /\ torn' = IF requests[r].seen = "partial" THEN torn \cup {m} ELSE torn
    /\ Delist(r)
    /\ mux' = "free"
    /\ Sees(r, "ready", "none")
    /\ UNCHANGED <<mkv, boundVars, removedSince>>

FfmpegFails(r) ==
    /\ At(r, "ffmpeg") /\ failures < MaxFailure
    /\ failures' = failures + 1
    /\ Sees(r, "failed", "none")
    /\ UNCHANGED <<fileVars, lockVars, panics, crashes, downloads, removedSince>>

KeepOutput(m) == mp4' = mp4
RemoveOutput(m) == mp4' = [mp4 EXCEPT ![m] = "none"]

StayLocked(r) == mux' = mux
Unlock(r) == mux' = "free"

(* The error path has an Unlock of its own.                                  *)
ConversionFails(r) ==
    /\ At(r, "failed")
    /\ \/ /\ RemoveOutput(MovieOf(r))
          /\ UNCHANGED <<torn, failures>>
       \/ /\ mp4[MovieOf(r)] = "partial" /\ failures < MaxFailure
          /\ failures' = failures + 1
          /\ torn' = torn \cup {MovieOf(r)}
          /\ UNCHANGED mp4
    /\ Delist(r)
    /\ Unlock(r)
    /\ Ends(r) /\ Forget(r)
    /\ UNCHANGED <<mkv, panics, crashes, downloads>>

-----------------------------------------------------------------------------
(* StreamMedia opens the file by its name, and answers range by range.       *)
Content(r) == IF At(r, "mkv") THEN mkv[MovieOf(r)] ELSE mp4[MovieOf(r)]

OpenMedia(r) ==
    /\ Ready(r) \/ Named(r)
    /\ IF Content(r) = "none" THEN Ends(r)
       ELSE Sees(r, "streaming", Content(r))
    /\ Forget(r)
    /\ UNCHANGED <<fileVars, lockVars, boundVars>>

EndStream(r) ==
    /\ At(r, "streaming")
    /\ Ends(r)
    /\ UNCHANGED <<fileVars, lockVars, boundVars, removedSince>>

-----------------------------------------------------------------------------
(* The rest of the program: a download begins and ends, a cleaner or an      *)
(* administrator takes an mp4, RemoveDownload takes an mkv, the process ends.*)
DownloadFile(m) ==
    /\ mkv[m] = "none" /\ downloads < MaxDownload
    /\ downloads' = downloads + 1
    /\ mkv' = [mkv EXCEPT ![m] = "partial"]
    /\ UNCHANGED <<mp4, torn, requests, lockVars, panics, failures, crashes, removedSince>>

DownloadDone(m) ==
    /\ mkv[m] = "partial"
    /\ mkv' = [mkv EXCEPT ![m] = "whole"]
    /\ UNCHANGED <<mp4, torn, requests, lockVars, boundVars, removedSince>>

RemoveConverted(m) ==
    /\ mp4[m] # "none"
    /\ mp4' = [mp4 EXCEPT ![m] = "none"]
    /\ torn' = torn \ {m}
    /\ Lose(m)
    /\ UNCHANGED <<mkv, requests, lockVars, boundVars>>

(* RemoveDownload looks for the mkv it has removed to decide about the mp4,  *)
(* which therefore goes only when the mkv could not be removed.              *)
RemoveDownload(m) ==
    /\ mkv[m] # "none"
    /\ \/ /\ mkv' = [mkv EXCEPT ![m] = "none"]
          /\ UNCHANGED <<mp4, torn, removedSince, failures>>
       \/ /\ failures < MaxFailure
          /\ failures' = failures + 1
          /\ mp4' = [mp4 EXCEPT ![m] = "none"]
          /\ torn' = torn \ {m}
          /\ Lose(m)
          /\ UNCHANGED mkv
    /\ UNCHANGED <<requests, lockVars, panics, crashes, downloads>>

Crash ==
    /\ crashes < MaxCrash
    /\ crashes' = crashes + 1
    /\ requests' = [r \in Request |-> Idle]
    /\ convertingFiles' = {} /\ mux' = "free"
    /\ torn' = torn \cup {m \in Movie : mp4[m] = "partial"}
    /\ removedSince' = {}
    /\ UNCHANGED <<mkv, mp4, panics, failures, downloads>>

-----------------------------------------------------------------------------
Ffmpeg(r) == FfmpegSucceeds(r) \/ FfmpegFails(r)
RequestGoes(r) ==
    \/ FindConverted(r) \/ Enlist(r) \/ Probe(r) \/ ProbePanics(r) \/ TempSock(r)
    \/ Ffmpeg(r) \/ ConversionFails(r) \/ OpenMedia(r)

Next ==
    \/ \E r \in Request :
          \/ \E m \in Movie : HandleFileConversion(r, m)
          \/ Lock(r) \/ RequestGoes(r) \/ EndStream(r)
    \/ \E m \in Movie :
          DownloadFile(m) \/ DownloadDone(m) \/ RemoveConverted(m) \/ RemoveDownload(m)
    \/ Crash

Spec == Init /\ [][Next]_vars

(* A request goes on, ffmpeg ends, and sync.Mutex starves nobody.            *)
Fairness == \A r \in Request : WF_vars(RequestGoes(r)) /\ SF_vars(Lock(r))
FairSpec == Spec /\ Fairness

-----------------------------------------------------------------------------
RequestType ==
    [at : {"idle", "waiting", "locked", "probe", "socket", "ffmpeg", "failed",
           "ready", "mkv", "mp4", "streaming"},
     movie : Movie \cup {NoMovie}, seen : {"none", "partial", "whole"}]
Counters ==
    /\ panics \in 0 .. MaxPanic /\ failures \in 0 .. MaxFailure
    /\ crashes \in 0 .. MaxCrash /\ downloads \in 0 .. MaxDownload
HoldsMux(r) == At(r, "locked") \/ Converting(r)

(* Types; a request is idle exactly when it has no movie.                    *)
TypeOK ==
    /\ torn \subseteq Movie /\ removedSince \subseteq Request
    /\ {mkv, mp4} \subseteq [Movie -> {"none", "partial", "whole"}]
    /\ requests \in [Request -> RequestType]
    /\ convertingFiles \subseteq Movie
    /\ mux \in Request \cup {"free", "lost"}
    /\ Counters
    /\ \A r \in Request : At(r, "idle") <=> MovieOf(r) = NoMovie

(* The mutex is the request's that is between Lock and Unlock, whichever of  *)
(* the returns it takes: no two conversions run at a time.                   *)
MuxHasOwner == \A r \in Request : HoldsMux(r) <=> mux = r

(* What StreamStatus reports, and new requests are refused for, is the       *)
(* conversion that runs: neither a panic nor a failure leaves an entry.      *)
StatusIsTrue ==
    IF \E r \in Request : Converting(r)
    THEN \A r \in Request : Converting(r) => convertingFiles = {MovieOf(r)}
    ELSE convertingFiles = {}

(* An unfinished mp4 is being written or about to be removed, or it was left *)
(* by a crash or a removal that failed, or made of an mkv whose download     *)
(* went on.                                                                  *)
PartialHasWriter ==
    \A m \in Movie : mp4[m] = "partial"
        => m \in torn \/ \E r \in Request :
                           requests[r].at \in {"ffmpeg", "failed"} /\ MovieOf(r) = m

(* A request for an mkv that HandleFileConversion answered with the mp4, not *)
(* one that named its file, streams a whole file, unless one was left or     *)
(* made unfinished before, or the file it found or wrote was removed and is  *)
(* being converted again: under the mutex it waited for, the mp4 it found is *)
(* not another conversion's.                                                 *)
StreamsWhole ==
    [][\A r \in Request :
          /\ Ready(r)
          /\ requests'[r].seen = "partial"
          => MovieOf(r) \in torn \/ r \in removedSince]_vars

(* A request that waits for the mutex gets it, unless the mutex was lost.    *)
WaitingEnds ==
    \A r \in Request : <>[]At(r, "waiting") => <>[](mux = "lost")

(* "remove converted file": what RemoveDownload of an mkv leaves.            *)
ConvertedRemoved ==
    [][\A m \in Movie : RemoveDownload(m) => mp4'[m] = "none"]_vars
=============================================================================
