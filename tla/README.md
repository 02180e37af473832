# A TLA+ model of downloader_torrent

`downloader_torrent` is the torrent server of the downloader_api project: a
Go/fiber HTTP service that takes requests for torrent links, queues them,
downloads the files with `anacrolix/torrent`, serves and streams what it has
downloaded, and keeps the download directory and the database in step. This
directory holds TLA+ modules translated from that code, the TLC configurations
that check them, and TLAPS proofs about them.

## The system

All names below are in `internal/service/torrent_service.go` unless a file is
given.

| Component | State it keeps | Operations | Who calls it |
|---|---|---|---|
| Download queue (`queue_service.go`) | `queue`, `operationCount`, the mutex, `download_queue.json`, `done` | `Enqueue`, `Dequeue`, `worker`, `checkSave`, `saveQueue`, `loadQueue`, `periodicSaveQueue`, `Close`, and readers with and without the lock | request handlers, automatic downloader, queue workers, a ticker |
| Request admission | none of its own; reads the leech quota, `downloadingFiles`, the queue | `HandleDownloadTorrentRequest`, `CheckPermissionAndLimitForTorrent` | concurrent HTTP handlers |
| Automatic downloader | `downloadTorrentLinks`, `removeTorrentLinks` of each document (Mongo) | `HandleAutoDownloader`, every ten minutes | its goroutine |
| Queue consumer | `downloadingFiles` (length) | `DownloadQueueConsumer`, `WaitForDownloadConcurrencyFree`, `RemoveAutoDownloaderLink` | queue workers |
| DownloadFile and its watcher | one `*DownloadingFile` shared without a lock, `downloadingFiles` | `DownloadFile`, the watcher goroutine, `CheckFileExistAndSize` | consumers, an admin's immediate request |
| Cancel and remove | `downloadingFiles`, the directory | `CancelDownload`, `RemoveDownload` | HTTP handlers |
| Directory maintenance | `localFiles`, the directory, `localLink` in Mongo | `GetDownloadingFiles`, `GetLocalFiles` (2 s), `CleanUp` (1 min), `SyncFilesAndDb` (60 min) | four goroutines |
| Leech quota (`user_repository.go`) | `TorrentLeachGb` (Postgres) | `UpdateUserTorrentLeach`, `ResetAllUserTorrentUsages` | the watcher, a monthly job |
| Disk space | `stats`, `localFiles` | `UpdateStats`, `CleanUpSpace` | its goroutine |
| Serving (`torrent_handler.go`, `api.go`) | `activeDownloadsCounts`, counters of each local file | `ServeLocalFile`, `IncrementFileDownloadCount`, `DecrementFileDownloadCount`, `ExtendLocalFileExpireTime` | HTTP handlers |
| Streaming (`stream_service.go`) | `convertingFiles`, its mutex, the mp4 files | `StreamMedia`, `HandleFileConversion`, `ConvertMkvToMp4` | HTTP handlers |
| Caches, authentication, configuration, repositories, Telegram queue | Redis keys, tokens, `DbConfigData`, Mongo and Postgres, a message list | see `PROJECT.json` | middleware and services |

How they interact: a request (or the automatic downloader) checks limits and
puts an item into the queue; a worker takes it, waits for a free download slot
and calls `DownloadFile`; that lists an entry, starts a watcher goroutine and
adds the torrent; the watcher polls, and on completion removes the meta file,
stores the local link and charges the user; three periodic tasks reap the
entry, list the file as a local file and delete what looks left over. The list
of entries is guarded by a mutex for appends and deletions, but most readers do
not take it. A panic in a handler is recovered by fiber; one in a goroutine ends
the process.

### What is hard in it

* check-then-act: every admission check is made in one step and acted on in a
  later one, without a common lock;
* a record written by two goroutines (`DownloadFile` and its watcher), an
  unbuffered channel between them, and a captured `err`;
* cleaners that decide from a directory listing, a list of downloads and a list
  of local files which are each of a different moment;
* a queue saved in batches into a file that is truncated before it is written;
* crashes: nothing about a running download survives one, the files it left do;
* slots that must be released although `http.Get` has no timeout and a peer may
  never answer;
* statistics added up from a directory and two lists that are read one after the
  other, without their mutexes, and published later.

`PROJECT.json` lists each hazard at its line, with the property that covers it
or the reason none does.

### What makes the components correct

* Queue: FIFO within one life; one consumer per item; bounded loss at a crash;
  `Close` leaves nobody running; items are eventually taken and saved.
* Admission: how far each limit can be exceeded; a link is downloaded once at a
  time; a list entry belongs to a running download.
* Downloads: each entry, worker slot, abandoned file, meta file and dangling
  database link is eventually cleaned up.
* Local files: the download counters are the requests being served; an expired
  file is removed, not early, and not under a reader.
* Disk space: an admitted download fits; a shortage takes the files nobody
  downloaded first, and leaves no idle file.
* Streaming: one conversion at a time, a mutex that is released on every path, a
  status that is true, no unfinished mp4 given for the mkv that was asked for.
* Documents: every dangling local link is cleared although an update changes one
  season of one document; the link of a present file is kept.

## Modules

| Module | Models | Read with |
|---|---|---|
| `DownloadFifo` | what the queue promises: items in order, one pair of hands each, a restart from a snapshot | `DownloadQueue` implements it |
| `DownloadQueue` | `queue_service.go`: each locked section is an action, the save keeps the mutex while the file is truncated and written | `MCDownloadQueue`, two cfgs |
| `DownloadQueueProofs` | theorems about `DownloadQueue`, the refinement of `DownloadFifo` included | |
| `DownloadList` | what `downloadingFiles` is to those who look at it: links that are going and links that are over | `Admission` and `Downloads` implement it |
| `Admission` | handlers, automatic downloader, consumers and the head and end of `DownloadFile`, around an abstract FIFO | `MCAdmission`, two cfgs |
| `AdmissionProofs` | theorems about `Admission`: types, the list of entries, the refinement of `DownloadList` | |
| `AdmissionBounds` | theorems about `Admission`: the three bounds, and the lemmas on counting elements of a sequence they rest on | |
| `Downloads` | `DownloadFile` statement by statement, its watcher, cancel and remove, the reaper, the cleaners, the scanner, the sync | `MCDownloads`, three cfgs |
| `DownloadsProofs` | theorems about `Downloads`, the refinement of `DownloadList` included | |
| `LocalFiles` | the scan of the directory, `ServeLocalFile` and the static route, the download counters, expiry and extension | `MCLocalFiles` |
| `LocalFilesProofs` | theorems about `LocalFiles` | |
| `DiskSpace` | `UpdateStats` list by list, the space checks of `DownloadFile`, `CleanUpSpace` | `MCDiskSpace` |
| `DiskSpaceProofs` | theorems about `DiskSpace`, and lemmas on sums over files and on sequences of entries | |
| `Conversion` | both branches of `HandleFileConversion`, `ConvertMkvToMp4`, `StreamMedia`, `RemoveDownload` of a converted file | `MCConversion`, two cfgs |
| `ConversionProofs` | theorems about `Conversion` | |
| `Documents` | the updates of the movies collection, completion and the later save of a link, `SyncFilesAndDb`, the removals of `HandleAutoDownloader` | `MCDocuments` |
| `DocumentsProofs` | theorems about `Documents` | |

The modules meet in shared state, each of which is detailed in one of them.
`DownloadQueue` and `Admission` share the queue: `Admission` uses a FIFO, and
`DownloadQueue` is shown to implement `DownloadFifo`. `Admission` and
`Downloads` share `downloadingFiles`: `Admission` sees a download as running and
then over, `Downloads` sees what happens in between. Both are proved to
implement `DownloadList` (links going, links over), so that what one takes for a
single step of the list is one in the other. `localFiles` and the
directory are names in `Downloads`, entries with counters and times in
`LocalFiles`, sizes in `DiskSpace`, and the partner of the database in
`Documents`; what the other modules do to them is an action of the environment
in each (`Begin`, `Complete`, `Receive`, `DownloadDone`, `RemoveDownload`).

### State and actions, and the code

*DownloadQueue.* An item is the number of its `Enqueue`. `saver` is the holder
of `dq.mutex` while a save runs; an action that takes the mutex and does not
save is atomic and needs `saver = "none"`. `operationCount` keeps its code
meaning. `done` is read (`WorkerGoes`) before the dequeue check is asked
(`WorkerAsks`). `queueFile` is what `loadQueue` would get; a torn file fails to
parse and gives an empty queue. `accepted`, `delivered` and `stale` are history
variables. `Crash` ends the process and runs `NewDownloadQueue` again, with any
number of workers. `main` never calls `Close`; it is modelled because the type
offers it.

*Admission.* `pc` and `job` hold where each handler, worker or watcher is and
its item. A worker waits for `Done`, which the watcher of its download sets
last, and the two are one actor. A handler that downloads now (`ListNow`) does
not wait: it starts a watcher, which is an actor of its own (`Watcher`), and
answers when the torrent is added (`Answer`), so that one handler may have
several downloads on their way to being charged. Each check of
`HandleDownloadTorrentRequest` is a step of its own. The unlocked read in
`GetItemOfUser` may miss the last item beside a `Dequeue` (`SeenQueues`). An
entry of `downloadingFiles` has a link, the actor whose `DownloadFile` listed
it, and whether it is `over` (complete, or `Error` set: what
`GetDownloadingFiles` deletes). Quotas are counted in files. Loops over
`downloadingFiles` without the lock can panic while `DeleteFunc` shifts it; in a
handler this refuses the request, which changes nothing.

*Downloads.* A record `d` stands for one `*DownloadingFile` and may be used
again when its function and its watcher have returned and it is out of the list.
`starter[d]` is the position of `DownloadFile`, with `Failing` the four places
its deferred function starts from and `Sent` those between its send (`SendDone`)
and the assignment of `Error` (`SetError`), where the watcher has gone and
nothing is recorded yet; `watcher[d]` the position of the goroutine, which saves
the link and charges the user (`SaveLink`), may wait for the messenger's server
(`notify`, `BotAnswers`: an `http.Get` without a timeout) and then sets `Done`
(`SetDone`). `request[n]` is how far `CancelDownload` or `RemoveDownload` of a
name is: the search without the mutex, the deletion of the file, the deletion
from the list under the mutex, in the order of each. `named`, `full` and
`failed` are the fields other goroutines look at (`Name`/`Size`, `DownloadedSize
= Size`, `Error`). A file is `none`, `partial`, `whole`, or `torn`: deleted
under a running torrent and written on. A meta file is its link; `Marked` links
have a meta file whose name ends in `-<file name>.torrent`, which is how the
scanner and the sweep recognise an incomplete file. Times (timeouts, five
minutes of an orphan, expiry) are nondeterministic. `Torrent.Drop` on a nil or
dropped torrent panics (`src/todo.go:7` knows the second): in the watcher it
ends the process, in a handler nothing changes. `Kill` stands for every other
end of the process, the panics of unlocked loops in the periodic tasks included.
One maintenance action treats one file, with its checks and its deletion in one
step; the listing that `RemoveIncompleteDownloadFiles` reads once is kept
(`sweep`).

*LocalFiles.* `entry[f]` is the `*LocalFile` of a file: `active` is
`ActiveDownloads`, `last` is `LastDownloadTime` (0 for the zero time), `expire`
is `ExpireTime`. `mux` is `localFilesMux` with what its holder does; `work` is
the listing or the entries still to be looked at. The counters have a mutex of
their own, under which a walk over `localFiles` may miss an entry that
`slices.DeleteFunc` is moving, or panic on a cleared one (`Moving`, `Miss`).
`ServeLocalFile` is `Check`, `Open`, `Serve` and `Finish`; the static route is
`StaticNext`, and `Finish` or, after a 404, `StaticNotFound`. A request ends for
the counters when its handler does; the bytes are sent afterwards. A file's
expiry follows the later of its access and birth times (`touched`); in
`GetFileExpireTime` the birth time wins over the date
`HandleExpireTimeOfAutoDownloaded` sets. Where the file system has no birth
times the function panics, is recovered, and returns the zero time
(`ReportsBirth = FALSE`). Access times are moved lazily by the file system, so
`Access` may happen or not. `drifted`, `leaked`, `raced`, `counted` and `stale`
are history: they name what the properties make an exception for.

*DiskSpace.* `remaining` is `stats.RemainingSpaceMb`, as last published.
`UpdateStats` is four steps, between which downloads are let in, written and
reaped: the directory (`GetDiskSpaceUsage`), `localFiles` (`SumLocalFiles`),
`downloadingFiles` (`SumDownloads`), and the publication (`Publish`). Sizes are
bytes; each file is counted in whole megabytes (`Whole`), and a deletion beside
one of the loops may make it pass over entries (`Looped`). What is let in
between the reading of the downloads and the publication is in `since`, then
`late`; what the loops missed is in `missed`, then `unseen`. `usage` keeps the
entries in the order of `LastDownloadTime`. `UpdateStats` and `CleanUpSpace` are
one goroutine: `cleaner` is the loop it is in. The first loop takes entries
without a download and counts their size as freed before `os.Remove`; the second
(`torrent_service.go:1290`) does not count what it removes, and counts the bytes
of a file it could not remove as megabytes. The size check of
`CheckFileExistAndSize` is skipped when nothing remains (779).
`GetDiskSpaceUsage` answers 0 when a file vanishes under it. `Sum` adds up sizes
by counting units, and `Kept` is a list of entries, in its order, without what a
scan or a removal took out of it. The first loop takes entries in any order
(their expirations are not in the model); the second takes those without a
download, in any order, and then `usage`.

*Conversion.* A movie has an mkv, which a download writes (`none`, `partial`,
`whole`), and the mp4 made of it. A request goes to be converted or, for an mp4
or with `noConversion` or `DontConvertMkv`, past the conversion with the name it
came with (`at = "mp4"` or `"mkv"`). `requests[r].at` is the position in
`HandleFileConversion` and `ConvertMkvToMp4`: `waiting` for
`convertingFilesMux`, `locked`, `probe`, `socket`, `ffmpeg`, `failed`, `ready`,
`streaming`. `convertingFiles` is a set, as the list is empty or has one
element. Its unlocked first element may be read while it is deleted; the panic
is recovered and refuses the request. A panic in the probe or the socket runs
the deferred deletion from `convertingFiles` and not the `Unlock`: `mux` is then
`lost`. The goroutine that `TempSock` leaves in `Accept` changes nothing here.
`StreamMedia` counts no active download. ffmpeg makes of an mkv what is there of
it when it starts: an unfinished one gives an unfinished mp4 (`torn`).

*Documents.* A slot is a place in a document where a torrent link appears: a
quality of a movie, or a season of a serial. `UpdateOne` changes one document,
and of a serial the first season that matches (`seasons.$`). A download
completes (`DownloadDone`), is taken off the list (`GetDownloadingFiles`) and has
its link saved (`SaveLink`, by the watcher, which may be late) in steps of their
own, with scans, syncs and cancellations in between. `sync` is where
`SyncFilesAndDb` is; the cursor keeps what the query saw. `removeTorrentLinks`
never gets shorter: what removes a link pulls it from `downloadTorrentLinks`
(`torrent_repository.go:155`). A query or a file operation may fail
(`Fails`), and each failure takes the path the code gives it.

## Runs

| Run | Shows | Bounds |
|---|---|---|
| `queue` | `TypeOK`, `Fifo`, `SingleConsumer`, `RestartLoss`, `CloseQuiesces`, `ImplementsFifo` | 2 workers of 2 slots, batches of 3, 4 items, 1 crash, 1 failing file operation: over-capacity loads, batch saves by each caller, torn files and repeated items all occur |
| `queue_live` | `EventuallyDequeued`, `EventuallySaved` | 2 workers of 1 slot, batches of 2, 3 items, 1 crash, no failing write |
| `admission` | `TypeOK`, `QueueCopies`, `UserQueueBound`, `QuotaBound`, `NoLeakedSlot`, `ImplementsList` | 2 handlers of 1 user, who queue or, as an administrator's bot, download now and are charged; 1 worker, 2 watchers, the automatic downloader, 1 link, limits of 1, a queue of 2 |
| `admission_concurrency` | violation of `ConcurrencyHandled` | 1 handler that downloads at once, 1 worker, 1 watcher |
| `downloads` | `TypeOK`, `NoZombieEntry`, `EntryLeavesList`, `SlotReleased`, `PartialGone`, `MetaGone` | 1 record used twice in a life of the process, any number of restarts, 2 links with one file name, one of them a magnet link |
| `downloads_sweep` | violation of `WholeSpared` | 2 records, 2 links, one file name |
| `downloads_magnet` | violation of `MagnetsAdded` | as `downloads_sweep`, one magnet link |
| `local_files` | `TypeOK`, `CountersExact`, `OvershootNeedsRace`, `ExpireSparesReaders`, `ExpireInTime`, `ExpiredGoes` | 1 file, 2 requests, a limit of 1, 3 hours, 1 leaked count, 1 walk beside a moving entry |
| `disk_space` | `TypeOK`, `FirstAdmissionFits`, `UnusedGoFirst`, `ShortageClearsIdle` | 2 files of 15 and 25 bytes, megabytes of 10, 2 downloads, 1 failing call, a limit of 4 |
| `conversion` | `TypeOK`, `MuxHasOwner`, `StatusIsTrue`, `PartialHasWriter`, `StreamsWhole`, `WaitingEnds` | 2 movies, 2 requests, 2 downloads, 1 panic, 2 failing calls, 1 crash |
| `conversion_remove` | violation of `ConvertedRemoved` | as `conversion` |
| `documents` | `TypeOK`, `PresentKeepsLink`, `LinksAgree`, `FilesAgree` | 3 documents, 3 links, 5 slots: a link in two seasons and in two serials, two links in one season, a movie; batches of 2, 2 downloads and 1 removal asked for, 1 failing call |

Symmetry is used for workers and links in runs that check no liveness. In
`admission` every request is one that is charged, and `QuotaBound` is reached
(usage gets to 7 with limits of 1); requests of administrators that are not
charged are in `admission_concurrency` and in the proofs, which hold for every
kind of request and any number of watchers. One link is enough there, as two
requests for it race for everything a link is looked up in, and an entry that is
reaped or cancelled makes room for the next.
In `downloads` one download follows another; two at a time are in the two
violation runs and in `DownloadsProofs`, which has no bound. One file is enough
in `local_files`: entries of different files share only the mutexes and the
global counter, which the second request exercises; the proofs are for any
number. A limit of one, two requests and one racing walk are what it takes to
exceed a limit, leak a count and make an entry drift. In `documents` the slots
are chosen so that one `UpdateOne` never clears every occurrence of a link. In
`disk_space` no file is a whole number of megabytes, and the limit is one that
both files fill to the last. The exceptions in a property (`drifted`, `torn`,
`stale`, `removedSince`, `late`, `unseen`) are
reached in its run; each property has a mutant of the code that violates it.

### Findings

* `admission_concurrency`: `DownloadFile` leaves the concurrency limit to the
  queue workers (comment at `torrent_service.go:616`), but `downloadNow` calls
  it directly.
* `downloads_sweep`: the sweep takes a file with a meta file for an incomplete
  one (comment at 1441). Asking again for a link whose file is there creates
  the meta file first and names the entry later; in between the sweep deletes
  the whole, recorded file.
* `downloads_magnet`: the endpoint documents magnet links
  (`torrent_handler.go:112`), `DownloadFile` tests for `magent:?`.
* `conversion_remove`: after "remove converted file" (comment at
  `torrent_service.go:854`) `RemoveDownload` asks `os.Stat` for the mkv it has
  just removed; the mp4 stays.

### Fairness

`DownloadQueue`: workers and the ticker are goroutines of an endless loop and
have weak fairness; actions that take the mutex have strong fairness, as
`sync.Mutex` hands itself over to a starved waiter. Consumers are assumed to
return; the client, `Close` and the dequeue check are not fair, and the
properties say what they assume of them.

`Downloads`: weak fairness for the steps between two waits, for the context's
timeout, for a cancellation that has begun, and for the tickers' tasks. None for
the two servers that are asked without a timeout (`FetchMeta`, `BotAnswers`), the
peers, requests, cancellations, the end of the process and its restart. Expiry
is fair: nobody keeps reading or extending one file for ever. The number of
downloads in one life is bounded; without the bound an unending stream of
failing requests for one link can keep the scanner from ever seeing its file
unmarked, and `PartialGone` fails.

`LocalFiles`: the scan and the expiry get the mutex although they compete for it
(strong), and go on once they have it (weak). No request, access, hour or
administrator is fair, and no request has to end. `DiskSpace`: the scan gets the
mutex in the end (strong), and the goroutine of `UpdateStats` and `CleanUpSpace`
goes on (weak). `Conversion`: a request that has been let in goes on and ffmpeg,
a child process without a time limit, is assumed to end; a request waiting for
the mutex gets it in the end, unless it was lost. `Documents`: the tickers of
scan, sync and automatic downloader; a download ends, at the latest by its
timeout, which `Downloads` shows (`EntryLeavesList`), and complete entries are
reaped; a link need not be saved. Failures are bounded, so that a query is not
refused for ever.

## Proofs

`DownloadQueueProofs`, for every number of workers, slots, batch size and bound:

* `TypeCorrect` (`TypeOK`): the operation count stays below a batch whenever
  the mutex is free, because only the step that reaches a batch starts a save;
* `ExactFifo` (`Fifo`): inductive with types;
* `ConsumedOnce` (`SingleConsumer`): needs `TicketOrder`: tickets grow along
  the queue and along the file, since a crash makes the file the queue, and a
  held ticket is older than every queued one;
* `CrashCost` (`RestartLoss`): the file can be turned into the queue by at most
  `operationCount` operations (`Lag`); lemmas show how one enqueue, one dequeue
  and a save change `Lag`.
* `CloseIsQuiet` (`CloseQuiesces`): a worker that is past its last look at `done`
  holds or takes nothing once `Close` has flushed the queue;
* `FifoImplemented` (`ImplementsFifo`): under the mapping of the queue, the hands
  of the workers, the tickets issued and the file, each step is one of
  `DownloadFifo` or a stutter.

`AdmissionProofs`, for every finite set of handlers and workers, every set of
users and links, and all limits:

* `TypeCorrect` (`TypeOK`);
* `NoTwins` (`NoTwinEntries`: no link is listed twice) and `NoLeaks`
  (`NoLeakedSlot`): inductive together with types. A step of one actor leaves
  the others where they are (`OnlyMoves`), and an entry changes only where its
  owner lists or ends it, or where it is removed;
* `ListImplemented` (`ImplementsList`): the links of entries that are not over
  are `going`, the others `over`. It needs both invariants: an entry has its
  link for itself, so a cancellation drops one link, and the end of a download
  moves one link, because an owner has one entry that is not over.

`AdmissionBounds`, of the same model: `FewCopies` (`QueueCopies`),
`UserQueueBounded` (`UserQueueBound`) and `QuotaBounded` (`QuotaBound`). They
are of one life of the process: a restart may bring back items that were
dequeued before it (`RestartLoss`). A step
moves one unit from one crowd to another (a handler past the checks, an item in
the queue, an item in a worker's hand, usage), so each bound becomes inductive
once all the crowds an item goes through are added up (`BoundInv`):

* the queue limit is passed with at most `UserEnqueueLimit - 1` items, or one
  more when the unlocked read missed one; then a worker is idle and holds
  nothing, which is why `HandBound` (queue, handlers past the check and workers)
  is smaller than the sum of `QueueBound` and the number of workers;
* the leech limit is passed with usage below it; `HandBound` says what else can
  be on its way to being charged (`ChargeBound`);
* a request for now is never put into the queue (`NowSkipsQueue`), else an item
  would appear for which no handler was counted.

The lemma `Crowds` turns a step of one actor into arithmetic about the sizes of
these sets.

`DownloadsProofs`, for any downloads, links and names:

* `TypeCorrect` (`TypeOK`), with one step per statement of `DownloadFile` and of
  its watcher;
* `NoZombies` (`NoZombieEntry`): a listed entry has a watcher, or is over, or its
  `DownloadFile` has released the watcher and records its error next, as a
  watcher that is past its select leaves no other case (`WatchersEnd`);
* `ListImplemented` (`ImplementsList`): the same `DownloadList`, of this finer
  model. `Twinless` (entries have different links) is inductive with types.
  Both goroutines set the fields that make an entry over; whichever is first
  ends the link, the second is a stutter, and `Start` takes a record that is out
  of the list (`StartsUnlisted`), so no entry is going again;
* `HungForGood` (`HangsForGood`): where the watcher ended before the deferred
  send, no step but the end of the process moves `DownloadFile` on. This is the
  exception in the liveness property `SlotReleased`: it cannot be left out.

`LocalFilesProofs`, for any files, any finite set of requests, all limits, delays
and times:

* `TypeCorrect` (`TypeOK`), which needs the counter: `activeDownloadsCounts` is
  never negative because it is the number of requests inside and the leak;
* `CountersFollow` (`CountersExact`): with `CountedListed` (a counted request's
  file is listed) for the entries a scan makes anew;
* `ReadersSpared` (`ExpireSparesReaders`): from the same invariant, as
  `ExpireLook` dooms only entries with no active download;
* `OvershootIsRace` (`OvershootNeedsRace`): `StillBelow` says that a request which
  has passed the check, and saw nobody counted since, would pass it again;
* `ExpiredOnTime` (`ExpireInTime`): `TimeInv` relates the expiration in the list
  to the times on disk.

`ConversionProofs`, for any movies and requests: `TypeCorrect`, `MuxOwned`
(`MuxHasOwner`), `StatusTrue` (`StatusIsTrue`), which needs the owner of the
mutex, `PartialOwned` (`PartialHasWriter`), and `WholeStreams` (`StreamsWhole`).
The last needs `NothingUnfinished`: an mp4 that `HandleFileConversion` answered
with is whole and nobody converts it again, which only a removal makes possible,
or it is `torn`; and ffmpeg writes it of what it saw of the mkv. It says nothing
of a request that names an mp4 or passes by the conversion: that one opens
whatever is there, also while ffmpeg or a download writes it, and the model has
such behaviours.

`DocumentsProofs`, for any documents, seasons, links and batch: `TypeCorrect`
and `LinkKept` (`PresentKeepsLink`), from `SeenOrFresh` (a file is in
`localFiles` or was completed since the last scan) and `AskedFor` (what
`HandleAutoDownloader` removes was asked for).

`DiskSpaceProofs`, for any finite set of files, all sizes, limits and bounds:

* `TypeCorrect` (`TypeOK`): `usage` has no repetition and keeps to the list, a
  file somebody reads is in it, and what `CleanUpSpace` has yet to visit is
  listed, since the list does not move while it runs;
* `FirstAdmission` (`FirstAdmissionFits`), from `SpaceInv`: what the lists that
  were read add up to (`LocalRead`, `DownloadsRead`), and, since the last snapshot,
  that the directory and what was promised before have not outgrown what it
  counted (`SnapshotHolds`), apart from the downloads let in since the reading of
  the downloads (`late`, `admitted`) and less than a megabyte a file. `AdmittedFit`
  says that each of those admitted fits what remained;
* `Overrun`: of the same invariant, how far the stale `RemainingSpaceMb` can
  mislead: `n` downloads let in by one snapshot exceed the limit by at most
  `n - 1` times what remained, less `n` reserves, plus the late ones and the
  parts of megabytes. Both theorems are of snapshots that passed over no entry
  (`unseen = {}`);
* `UnusedFirst` (`UnusedGoFirst`), from `CleanInv`: while the second loop goes
  on, each file without a download is ahead of it or gone (`UnusedAhead`),
  entries that were downloaded come last (`KnownLast`), and a shortage is no
  greater than `RemainingBounded` allows. One step needs the hypothesis
  `BytesEndTheLoop`: a removal that fails leaves its file behind the loop, and
  only because its *bytes* are then added to the *megabytes* freed does the loop
  stop before it reaches a downloaded file. With 1048576 bytes in a megabyte and
  at most 10 GB to free it holds for files of less than half a terabyte; TLC
  evaluates it for the instance of `disk_space`, and finds the property violated
  in one where `Mega` is 1 (sizes of 1 and 2, a limit of 3, two failing calls).

Sums are cardinalities of sets of units, so that adding, removing and comparing
them follows from the theorems about finite sets, without induction.

The assumptions are the named `ASSUME`s on the constants; the ones about `NoLink`,
`NoFile`, `NoMovie` and names in `Admission` keep "none" apart from the real
ones, and sets that are counted are finite. `BytesEndTheLoop` is the only other
hypothesis of a theorem. Only model-checked: every liveness property, as TLAPS
does not treat fairness. Each safety and action property that a passing run
checks is stated by a theorem.

## Not modelled

* The Redis caches (`cache.go`): keys with a time limit that are read again when
  they are gone: permissions, tokens and the data of bots.
* Authentication and permissions (`middleware.go`, `jwt.go`): a request arrives
  here as one that is allowed.
* The router and its timeouts (`api.go`), apart from the static route: a handler
  that is timed out goes on, which the model allows for every handler.
* The nil entries `slices.DeleteFunc` leaves behind a slice another goroutine
  walks: where the walk then panics, a handler refuses its request (nothing
  changes) and a periodic task ends the process (`Kill`, `Crash`). In
  `DownloadFile` itself the recovered panic returns an error and leaves its entry
  to the watcher, and in `UpdateStats` it ends the process: these two outcomes,
  and a loop of `CheckFileExistAndSize` (764) that passes over the entry it looks
  for, are not in `DiskSpace`.
* `CleanUpSpace` sorts `localFiles` in place while others walk it: in `LocalFiles`
  the order of the entries is not modelled.
* Several lives of the process in `Admission`: its bounds are of one.
* Reloading the configuration (`dbConfigs.go`): the limits are constants of the
  models, so a limit that changes between two checks is not covered.
* The Telegram queue: never started by `main`. Users, admin status, generated
  documentation and error texts: plain reads and formatting.
* `HandleExpireTimeOfAutoDownloaded` sets times of a file that have no effect on
  its expiry where the file system reports births, as `GetFileExpireTime` prefers
  those.
* Of the repositories, the queries that only read.

The content of files and messages, logging and the wording of statuses are left
out everywhere. `PROJECT.json` names the reason for each part.

## What could follow

1. Permissions and the configuration: how long a stale one is used.
2. `LocalFiles` and `DiskSpace` over one list of entries: two cleaners that take
   files in turns.
3. `localFiles` as an abstract list that `Downloads`, `LocalFiles`, `DiskSpace`
   and `Documents` implement, the way `DownloadList` is.
