-------------------------- MODULE DownloadsProofs --------------------------
(* Type correctness of Downloads, and that no entry of downloadingFiles is   *)
(* left with nobody to end it, for any downloads, links, names and bound.    *)
EXTENDS Downloads, TLAPS

(* What a watcher that is past its select has recorded.                      *)
WatchersEnd ==
    \A d \in Download :
        /\ watcher[d] \in {"complete", "link", "notify", "last"} => d \in full
        /\ watcher[d] = "ended" => IsOver(d) \/ starter[d] \in Sent

(* The records of downloads and their two goroutines stay records.           *)
LEMMA RecordStep ==
    ASSUME TypeOK, [Next]_vars
    PROVE  RecordTypeOK'
<1> USE DEF TypeOK
<1>1. ASSUME NEW d \in Download, Start(d) PROVE RecordTypeOK'
  BY <1>1, LinkAssumption DEF Start, NewRecord, Unused, Goto, StarterLabel,
      Failing, Sent, taskVars, diskVars, RecordTypeOK
<1>2. ASSUME NEW d \in Download, CreateMeta(d) PROVE RecordTypeOK'
  BY <1>2 DEF CreateMeta, At, Goto, StarterLabel, Failing, Sent, taskVars,
      lifeVars, RecordTypeOK
<1>3. ASSUME NEW d \in Download, FetchMeta(d) PROVE RecordTypeOK'
  BY <1>3 DEF FetchMeta, At, Goto, StarterLabel, Failing, Sent, taskVars,
      diskVars, lifeVars, RecordTypeOK
<1>4. ASSUME NEW d \in Download, AddTorrent(d) PROVE RecordTypeOK'
  BY <1>4 DEF AddTorrent, At, Goto, StarterLabel, Failing, Sent, taskVars,
      diskVars, lifeVars, RecordTypeOK
<1>5. ASSUME NEW d \in Download, AssignTorrent(d) PROVE RecordTypeOK'
  BY <1>5 DEF AssignTorrent, At, Goto, StarterLabel, Failing, Sent, taskVars,
      diskVars, lifeVars, RecordTypeOK
<1>6. ASSUME NEW d \in Download, Check(d) PROVE RecordTypeOK'
  BY <1>6 DEF Check, At, Goto, StarterLabel, Failing, Sent, taskVars, diskVars,
      lifeVars, RecordTypeOK
<1>7. ASSUME NEW d \in Download, DownloadAll(d) PROVE RecordTypeOK'
  BY <1>7 DEF DownloadAll, At, Goto, StarterLabel, Failing, Sent, taskVars,
      diskVars, lifeVars, RecordTypeOK
<1>8. ASSUME NEW d \in Download, SendDone(d) PROVE RecordTypeOK'
  BY <1>8 DEF SendDone, Goto, StarterLabel, Failing, Sent, taskVars,
      diskVars, lifeVars, RecordTypeOK
<1>9. ASSUME NEW d \in Download, UndoFile(d) PROVE RecordTypeOK'
  BY <1>9 DEF UndoFile, At, Goto, StarterLabel, Failing, Sent, taskVars,
      lifeVars, RecordTypeOK
<1>10. ASSUME NEW d \in Download, UndoMeta(d) PROVE RecordTypeOK'
  BY <1>10 DEF UndoMeta, At, Goto, StarterLabel, Failing, Sent, taskVars,
      lifeVars, RecordTypeOK
<1>11. ASSUME NEW d \in Download, Write(d) PROVE RecordTypeOK'
  BY <1>11 DEF Write, Goto, StarterLabel, Failing, Sent, taskVars, lifeVars,
      RecordTypeOK
<1>12. ASSUME NEW d \in Download, Timeout(d) PROVE RecordTypeOK'
  BY <1>12 DEF Timeout, DropAndEnd, PanicOnNil, Panic, downloadVars,
      taskVars, diskVars, lifeVars, RecordTypeOK
<1>13. ASSUME NEW d \in Download, Inactive(d) PROVE RecordTypeOK'
  BY <1>13 DEF Inactive, DropAndEnd, Panic, downloadVars, taskVars, diskVars,
      lifeVars, RecordTypeOK
<1>14. ASSUME NEW d \in Download, TickComplete(d) PROVE RecordTypeOK'
  BY <1>14 DEF TickComplete, StarterLabel, Failing, Sent, taskVars, diskVars,
      lifeVars, RecordTypeOK
<1>15. ASSUME NEW d \in Download, RemoveMeta(d) PROVE RecordTypeOK'
  BY <1>15 DEF RemoveMeta, StarterLabel, Failing, Sent, taskVars, lifeVars,
      RecordTypeOK
<1>16. ASSUME NEW d \in Download, SaveLink(d) PROVE RecordTypeOK'
  BY <1>16 DEF SaveLink, AfterLink, Goto, StarterLabel, Failing, Sent,
      taskVars, lifeVars, RecordTypeOK
<1>17. ASSUME NEW d \in Download, SetError(d) PROVE RecordTypeOK'
  BY <1>17 DEF SetError, RecordError, Goto, StarterLabel, Failing, Sent,
      taskVars, diskVars, lifeVars, RecordTypeOK
<1>18. ASSUME NEW d \in Download, BotAnswers(d) \/ SetDone(d) PROVE RecordTypeOK'
  BY <1>18 DEF BotAnswers, SetDone, Watch, StarterLabel, Failing, Sent,
      taskVars, diskVars, lifeVars, RecordTypeOK
<1>19. ASSUME NEW n \in Name, CancelSearch(n) \/ RemoveSearch(n)
       PROVE  RecordTypeOK'
  BY <1>19 DEF CancelSearch, RemoveSearch, DropByName, StarterLabel, Failing,
      Sent, diskVars, lifeVars, RecordTypeOK
<1>20. ASSUME NEW n \in Name, CancelDelist(n) \/ RemoveDelist(n)
       PROVE  RecordTypeOK'
  BY <1>20 DEF CancelDelist, RemoveDelist, Delist, StarterLabel, Failing, Sent,
      diskVars, lifeVars, RecordTypeOK
<1>21. CASE Reap
  BY <1>21 DEF Reap, IsOver, StarterLabel, Failing, Sent, taskVars, diskVars,
      lifeVars, RecordTypeOK
<1>22. CASE Restart
  BY <1>22, LinkAssumption DEF Restart, NoSweep, StarterLabel, Failing, Sent,
      diskVars, RecordTypeOK
<1>23. ASSUME
        \/ \E d \in Download : Receive(d)
        \/ \E n \in Name : CancelFile(n) \/ RemoveFile(n) \/ SweepFile(n) \/ Expire(n)
              \/ SyncFile(n)
        \/ \E l \in Link : OrphanSweep(l) \/ SyncLink(l) \/ SyncStray(l)
        \/ SweepStart \/ Scan \/ Kill
        \/ UNCHANGED vars
      PROVE RecordTypeOK'
  <2>1. UNCHANGED <<link, starter, watcher, torrent, named, failed, listed>>
    BY <1>23 DEF Receive, CancelFile, RemoveFile, SweepFile, Expire, SyncFile,
        OrphanSweep, SyncLink, SyncStray, SweepStart, Scan, Kill, Panic,
        vars, downloadVars, taskVars, diskVars, lifeVars
  <2>. QED  BY <2>1 DEF RecordTypeOK
<1>. QED  BY <1>1, <1>2, <1>3, <1>4, <1>5, <1>6, <1>7, <1>8, <1>9, <1>10,
      <1>11, <1>12, <1>13, <1>14, <1>15, <1>16, <1>17, <1>18, <1>19, <1>20,
      <1>21, <1>22, <1>23 DEF Next, StarterStep, WatcherStep, RequestStep

(* What the fields of a record say of each other: DownloadFile sets the name *)
(* before the torrent, the size is counted after both, and the whole is      *)
(* never more than that.                                                     *)
LEMMA FieldsStep ==
    ASSUME TypeOK, [Next]_vars
    PROVE  FieldsOK'
<1> USE DEF TypeOK
<1>1. ASSUME NEW d \in Download, Start(d) PROVE FieldsOK'
  BY <1>1, LinkAssumption DEF Start, NewRecord, Unused, Goto, Failing, Sent,
      taskVars, diskVars, RecordTypeOK, FieldsOK
<1>2. ASSUME NEW d \in Download, CreateMeta(d) PROVE FieldsOK'
  BY <1>2 DEF CreateMeta, At, Goto, Failing, Sent, taskVars, lifeVars,
      RecordTypeOK, FieldsOK
<1>3. ASSUME NEW d \in Download, FetchMeta(d) PROVE FieldsOK'
  BY <1>3 DEF FetchMeta, At, Goto, Failing, Sent, taskVars, diskVars, lifeVars,
      RecordTypeOK, FieldsOK
<1>4. ASSUME NEW d \in Download, AddTorrent(d) PROVE FieldsOK'
  BY <1>4 DEF AddTorrent, At, Goto, Failing, Sent, taskVars, diskVars,
      lifeVars, RecordTypeOK, FieldsOK
<1>5. ASSUME NEW d \in Download, AssignTorrent(d) PROVE FieldsOK'
  BY <1>5 DEF AssignTorrent, At, Goto, Failing, Sent, taskVars, diskVars,
      lifeVars, RecordTypeOK, FieldsOK
<1>6. ASSUME NEW d \in Download, Check(d) PROVE FieldsOK'
  BY <1>6 DEF Check, At, Goto, Failing, Sent, taskVars, diskVars, lifeVars,
      RecordTypeOK, FieldsOK
<1>7. ASSUME NEW d \in Download, DownloadAll(d) PROVE FieldsOK'
  BY <1>7 DEF DownloadAll, At, Goto, Failing, Sent, taskVars, diskVars,
      lifeVars, RecordTypeOK, FieldsOK
<1>8. ASSUME NEW d \in Download, SendDone(d) PROVE FieldsOK'
  BY <1>8 DEF SendDone, Goto, Failing, Sent, taskVars, diskVars,
      lifeVars, RecordTypeOK, FieldsOK
<1>9. ASSUME NEW d \in Download, UndoFile(d) PROVE FieldsOK'
  BY <1>9 DEF UndoFile, At, Goto, Failing, Sent, taskVars, lifeVars,
      RecordTypeOK, FieldsOK
<1>10. ASSUME NEW d \in Download, UndoMeta(d) PROVE FieldsOK'
  BY <1>10 DEF UndoMeta, At, Goto, Failing, Sent, taskVars, lifeVars,
      RecordTypeOK, FieldsOK
<1>11. ASSUME NEW d \in Download, Write(d) PROVE FieldsOK'
  BY <1>11 DEF Write, Goto, Failing, Sent, taskVars, lifeVars, RecordTypeOK,
      FieldsOK
<1>12. ASSUME NEW d \in Download, Receive(d) PROVE FieldsOK'
  BY <1>12 DEF Receive, Failing, Sent, taskVars, lifeVars, RecordTypeOK,
      FieldsOK
<1>13. ASSUME NEW d \in Download, Timeout(d) PROVE FieldsOK'
  BY <1>13 DEF Timeout, DropAndEnd, PanicOnNil, Panic, downloadVars,
      taskVars, diskVars, lifeVars, RecordTypeOK, FieldsOK
<1>14. ASSUME NEW d \in Download, Inactive(d) PROVE FieldsOK'
  BY <1>14 DEF Inactive, DropAndEnd, Panic, downloadVars, taskVars, diskVars,
      lifeVars, RecordTypeOK, FieldsOK
<1>15. ASSUME NEW d \in Download, TickComplete(d) PROVE FieldsOK'
  BY <1>15 DEF TickComplete, Failing, Sent, taskVars, diskVars, lifeVars,
      RecordTypeOK, FieldsOK
<1>16. ASSUME NEW d \in Download, RemoveMeta(d) PROVE FieldsOK'
  BY <1>16 DEF RemoveMeta, Failing, Sent, taskVars, lifeVars, RecordTypeOK,
      FieldsOK
<1>17. ASSUME NEW d \in Download, SaveLink(d) PROVE FieldsOK'
  BY <1>17 DEF SaveLink, AfterLink, Goto, Failing, Sent, taskVars, lifeVars,
      RecordTypeOK, FieldsOK
<1>18. ASSUME NEW d \in Download, SetError(d) PROVE FieldsOK'
  BY <1>18 DEF SetError, RecordError, Goto, Failing, Sent, taskVars, diskVars,
      lifeVars, RecordTypeOK, FieldsOK
<1>19. ASSUME NEW d \in Download, BotAnswers(d) \/ SetDone(d) PROVE FieldsOK'
  BY <1>19 DEF BotAnswers, SetDone, Watch, Failing, Sent, taskVars, diskVars,
      lifeVars, RecordTypeOK, FieldsOK
<1>20. ASSUME NEW n \in Name, CancelSearch(n) \/ RemoveSearch(n)
       PROVE  FieldsOK'
  BY <1>20 DEF CancelSearch, RemoveSearch, DropByName, Failing, Sent, diskVars,
      lifeVars, RecordTypeOK, FieldsOK
<1>21. ASSUME NEW n \in Name, CancelDelist(n) \/ RemoveDelist(n)
       PROVE  FieldsOK'
  BY <1>21 DEF CancelDelist, RemoveDelist, Delist, Failing, Sent, diskVars,
      lifeVars, RecordTypeOK, FieldsOK
<1>22. CASE Reap
  BY <1>22 DEF Reap, IsOver, Failing, Sent, taskVars, diskVars, lifeVars,
      RecordTypeOK, FieldsOK
<1>23. CASE Restart
  BY <1>23, LinkAssumption DEF Restart, NoSweep, Failing, Sent, diskVars,
      RecordTypeOK, FieldsOK
<1>24. ASSUME
        \/ \E n \in Name : CancelFile(n) \/ RemoveFile(n) \/ SweepFile(n) \/ Expire(n)
              \/ SyncFile(n)
        \/ \E l \in Link : OrphanSweep(l) \/ SyncLink(l) \/ SyncStray(l)
        \/ SweepStart \/ Scan \/ Kill
        \/ UNCHANGED vars
      PROVE FieldsOK'
  <2>1. UNCHANGED <<link, starter, full, received, named, torrent, listed, watcher>>
    BY <1>24 DEF CancelFile, RemoveFile, SweepFile, Expire, SyncFile,
        OrphanSweep, SyncLink, SyncStray, SweepStart, Scan, Kill, Panic, vars,
        downloadVars, taskVars, diskVars, lifeVars
  <2>. QED  BY <2>1 DEF FieldsOK
<1>. QED  BY <1>1, <1>2, <1>3, <1>4, <1>5, <1>6, <1>7, <1>8, <1>9, <1>10,
      <1>11, <1>12, <1>13, <1>14, <1>15, <1>16, <1>17, <1>18, <1>19, <1>20,
      <1>21, <1>22, <1>23, <1>24 DEF Next, StarterStep, WatcherStep,
      RequestStep

(* The periodic tasks remember names and links only.                         *)
LEMMA TaskStep ==
    ASSUME TypeOK, [Next]_vars
    PROVE  TaskTypeOK'
<1> USE DEF TypeOK
<1>1. ASSUME NEW n \in Name, CancelSearch(n) \/ RemoveSearch(n)
      PROVE  TaskTypeOK'
  BY <1>1 DEF CancelSearch, RemoveSearch, Ask, TaskTypeOK
<1>2. ASSUME NEW n \in Name, RequestStep(n) PROVE TaskTypeOK'
  BY <1>2 DEF RequestStep, CancelFile, CancelDelist, RemoveDelist, RemoveFile,
      Ask, TaskTypeOK
<1>3. ASSUME NEW n \in Name, SweepFile(n) PROVE TaskTypeOK'
  BY <1>3 DEF SweepFile, NoSweep, MarkedBy, downloadVars, lifeVars,
      TaskTypeOK, DiskTypeOK
<1>4. CASE SweepStart
  BY <1>4 DEF SweepStart, OnDisk, downloadVars, diskVars, lifeVars,
      TaskTypeOK, DiskTypeOK
<1>5. CASE Scan
  BY <1>5 DEF Scan, Scanned, OnDisk, downloadVars, diskVars, lifeVars,
      TaskTypeOK, DiskTypeOK
<1>6. CASE Restart
  BY <1>6 DEF Restart, NoSweep, diskVars, TaskTypeOK, DiskTypeOK
<1>7. ASSUME
        \/ \E d \in Download : Start(d) \/ CreateMeta(d) \/ FetchMeta(d) \/
              AddTorrent(d) \/ AssignTorrent(d) \/ Check(d) \/ DownloadAll(d)
              \/ SendDone(d) \/ SetError(d) \/ UndoFile(d) \/ UndoMeta(d) \/ Write(d) \/
              Receive(d) \/ Timeout(d) \/ Inactive(d) \/ TickComplete(d) \/
              RemoveMeta(d) \/ SaveLink(d) \/ SetDone(d) \/ BotAnswers(d)
        \/ \E n \in Name : Expire(n) \/ SyncFile(n)
        \/ \E l \in Link : OrphanSweep(l) \/ SyncLink(l) \/ SyncStray(l)
        \/ Reap \/ Kill
        \/ UNCHANGED vars
      PROVE TaskTypeOK'
  <2>1. UNCHANGED <<request, localFiles, sweep>>
    BY <1>7 DEF Start, CreateMeta, FetchMeta, AddTorrent, AssignTorrent, Check,
        DownloadAll, SendDone, UndoFile, UndoMeta, Write, Receive, Timeout,
        Inactive, TickComplete, RemoveMeta, SaveLink, Expire, SyncFile,
        OrphanSweep, SyncLink, SyncStray, Reap, Kill, NewRecord, SetError,
        SetDone, BotAnswers, Watch, DropAndEnd, Panic, PanicOnNil, Goto, vars,
        downloadVars, taskVars, diskVars, lifeVars
  <2>. QED  BY <2>1 DEF TaskTypeOK
<1>. QED  BY <1>1, <1>2, <1>3, <1>4, <1>5, <1>6, <1>7 DEF Next, StarterStep,
      WatcherStep

(* The directory and the database hold names and links only.                 *)
LEMMA DiskStep ==
    ASSUME TypeOK, [Next]_vars
    PROVE  DiskTypeOK'
<1> USE DEF TypeOK
<1>1. ASSUME NEW d \in Download, CreateMeta(d) PROVE DiskTypeOK'
  BY <1>1 DEF CreateMeta, At, Goto, taskVars, lifeVars, RecordTypeOK,
      FieldsOK, DiskTypeOK
<1>2. ASSUME NEW d \in Download, UndoFile(d) PROVE DiskTypeOK'
  BY <1>2 DEF UndoFile, At, Goto, taskVars, lifeVars, RecordTypeOK, FieldsOK,
      DiskTypeOK
<1>3. ASSUME NEW d \in Download, UndoMeta(d) PROVE DiskTypeOK'
  BY <1>3 DEF UndoMeta, At, Goto, taskVars, lifeVars, RecordTypeOK, FieldsOK,
      DiskTypeOK
<1>4. ASSUME NEW d \in Download, Write(d) PROVE DiskTypeOK'
  BY <1>4 DEF Write, Goto, taskVars, lifeVars, RecordTypeOK, FieldsOK,
      DiskTypeOK
<1>5. ASSUME NEW d \in Download, Receive(d) PROVE DiskTypeOK'
  BY <1>5 DEF Receive, taskVars, lifeVars, RecordTypeOK, FieldsOK, DiskTypeOK
<1>6. ASSUME NEW d \in Download, RemoveMeta(d) PROVE DiskTypeOK'
  BY <1>6 DEF RemoveMeta, taskVars, lifeVars, RecordTypeOK, FieldsOK,
      DiskTypeOK
<1>7. ASSUME NEW d \in Download, SaveLink(d) PROVE DiskTypeOK'
  BY <1>7 DEF SaveLink, Goto, taskVars, lifeVars, RecordTypeOK, FieldsOK,
      DiskTypeOK
<1>8. ASSUME NEW n \in Name, CancelFile(n) PROVE DiskTypeOK'
  BY <1>8 DEF CancelFile, DiskTypeOK
<1>9. ASSUME NEW n \in Name, RemoveFile(n) PROVE DiskTypeOK'
  BY <1>9 DEF RemoveFile, DiskTypeOK
<1>10. ASSUME NEW n \in Name, SweepFile(n) PROVE DiskTypeOK'
  BY <1>10, LinkAssumption DEF SweepFile, NoSweep, MarkedBy, downloadVars,
      lifeVars, RecordTypeOK, FieldsOK, DiskTypeOK
<1>11. ASSUME NEW n \in Name, Expire(n) PROVE DiskTypeOK'
  BY <1>11 DEF Expire, downloadVars, taskVars, lifeVars, RecordTypeOK,
      FieldsOK, DiskTypeOK
<1>12. ASSUME NEW n \in Name, SyncFile(n) PROVE DiskTypeOK'
  BY <1>12 DEF SyncFile, downloadVars, taskVars, lifeVars, RecordTypeOK,
      FieldsOK, DiskTypeOK
<1>13. ASSUME NEW l \in Link, OrphanSweep(l) PROVE DiskTypeOK'
  BY <1>13 DEF OrphanSweep, downloadVars, taskVars, lifeVars, RecordTypeOK,
      FieldsOK, DiskTypeOK
<1>14. ASSUME NEW l \in Link, SyncLink(l) PROVE DiskTypeOK'
  BY <1>14 DEF SyncLink, downloadVars, taskVars, lifeVars, RecordTypeOK,
      FieldsOK, DiskTypeOK
<1>15. ASSUME NEW l \in Link, SyncStray(l) PROVE DiskTypeOK'
  BY <1>15 DEF SyncStray, downloadVars, taskVars, lifeVars, RecordTypeOK,
      FieldsOK, DiskTypeOK
<1>16. ASSUME
        \/ \E d \in Download : Start(d) \/ FetchMeta(d) \/ AddTorrent(d) \/
              AssignTorrent(d) \/ Check(d) \/ DownloadAll(d) \/ SendDone(d) \/ SetError(d) \/
              SetDone(d) \/ BotAnswers(d) \/
              Timeout(d) \/ Inactive(d) \/ TickComplete(d)
        \/ \E n \in Name : CancelSearch(n) \/ RemoveSearch(n) \/ CancelDelist(n)
              \/ RemoveDelist(n)
        \/ SweepStart \/ Reap \/ Scan \/ Kill \/ Restart
        \/ UNCHANGED vars
      PROVE DiskTypeOK'
  <2>1. UNCHANGED <<files, metaFiles, localLinks>>
    BY <1>16 DEF Start, FetchMeta, AddTorrent, AssignTorrent, Check,
        DownloadAll, SendDone, Timeout, Inactive, TickComplete, CancelSearch,
        RemoveSearch, CancelDelist, RemoveDelist, SweepStart, Reap, Scan, Kill,
        Restart, NewRecord, SetError, SetDone, BotAnswers, Watch, DropAndEnd,
        Panic, PanicOnNil, Goto, vars, downloadVars, taskVars, diskVars,
        lifeVars
  <2>. QED  BY <2>1 DEF DiskTypeOK
<1>. QED  BY <1>1, <1>2, <1>3, <1>4, <1>5, <1>6, <1>7, <1>8, <1>9, <1>10,
      <1>11, <1>12, <1>13, <1>14, <1>15, <1>16 DEF Next, StarterStep,
      WatcherStep, RequestStep

(* A process starts at most MaxStart downloads.                              *)
LEMMA LifeStep ==
    ASSUME TypeOK, [Next]_vars
    PROVE  LifeTypeOK'
<1> USE DEF TypeOK
<1>1. ASSUME NEW d \in Download, Start(d) PROVE LifeTypeOK'
  BY <1>1, LinkAssumption DEF Start, NewRecord, Unused, Goto, taskVars,
      diskVars, LifeTypeOK
<1>2. ASSUME NEW d \in Download, Timeout(d) PROVE LifeTypeOK'
  BY <1>2 DEF Timeout, DropAndEnd, PanicOnNil, Panic, downloadVars, taskVars,
      diskVars, lifeVars, LifeTypeOK
<1>3. ASSUME NEW d \in Download, Inactive(d) PROVE LifeTypeOK'
  BY <1>3 DEF Inactive, DropAndEnd, Panic, downloadVars, taskVars, diskVars,
      lifeVars, LifeTypeOK
<1>4. CASE Kill
  BY <1>4 DEF Kill, Panic, downloadVars, taskVars, diskVars, LifeTypeOK
<1>5. CASE Restart
  BY <1>5, LinkAssumption DEF Restart, NoSweep, diskVars, LifeTypeOK
<1>6. ASSUME
        \/ \E d \in Download : CreateMeta(d) \/ FetchMeta(d) \/
              AddTorrent(d) \/ AssignTorrent(d) \/ Check(d) \/ DownloadAll(d)
              \/ SendDone(d) \/ SetError(d) \/ UndoFile(d) \/ UndoMeta(d) \/ Write(d) \/
              Receive(d) \/ TickComplete(d) \/ RemoveMeta(d) \/ SaveLink(d)
              \/ SetDone(d) \/ BotAnswers(d)
        \/ \E n \in Name : CancelSearch(n) \/ RemoveSearch(n) \/
              RequestStep(n) \/ SweepFile(n) \/ Expire(n) \/ SyncFile(n)
        \/ \E l \in Link : OrphanSweep(l) \/ SyncLink(l) \/ SyncStray(l)
        \/ SweepStart \/ Reap \/ Scan
        \/ UNCHANGED vars
      PROVE LifeTypeOK'
  <2>1. UNCHANGED <<up, starts>>
    BY <1>6 DEF CreateMeta, FetchMeta, AddTorrent, AssignTorrent, Check,
        DownloadAll, SendDone, UndoFile, UndoMeta, Write, Receive,
        TickComplete, RemoveMeta, SaveLink, CancelSearch, RemoveSearch,
        RequestStep, CancelFile, CancelDelist, RemoveDelist, RemoveFile,
        SweepFile, Expire, SyncFile, OrphanSweep, SyncLink, SyncStray,
        SweepStart, Reap, Scan, SetError, SetDone, BotAnswers, Watch, Goto,
        vars, downloadVars, taskVars, diskVars, lifeVars
  <2>. QED  BY <2>1 DEF LifeTypeOK
<1>. QED  BY <1>1, <1>2, <1>3, <1>4, <1>5, <1>6 DEF Next, StarterStep,
      WatcherStep

(* A watcher that counted the file as complete recorded its size, and one    *)
(* that ended recorded that or an error, or leaves that to DownloadFile.     *)
LEMMA WatcherEndsOver ==
    ASSUME TypeOK, WatchersEnd, [Next]_vars
    PROVE  WatchersEnd'
<1> USE DEF TypeOK
<1>1. ASSUME NEW d \in Download, Start(d) PROVE WatchersEnd'
  BY <1>1 DEF Start, NewRecord, Unused, Goto, taskVars, diskVars,
      RecordTypeOK, WatchersEnd, IsOver
<1>2. ASSUME NEW d \in Download, SendDone(d) \/ SetError(d) PROVE WatchersEnd'
  BY <1>2 DEF SendDone, SetError, RecordError, Failing, Sent, Goto, taskVars,
      diskVars, lifeVars, RecordTypeOK, WatchersEnd, IsOver
<1>3. ASSUME NEW d \in Download, Timeout(d) PROVE WatchersEnd'
  BY <1>3 DEF Timeout, DropAndEnd, PanicOnNil, Panic, downloadVars, taskVars,
      diskVars, lifeVars, RecordTypeOK, WatchersEnd, IsOver
<1>4. ASSUME NEW d \in Download, Inactive(d) PROVE WatchersEnd'
  BY <1>4 DEF Inactive, DropAndEnd, Panic, downloadVars, taskVars, diskVars,
      lifeVars, RecordTypeOK, WatchersEnd, IsOver
<1>5. ASSUME NEW d \in Download, TickComplete(d) PROVE WatchersEnd'
  BY <1>5 DEF TickComplete, taskVars, diskVars, lifeVars, RecordTypeOK,
      WatchersEnd, IsOver
<1>6. ASSUME NEW d \in Download, RemoveMeta(d) \/ SetDone(d) \/ BotAnswers(d)
      PROVE  WatchersEnd'
  BY <1>6 DEF RemoveMeta, SetDone, BotAnswers, Watch, taskVars, lifeVars,
      RecordTypeOK, WatchersEnd, IsOver
<1>7. ASSUME NEW d \in Download, SaveLink(d) PROVE WatchersEnd'
  BY <1>7 DEF SaveLink, AfterLink, Goto, Failing, Sent, taskVars, lifeVars,
      RecordTypeOK, WatchersEnd, IsOver
<1>8. CASE Restart
  BY <1>8 DEF Restart, NoSweep, diskVars, RecordTypeOK, WatchersEnd, IsOver
<1>9. ASSUME
        \/ \E d \in Download : CreateMeta(d) \/ FetchMeta(d) \/
              AddTorrent(d) \/ AssignTorrent(d) \/ Check(d) \/ DownloadAll(d)
              \/ UndoFile(d) \/ UndoMeta(d) \/ Write(d) \/ Receive(d)
        \/ \E n \in Name : CancelSearch(n) \/ RemoveSearch(n) \/
              RequestStep(n) \/ SweepFile(n) \/ Expire(n) \/ SyncFile(n)
        \/ \E l \in Link : OrphanSweep(l) \/ SyncLink(l) \/ SyncStray(l)
        \/ SweepStart \/ Reap \/ Scan \/ Kill
        \/ UNCHANGED vars
      PROVE WatchersEnd'
  <2>1. /\ UNCHANGED <<watcher, full, failed>>
        /\ \A e \in Download : starter[e] \in Sent => starter'[e] \in Sent
    BY <1>9 DEF Failing, Sent, At, RecordTypeOK, CreateMeta, FetchMeta,
        AddTorrent, AssignTorrent, Check, DownloadAll, UndoFile, UndoMeta,
        Write, Receive, CancelSearch, RemoveSearch, RequestStep, CancelFile,
        CancelDelist, RemoveDelist, RemoveFile, SweepFile, Expire, SyncFile,
        OrphanSweep, SyncLink, SyncStray, SweepStart, Reap, Scan, Kill, Panic,
        Goto, vars, downloadVars, taskVars, diskVars, lifeVars
  <2>. QED  BY <2>1 DEF WatchersEnd, IsOver
<1>. QED  BY <1>1, <1>2, <1>3, <1>4, <1>5, <1>6, <1>7, <1>8, <1>9 DEF Next,
      StarterStep, WatcherStep

LEMMA InitialTypes == Init => TypeOK /\ WatchersEnd
<1> SUFFICES ASSUME Init PROVE TypeOK /\ WatchersEnd  OBVIOUS
<1>1. RecordTypeOK  BY DEF Init, RecordTypeOK, StarterLabel
<1>2. FieldsOK  BY DEF Init, FieldsOK
<1>3. TaskTypeOK  BY DEF Init, TaskTypeOK, NoSweep
<1>4. DiskTypeOK  BY DEF Init, DiskTypeOK
<1>5. LifeTypeOK  BY LinkAssumption DEF Init, LifeTypeOK
<1>6. WatchersEnd  BY DEF Init, WatchersEnd
<1>. QED  BY <1>1, <1>2, <1>3, <1>4, <1>5, <1>6 DEF TypeOK

(* The records of downloads, the list, the tasks, the directory and the      *)
(* database are what they should be in every reachable state.                *)
THEOREM TypeCorrect == Spec => []TypeOK
<1>1. TypeOK /\ [Next]_vars => TypeOK'
  BY RecordStep, FieldsStep, TaskStep, DiskStep, LifeStep DEF TypeOK
<1>. QED  BY <1>1, InitialTypes, PTL DEF Spec

(* GetDownloadingFiles can take every entry whose watcher no longer watches: *)
(* whatever DownloadFile, its watcher, the cancellations and the panics do,  *)
(* no entry holds a place of the download concurrency for ever.              *)
THEOREM NoZombies == Spec => []NoZombieEntry
<1>1. TypeOK /\ WatchersEnd /\ [Next]_vars => WatchersEnd'
  BY WatcherEndsOver
<1>2. TypeOK /\ WatchersEnd => NoZombieEntry
  BY DEF TypeOK, RecordTypeOK, FieldsOK, WatchersEnd, NoZombieEntry, IsOver
<1>. QED  BY <1>1, <1>2, TypeCorrect, InitialTypes, PTL DEF Spec

-----------------------------------------------------------------------------
(* The list as the abstract DownloadList.                                    *)

(* DownloadFile adds an entry for a link that none has.                      *)
Twinless == \A d, e \in listed : link[d] = link[e] => d = e

(* The record that Start takes is in no entry of the list.                   *)
LEMMA StartsUnlisted ==
    ASSUME TypeOK, NEW d \in Download, Start(d)
    PROVE  d \notin listed
BY DEF Start, Unused, TypeOK, RecordTypeOK, FieldsOK

(* Links and places in the list change only where an entry is added or goes. *)
LEMMA ListedKeepLinks ==
    ASSUME TypeOK, [Next]_vars, ~(\E d \in Download : Start(d)), ~Restart
    PROVE  link' = link /\ listed' \subseteq listed
BY DEF Next, StarterStep, WatcherStep, CreateMeta, FetchMeta, AddTorrent,
    AssignTorrent, Check, DownloadAll, SendDone, SetError, UndoFile, UndoMeta,
    Write, Receive, Timeout, Inactive, DropAndEnd, PanicOnNil, Panic,
    TickComplete, RemoveMeta, SaveLink, SetDone, BotAnswers, Watch,
    CancelSearch, RemoveSearch, RequestStep, CancelFile, CancelDelist,
    RemoveDelist, Delist, RemoveFile, SweepFile, Expire, SyncFile, OrphanSweep,
    SyncLink, SyncStray, SweepStart, Reap, Scan, Kill, vars, downloadVars

LEMMA TwinlessStep ==
    ASSUME TypeOK, Twinless, [Next]_vars
    PROVE  Twinless'
<1>1. ASSUME NEW d \in Download, Start(d) PROVE Twinless'
  <2>1. PICK l \in Link :
          (\A e \in listed : link[e] # l) /\ link' = [link EXCEPT ![d] = l]
    BY <1>1 DEF Start
  <2>2. listed' = listed \cup {d} /\ listed \subseteq Download
    BY <1>1 DEF Start, TypeOK, RecordTypeOK
  <2>3. link'[d] = l /\ \A e \in listed : link'[e] = link[e]
    BY <1>1, <2>1, <2>2, StartsUnlisted DEF TypeOK, RecordTypeOK
  <2>. QED  BY <2>1, <2>2, <2>3 DEF Twinless
<1>2. CASE Restart
  BY <1>2 DEF Restart, Twinless
<1>. QED  BY <1>1, <1>2, ListedKeepLinks DEF Twinless

(* A step that records an end, in one field or the other, ends one link of   *)
(* the list, or none when its entry was over or is gone.                     *)
LEMMA OneEnds ==
    ASSUME TypeOK, Twinless, NEW d \in Download,
           link' = link, listed' = listed,
           full' \cup failed' = full \cup failed \cup {d}
    PROVE  Entries!Next \/ UNCHANGED Entries!listVars
<1>1. \A e \in listed : IsOver(e)' <=> IsOver(e) \/ e = d
  BY DEF IsOver
<1>2. CASE d \in listed /\ ~IsOver(d)
  <2>1. \A e \in listed : link[e] = link[d] => e = d
    BY <1>2 DEF Twinless
  <2>2. GoingLinks' = GoingLinks \ {link[d]}
    BY <1>1, <1>2, <2>1 DEF GoingLinks
  <2>3. OverLinks' = OverLinks \cup {link[d]}
    BY <1>1, <1>2, <2>1 DEF OverLinks
  <2>4. link[d] \in Link
    BY <1>2 DEF TypeOK, RecordTypeOK, FieldsOK
  <2>5. link[d] \in GoingLinks
    BY <1>2 DEF GoingLinks
  <2>. QED
    BY <2>2, <2>3, <2>4, <2>5 DEF Entries!Next, Entries!End
<1>3. CASE ~(d \in listed /\ ~IsOver(d))
  <2>1. \A e \in listed : IsOver(e)' <=> IsOver(e)
    BY <1>1, <1>3
  <2>2. GoingLinks' = GoingLinks /\ OverLinks' = OverLinks
    BY <2>1 DEF GoingLinks, OverLinks
  <2>. QED  BY <2>2 DEF Entries!listVars
<1>. QED  BY <1>2, <1>3

LEMMA OneAdded ==
    ASSUME TypeOK, NEW d \in Download, Start(d)
    PROVE  Entries!Next
<1>1. PICK l \in Link :
        (\A e \in listed : link[e] # l) /\ link' = [link EXCEPT ![d] = l]
  BY DEF Start
<1>2. /\ listed' = listed \cup {d} /\ full' = full \ {d} /\ failed' = failed \ {d}
      /\ listed \subseteq Download
  BY DEF Start, TypeOK, RecordTypeOK
<1>3. link'[d] = l /\ ~IsOver(d)'
  BY <1>1, <1>2 DEF TypeOK, RecordTypeOK, IsOver
<1>4. \A e \in listed : link'[e] = link[e] /\ (IsOver(e)' <=> IsOver(e))
  BY <1>1, <1>2, StartsUnlisted DEF TypeOK, RecordTypeOK, IsOver
<1>5. GoingLinks' = GoingLinks \cup {l}
  BY <1>2, <1>3, <1>4 DEF GoingLinks
<1>6. OverLinks' = OverLinks
  BY <1>2, <1>3, <1>4 DEF OverLinks
<1>7. l \notin GoingLinks \cup OverLinks
  BY <1>1 DEF GoingLinks, OverLinks
<1>. QED
  BY <1>5, <1>6, <1>7 DEF Entries!Next, Entries!Add

(* A cancellation takes whole entries, and each has its link for itself.     *)
LEMMA SomeDropped ==
    ASSUME Twinless, link' = link, listed' \subseteq listed,
           full' = full, failed' = failed
    PROVE  Entries!Next
<1>. DEFINE gone == {link[d] : d \in listed \ listed'}
<1>1. \A d \in listed : link[d] \in gone <=> d \notin listed'
  BY DEF Twinless
<1>2. \A d \in listed : IsOver(d)' <=> IsOver(d)
  BY DEF IsOver
<1>3. gone \in SUBSET (GoingLinks \cup OverLinks)
  BY DEF GoingLinks, OverLinks
<1>. HIDE DEF gone
<1>4. GoingLinks' = GoingLinks \ gone
  BY <1>1, <1>2 DEF GoingLinks
<1>5. OverLinks' = OverLinks \ gone
  BY <1>1, <1>2 DEF OverLinks
<1>. QED
  BY <1>3, <1>4, <1>5 DEF Entries!Next, Entries!Drop

LEMMA ListSimulation ==
    TypeOK /\ Twinless /\ [Next]_vars => [Entries!Next]_Entries!listVars
<1>. SUFFICES ASSUME TypeOK, Twinless, [Next]_vars
              PROVE  Entries!Next \/ UNCHANGED Entries!listVars
  OBVIOUS
<1>1. ASSUME NEW d \in Download, SetError(d) \/ TickComplete(d) \/ DropAndEnd(d)
      PROVE  Entries!Next \/ UNCHANGED Entries!listVars
  <2>1. /\ link' = link /\ listed' = listed
        /\ full' \cup failed' = full \cup failed \cup {d}
    BY <1>1 DEF SetError, RecordError, TickComplete, DropAndEnd
  <2>. QED  BY <2>1, OneEnds
<1>2. CASE Reap
  <2>1. /\ link' = link /\ full' = full /\ failed' = failed
        /\ listed' = {d \in listed : ~IsOver(d)}
    BY <1>2 DEF Reap
  <2>2. \A d \in listed : IsOver(d)' <=> IsOver(d)
    BY <2>1 DEF IsOver
  <2>3. GoingLinks' = GoingLinks /\ OverLinks' = {}
    BY <2>1, <2>2 DEF GoingLinks, OverLinks
  <2>. QED  BY <2>3 DEF Entries!Next, Entries!Reap
<1>3. ASSUME NEW n \in Name, CancelDelist(n) \/ RemoveDelist(n)
      PROVE  Entries!Next
  <2>1. link' = link /\ listed' \subseteq listed /\ full' = full /\ failed' = failed
    BY <1>3 DEF CancelDelist, RemoveDelist, Delist
  <2>. QED  BY <2>1, SomeDropped
<1>4. CASE Restart
  <2>. DEFINE links == GoingLinks \cup OverLinks
  <2>1. GoingLinks' = {} /\ OverLinks' = {}
    BY <1>4 DEF Restart, GoingLinks, OverLinks
  <2>2. /\ links \in SUBSET (GoingLinks \cup OverLinks)
        /\ GoingLinks' = GoingLinks \ links /\ OverLinks' = OverLinks \ links
    BY <2>1
  <2>. QED  BY <2>2 DEF Entries!Next, Entries!Drop
<1>5. ASSUME
        \/ \E d \in Download : CreateMeta(d) \/ FetchMeta(d) \/
              AddTorrent(d) \/ AssignTorrent(d) \/ Check(d) \/ DownloadAll(d)
              \/ UndoFile(d) \/ UndoMeta(d) \/ Write(d) \/ Receive(d)
              \/ RemoveMeta(d) \/ SaveLink(d) \/ SetDone(d) \/ BotAnswers(d)
              \/ SendDone(d)
        \/ \E n \in Name : CancelSearch(n) \/ RemoveSearch(n) \/ CancelFile(n)
              \/ RemoveFile(n) \/ SweepFile(n) \/ Expire(n) \/ SyncFile(n)
        \/ \E l \in Link : OrphanSweep(l) \/ SyncLink(l) \/ SyncStray(l)
        \/ SweepStart \/ Scan \/ Panic
        \/ UNCHANGED vars
      PROVE UNCHANGED Entries!listVars
  <2>1. UNCHANGED <<link, listed, full, failed>>
    BY <1>5 DEF CreateMeta, FetchMeta, AddTorrent, AssignTorrent, Check,
        DownloadAll, UndoFile, UndoMeta, Write, Receive, RemoveMeta, SaveLink,
        SetDone, BotAnswers, Watch, SendDone, CancelSearch, RemoveSearch,
        CancelFile, RemoveFile, SweepFile, Expire, SyncFile, OrphanSweep,
        SyncLink, SyncStray, SweepStart, Scan, Panic, vars, downloadVars
  <2>. QED  BY <2>1 DEF Entries!listVars, GoingLinks, OverLinks, IsOver
<1>6. \A d \in Download : Timeout(d) \/ Inactive(d) => DropAndEnd(d) \/ Panic
  BY DEF Timeout, Inactive, PanicOnNil
<1>7. Kill => Panic
  BY DEF Kill
<1>. QED  BY <1>1, <1>2, <1>3, <1>4, <1>5, <1>6, <1>7, OneAdded
      DEF Next, StarterStep, WatcherStep, RequestStep

(* Statement by statement, with two goroutines that both set the fields by   *)
(* which an entry is over, cancellations that drop torrents first, panics    *)
(* and restarts, the list is the DownloadList that Admission relies on.      *)
THEOREM ListImplemented == Spec => ImplementsList
<1>1. Init => Entries!Init /\ Twinless
  BY DEF Init, Entries!Init, GoingLinks, OverLinks, Twinless
<1>2. TypeOK /\ Twinless /\ [Next]_vars => Twinless'
  BY TwinlessStep
<1>. QED  BY <1>1, <1>2, TypeCorrect, ListSimulation, PTL
      DEF Spec, ImplementsList, Entries!Spec

-----------------------------------------------------------------------------
(* A watcher that is gone does not come back for the send of DownloadFile.   *)
LEMMA HangStays ==
    ASSUME TypeOK, [Next]_vars, NEW d \in Download, Hangs(d), up
    PROVE  Hangs(d)'
<1>1. /\ starter[d] \in Failing /\ watcher[d] = "ended"
      /\ starter \in [Download -> StarterLabel]
      /\ DOMAIN watcher = Download
  BY DEF Hangs, TypeOK, RecordTypeOK
<1>2. ASSUME NEW e \in Download,
             Start(e) \/ FetchMeta(e) \/ StarterStep(e) \/ Write(e)
      PROVE  starter'[d] = starter[d] /\ watcher'[d] = watcher[d]
  <2>1. e # d
    BY <1>1, <1>2 DEF Start, Unused, FetchMeta, StarterStep, CreateMeta,
        AddTorrent, AssignTorrent, Check, DownloadAll, SendDone, SetError,
        UndoFile, UndoMeta, Write, At, Failing, Sent
  <2>. QED
    BY <1>1, <1>2, <2>1 DEF Start, FetchMeta, StarterStep, CreateMeta,
        AddTorrent, AssignTorrent, Check, DownloadAll, SendDone, SetError,
        UndoFile, UndoMeta, Write, Goto
<1>3. ASSUME NEW e \in Download, Timeout(e) \/ Inactive(e) \/ WatcherStep(e) \/ BotAnswers(e)
      PROVE  starter'[d] = starter[d] /\ watcher'[d] = watcher[d]
  <2>1. e # d
    BY <1>1, <1>3 DEF Timeout, Inactive, WatcherStep, TickComplete, RemoveMeta,
        SaveLink, SetDone, BotAnswers, Watch
  <2>. QED
    BY <1>1, <1>3, <2>1 DEF Timeout, Inactive, DropAndEnd, PanicOnNil, Panic,
        WatcherStep, TickComplete, RemoveMeta, SaveLink, AfterLink, SetDone,
        BotAnswers, Watch, Goto, downloadVars
<1>4. ASSUME
        \/ \E e \in Download : Receive(e)
        \/ \E n \in Name : CancelSearch(n) \/ RemoveSearch(n) \/ RequestStep(n)
              \/ SweepFile(n) \/ Expire(n) \/ SyncFile(n)
        \/ \E l \in Link : OrphanSweep(l) \/ SyncLink(l) \/ SyncStray(l)
        \/ SweepStart \/ Reap \/ Scan \/ Kill
        \/ UNCHANGED vars
      PROVE UNCHANGED <<starter, watcher>>
  BY <1>4 DEF Receive, CancelSearch, RemoveSearch, RequestStep,
      CancelFile, CancelDelist, RemoveDelist, RemoveFile, SweepFile,
      Expire, SyncFile, OrphanSweep, SyncLink, SyncStray, SweepStart, Reap,
      Scan, Kill, Panic, vars, downloadVars
<1>5. ~Restart
  BY DEF Restart
<1>6. starter'[d] = starter[d] /\ watcher'[d] = watcher[d]
  BY <1>2, <1>3, <1>4, <1>5 DEF Next
<1>. QED  BY <1>1, <1>6 DEF Hangs

(* When the watcher ended before the deferred send, as a timeout in the      *)
(* middle of CheckFileExistAndSize may have it, DownloadFile never returns:  *)
(* neither cancellations nor the cleaners bring the queue worker back.       *)
THEOREM HungForGood == Spec => HangsForGood
<1>. DEFINE Stays == \A d \in Download : Hangs(d) /\ up => Hangs(d)'
<1>1. TypeOK /\ [Next]_vars => [Stays]_vars
  BY HangStays
<1>2. Spec => [][Stays]_vars
  BY <1>1, TypeCorrect, PTL DEF Spec
<1>. QED  BY <1>2 DEF HangsForGood
=============================================================================
