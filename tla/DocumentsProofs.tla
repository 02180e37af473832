--------------------------- MODULE DocumentsProofs --------------------------
(* The documents and the download directory, for any movies, serials, files  *)
(* and bounds: types, and that a link is kept as long as its file is there.  *)
EXTENDS Documents, TLAPS

(* What the scan has not seen is fresh, and what is being removed was asked  *)
(* for.                                                                      *)
SeenOrFresh == files \subseteq localFiles \cup fresh
AskedFor ==
    /\ \A d \in Doc : removeLinks[d] \subseteq unwanted
    /\ \A x \in autoTodo : x[2] \in unwanted
KeepInv == SeenOrFresh /\ AskedFor

(* An update keeps the types, and changes matching slots only.               *)
LEMMA SetType ==
    ASSUME TypeOK, NEW d, NEW part, NEW match,
           NEW value \in File \cup {NoFile}, Set(d, part, match, value)
    PROVE  /\ localLink' \in [Slot -> File \cup {NoFile}]
           /\ \A s \in Slot : localLink'[s] # localLink[s]
                                 => s \in match /\ localLink'[s] = value
BY DEF TypeOK, Set, FirstOf, Matching

(* So does the update of one document, whichever it is.                      *)
LEMMA UpdateType ==
    ASSUME TypeOK, NEW part, NEW match,
           NEW value \in File \cup {NoFile}, UpdateOne(part, match, value)
    PROVE  /\ localLink' \in [Slot -> File \cup {NoFile}]
           /\ \A s \in Slot : localLink'[s] # localLink[s]
                                 => s \in match /\ localLink'[s] = value
<1>1. CASE \E s \in Matching(part, match) : Set(s.doc, part, match, value)
  BY <1>1, SetType
<1>2. CASE UNCHANGED localLink
  BY <1>2 DEF TypeOK
<1>. QED
  BY <1>1, <1>2 DEF UpdateOne

(* What a query for local links returns.                                     *)
LEMMA CursorType ==
    ASSUME TypeOK, NEW part
    PROVE  GetAllTorrentLocalLinks(part) \subseteq Slot \X File
BY DEF TypeOK, GetAllTorrentLocalLinks, Matching

(* Saving the local link of a download keeps the types, and clears no link.  *)
LEMMA SaveType ==
    ASSUME TypeOK, NEW d \in Doc, NEW l \in Link, SaveTorrentLocalLink(d, l)
    PROVE  /\ localLink' \in [Slot -> File \cup {NoFile}]
           /\ downloadLinks' \in [Doc -> SUBSET Link]
           /\ \A s \in Slot : localLink'[s] = NoFile => localLink[s] = NoFile
<1>1. FileOf[l] \in File /\ FileOf[l] # NoFile
  BY DocumentAssumption
<1>2. UpdateOne(TypeOf[d], {s \in WithLink(l) : s.doc = d}, FileOf[l])
  BY DEF SaveTorrentLocalLink
<1>3. downloadLinks' \in [Doc -> SUBSET Link]
  BY DEF SaveTorrentLocalLink, TypeOK
<1>. QED
  BY <1>1, <1>2, <1>3, UpdateType

(* Removing a link from a document keeps the types, and clears that link's   *)
(* slots only.                                                               *)
LEMMA PullType ==
    ASSUME TypeOK, NEW d \in Doc, NEW l \in Link, PullRemoveLink(d, l)
    PROVE  /\ localLink' \in [Slot -> File \cup {NoFile}]
           /\ downloadLinks' \in [Doc -> SUBSET Link]
           /\ \A s \in Slot : localLink'[s] # localLink[s] => s.link = l
<1> DEFINE slots == Matching(TypeOf[d], WithLink(l))
<1>1. CASE UNCHANGED <<localLink, downloadLinks>>
  BY <1>1 DEF TypeOK
<1>2. ASSUME NEW s \in slots, Set(s.doc, TypeOf[d], slots, NoFile),
             downloadLinks' = [downloadLinks EXCEPT ![s.doc] = @ \ {l}]
      PROVE  /\ localLink' \in [Slot -> File \cup {NoFile}]
             /\ downloadLinks' \in [Doc -> SUBSET Link]
             /\ \A x \in Slot : localLink'[x] # localLink[x] => x.link = l
  <2>1. downloadLinks' \in [Doc -> SUBSET Link]
    BY <1>2 DEF TypeOK
  <2>2. /\ localLink' \in [Slot -> File \cup {NoFile}]
        /\ \A x \in Slot : localLink'[x] # localLink[x] => x \in slots
    BY <1>2, SetType
  <2>. QED
    BY <2>1, <2>2 DEF Matching, WithLink
<1>. QED
  BY <1>1, <1>2 DEF PullRemoveLink

(* Types are kept.                                                           *)
LEMMA TypeStep ==
    ASSUME TypeOK, [Next]_vars
    PROVE  TypeOK'
<1> USE DocumentAssumption DEF TypeOK, MuxFree, Fails, autoVars, linkVars,
        syncVars, diskVars, listVars
<1>1. ASSUME NEW d \in Doc, NEW l \in Link, DownloadFile(d, l)
      PROVE  TypeOK'
  BY <1>1 DEF DownloadFile
<1>2. ASSUME NEW d \in Doc, NEW l \in Link, DownloadDone(d, l)
      PROVE  TypeOK'
  BY <1>2 DEF DownloadDone
<1>3. ASSUME NEW d \in Doc, NEW l \in Link, DownloadFails(d, l)
      PROVE  TypeOK'
  BY <1>3 DEF DownloadFails
<1>4. ASSUME NEW d \in Doc, NEW l \in Link, AskDownload(d, l)
      PROVE  TypeOK'
  BY <1>4 DEF AskDownload
<1>5. ASSUME NEW d \in Doc, NEW l \in Link, AskRemoval(d, l)
      PROVE  TypeOK'
  BY <1>5 DEF AskRemoval
<1>6. ASSUME NEW f \in File, RemoveDownload(f)
      PROVE  TypeOK'
  BY <1>6 DEF RemoveDownload
<1>7. ASSUME NEW f \in File, RemoveExpired(f)
      PROVE  TypeOK'
  BY <1>7, UpdateType DEF RemoveExpired, RemoveTorrentLocalLink, WithLocalLink
<1>8. CASE GetLocalFiles
  BY <1>8 DEF GetLocalFiles, Scanned
<1>9. CASE GetTorrentAutoDownloaderLinks
  BY <1>9 DEF GetTorrentAutoDownloaderLinks, RemovalsAsked
<1>10. CASE AutoFilesStart
  BY <1>10 DEF AutoFilesStart
<1>11. ASSUME NEW d \in Doc, NEW l \in Link, PullRemoveLink(d, l)
      PROVE  TypeOK'
  <2>1. /\ localLink' \in [Slot -> File \cup {NoFile}]
        /\ downloadLinks' \in [Doc -> SUBSET Link]
    BY <1>11, PullType
  <2>2. failures' \in 0 .. MaxFailure
    BY <1>11 DEF PullRemoveLink
  <2>3. /\ autoTodo' \subseteq Doc \X Link /\ autoFiles' \in BOOLEAN
        /\ UNCHANGED <<removeLinks, unwanted, diskVars, listVars, syncVars, asks>>
    BY <1>11 DEF PullRemoveLink
  <2>. QED
    BY <2>1, <2>2, <2>3
<1>12. CASE SyncStart
  BY <1>12, CursorType DEF SyncStart
<1>13. CASE SyncFilesStart
  BY <1>13 DEF SyncFilesStart
<1>14. CASE HandleTorrentLinksRemoveCursor
  BY <1>14, UpdateType DEF HandleTorrentLinksRemoveCursor,
      RemoveTorrentLocalLink, SyncPart, WithLocalLink
<1>15. CASE SyncMovies
  BY <1>15, CursorType DEF SyncMovies
<1>16. CASE SyncLinksEnd
  BY <1>16 DEF SyncLinksEnd
<1>17. ASSUME NEW b \in SUBSET localFiles, FindTorrentLinks(b)
      PROVE  TypeOK'
  BY <1>17 DEF FindTorrentLinks, BatchReady
<1>18. ASSUME NEW f \in File, RemoveNotFound(f)
      PROVE  TypeOK'
  BY <1>18 DEF RemoveNotFound
<1>19. CASE SyncEnd
  BY <1>19 DEF SyncEnd
<1>20. ASSUME NEW d \in Doc, NEW l \in Link, SaveLink(d, l)
      PROVE  TypeOK'
  BY <1>20, SaveType DEF SaveLink
<1>21. CASE GetDownloadingFiles
  BY <1>21 DEF GetDownloadingFiles
<1>22. CASE UNCHANGED vars
  BY <1>22 DEF vars
<1>. QED
  BY <1>1, <1>2, <1>3, <1>4, <1>5, <1>6, <1>7, <1>8, <1>9, <1>10, <1>11, <1>12,
      <1>13, <1>14, <1>15, <1>16, <1>17, <1>18, <1>19, <1>20, <1>21, <1>22 DEF
      Next, SyncStep, AutoStep

(* Every value a run reaches has its type.                                   *)
THEOREM TypeCorrect == Spec => []TypeOK
<1>1. Init => TypeOK
  <2> SUFFICES ASSUME Init PROVE TypeOK
    OBVIOUS
  <2>1. asks \in 0 .. MaxAsk /\ failures \in 0 .. MaxFailure
    BY DocumentAssumption DEF Init
  <2>2. /\ localLink \in [Slot -> File \cup {NoFile}]
        /\ removeLinks \in [Doc -> SUBSET Link]
        /\ downloadLinks \in [Doc -> SUBSET Link]
    BY DEF Init
  <2>. QED
    BY <2>1, <2>2 DEF Init, TypeOK
<1>. QED
  BY <1>1, TypeStep, PTL DEF Spec

(* Only a scan takes a file from the fresh ones, and it lists it.            *)
LEMMA KeepStep ==
    ASSUME TypeOK, KeepInv, [Next]_vars
    PROVE  KeepInv'
<1> USE DEF TypeOK, KeepInv, SeenOrFresh, AskedFor, MuxFree, Fails, autoVars,
        linkVars, syncVars, diskVars, listVars
<1>1. ASSUME NEW d \in Doc, NEW l \in Link, DownloadFile(d, l)
      PROVE  KeepInv'
  BY <1>1 DEF DownloadFile
<1>2. ASSUME NEW d \in Doc, NEW l \in Link, DownloadDone(d, l)
      PROVE  KeepInv'
  BY <1>2 DEF DownloadDone
<1>3. ASSUME NEW d \in Doc, NEW l \in Link, DownloadFails(d, l)
      PROVE  KeepInv'
  BY <1>3 DEF DownloadFails
<1>4. ASSUME NEW d \in Doc, NEW l \in Link, AskDownload(d, l)
      PROVE  KeepInv'
  BY <1>4 DEF AskDownload
<1>5. ASSUME NEW d \in Doc, NEW l \in Link, AskRemoval(d, l)
      PROVE  KeepInv'
  BY <1>5 DEF AskRemoval
<1>6. ASSUME NEW f \in File, RemoveDownload(f)
      PROVE  KeepInv'
  BY <1>6 DEF RemoveDownload
<1>7. ASSUME NEW f \in File, RemoveExpired(f)
      PROVE  KeepInv'
  BY <1>7 DEF RemoveExpired, RemoveTorrentLocalLink, WithLocalLink
<1>8. CASE GetLocalFiles
  BY <1>8 DEF GetLocalFiles, Scanned
<1>9. CASE GetTorrentAutoDownloaderLinks
  BY <1>9 DEF GetTorrentAutoDownloaderLinks, RemovalsAsked
<1>10. CASE AutoFilesStart
  BY <1>10 DEF AutoFilesStart
<1>11. ASSUME NEW d \in Doc, NEW l \in Link, PullRemoveLink(d, l)
      PROVE  KeepInv'
  BY <1>11 DEF PullRemoveLink
<1>12. CASE SyncStart
  BY <1>12 DEF SyncStart
<1>13. CASE SyncFilesStart
  BY <1>13 DEF SyncFilesStart
<1>14. CASE HandleTorrentLinksRemoveCursor
  BY <1>14 DEF HandleTorrentLinksRemoveCursor, RemoveTorrentLocalLink,
      SyncPart, WithLocalLink
<1>15. CASE SyncMovies
  BY <1>15 DEF SyncMovies
<1>16. CASE SyncLinksEnd
  BY <1>16 DEF SyncLinksEnd
<1>17. ASSUME NEW b \in SUBSET localFiles, FindTorrentLinks(b)
      PROVE  KeepInv'
  BY <1>17 DEF FindTorrentLinks, BatchReady
<1>18. ASSUME NEW f \in File, RemoveNotFound(f)
      PROVE  KeepInv'
  BY <1>18 DEF RemoveNotFound
<1>19. CASE SyncEnd
  BY <1>19 DEF SyncEnd
<1>20. ASSUME NEW d \in Doc, NEW l \in Link, SaveLink(d, l)
      PROVE  KeepInv'
  BY <1>20, SaveType DEF SaveLink
<1>21. CASE GetDownloadingFiles
  BY <1>21 DEF GetDownloadingFiles
<1>22. CASE UNCHANGED vars
  BY <1>22 DEF vars
<1>. QED
  BY <1>1, <1>2, <1>3, <1>4, <1>5, <1>6, <1>7, <1>8, <1>9, <1>10, <1>11, <1>12,
      <1>13, <1>14, <1>15, <1>16, <1>17, <1>18, <1>19, <1>20, <1>21, <1>22 DEF
      Next, SyncStep, AutoStep

(* The step the theorem is about.                                            *)
Keeps ==
    \A s \in Slot :
       /\ localLink[s] \in files'
       /\ localLink'[s] = NoFile
       => s.link \in unwanted \/ localLink[s] \in fresh

(* Only an expiry, a removal and the sync clear a link.                      *)
LEMMA LinkStep ==
    ASSUME TypeOK, KeepInv, [Next]_vars
    PROVE  Keeps
<1> USE DocumentAssumption DEF TypeOK, KeepInv, SeenOrFresh, AskedFor, Keeps,
        MuxFree, Fails, autoVars, linkVars, syncVars, diskVars, listVars
<1>1. ASSUME NEW d \in Doc, NEW l \in Link, DownloadFile(d, l)
      PROVE  Keeps
  BY <1>1 DEF DownloadFile
<1>2. ASSUME NEW d \in Doc, NEW l \in Link, DownloadDone(d, l)
      PROVE  Keeps
  BY <1>2 DEF DownloadDone
<1>3. ASSUME NEW d \in Doc, NEW l \in Link, DownloadFails(d, l)
      PROVE  Keeps
  BY <1>3 DEF DownloadFails
<1>4. ASSUME NEW d \in Doc, NEW l \in Link, AskDownload(d, l)
      PROVE  Keeps
  BY <1>4 DEF AskDownload
<1>5. ASSUME NEW d \in Doc, NEW l \in Link, AskRemoval(d, l)
      PROVE  Keeps
  BY <1>5 DEF AskRemoval
<1>6. ASSUME NEW f \in File, RemoveDownload(f)
      PROVE  Keeps
  BY <1>6 DEF RemoveDownload
<1>7. ASSUME NEW f \in File, RemoveExpired(f)
      PROVE  Keeps
  BY <1>7, UpdateType DEF RemoveExpired, RemoveTorrentLocalLink, WithLocalLink
<1>8. CASE GetLocalFiles
  BY <1>8 DEF GetLocalFiles, Scanned
<1>9. CASE GetTorrentAutoDownloaderLinks
  BY <1>9 DEF GetTorrentAutoDownloaderLinks, RemovalsAsked
<1>10. CASE AutoFilesStart
  BY <1>10 DEF AutoFilesStart
<1>11. ASSUME NEW d \in Doc, NEW l \in Link, PullRemoveLink(d, l)
      PROVE  Keeps
  <2>1. l \in unwanted
    BY <1>11 DEF PullRemoveLink
  <2>2. \A s \in Slot : localLink'[s] # localLink[s] => s.link = l
    BY <1>11, PullType
  <2>3. files' = files
    BY <1>11 DEF PullRemoveLink
  <2>. QED
    BY <2>1, <2>2, <2>3
<1>12. CASE SyncStart
  BY <1>12, CursorType DEF SyncStart
<1>13. CASE SyncFilesStart
  BY <1>13 DEF SyncFilesStart
<1>14. CASE HandleTorrentLinksRemoveCursor
  BY <1>14, UpdateType DEF HandleTorrentLinksRemoveCursor,
      RemoveTorrentLocalLink, SyncPart, WithLocalLink
<1>15. CASE SyncMovies
  BY <1>15, CursorType DEF SyncMovies
<1>16. CASE SyncLinksEnd
  BY <1>16 DEF SyncLinksEnd
<1>17. ASSUME NEW b \in SUBSET localFiles, FindTorrentLinks(b)
      PROVE  Keeps
  BY <1>17 DEF FindTorrentLinks, BatchReady
<1>18. ASSUME NEW f \in File, RemoveNotFound(f)
      PROVE  Keeps
  BY <1>18 DEF RemoveNotFound
<1>19. CASE SyncEnd
  BY <1>19 DEF SyncEnd
<1>20. ASSUME NEW d \in Doc, NEW l \in Link, SaveLink(d, l)
      PROVE  Keeps
  BY <1>20, SaveType DEF SaveLink
<1>21. CASE GetDownloadingFiles
  BY <1>21 DEF GetDownloadingFiles
<1>22. CASE UNCHANGED vars
  BY <1>22 DEF vars
<1>. QED
  BY <1>1, <1>2, <1>3, <1>4, <1>5, <1>6, <1>7, <1>8, <1>9, <1>10, <1>11, <1>12,
      <1>13, <1>14, <1>15, <1>16, <1>17, <1>18, <1>19, <1>20, <1>21, <1>22 DEF
      Next, SyncStep, AutoStep

(* The local link of a file that is there is cleared only when somebody      *)
(* asked to remove its link, or when no scan has listed the file yet.        *)
THEOREM LinkKept == Spec => PresentKeepsLink
<1>1. Init => KeepInv
  BY DEF Init, KeepInv, SeenOrFresh, AskedFor
<1>2. TypeOK /\ KeepInv /\ [Next]_vars => [Keeps]_vars
  BY LinkStep
<1>. QED
  BY <1>1, <1>2, KeepStep, TypeCorrect, PTL DEF Spec, PresentKeepsLink, Keeps

=============================================================================
