-------------------------- MODULE ConversionProofs --------------------------
(* Streaming and conversion for any movies, requests and bounds: who has the *)
(* mutex, what the status says, whose an unfinished mp4 is, and that none is *)
(* streamed.                                                                 *)
EXTENDS Conversion, TLAPS

(* A request that has not opened its mp4 yet will find it whole, or has a    *)
(* reason not to: nobody is converting it again unless it was removed.       *)
WillStream(r) ==
    /\ requests[r].seen # "none" => At(r, "streaming") \/ At(r, "ffmpeg")
    /\ At(r, "ffmpeg") =>
          /\ requests[r].seen # "none"
          /\ r \in removedSince \/ mp4[MovieOf(r)] = "partial"
    /\ Ready(r) => \/ MovieOf(r) \in torn
                   \/ r \in removedSince
                   \/ /\ mp4[MovieOf(r)] = "whole"
                      /\ \A q \in Request : Converting(q) => MovieOf(q) # MovieOf(r)
NothingUnfinished == \A r \in Request : WillStream(r)

(* The step the theorem is about.                                            *)
Opens ==
    \A r \in Request :
       /\ Ready(r)
       /\ requests'[r].seen = "partial"
       => MovieOf(r) \in torn \/ r \in removedSince

(* Types are kept; a request has a movie from its start to its end.          *)
LEMMA TypeStep ==
    ASSUME TypeOK, [Next]_vars
    PROVE  TypeOK'
<1> USE SetAssumption, BoundAssumption DEF TypeOK, RequestType, Counters, At,
        Goes, Sees, Ends, Idle, MovieOf, Ready, Converting, HoldsMux, fileVars,
        lockVars, boundVars
<1>1. ASSUME NEW r \in Request, NEW m \in Movie, HandleFileConversion(r, m)
      PROVE  TypeOK'
  BY <1>1 DEF HandleFileConversion
<1>2. ASSUME NEW r \in Request, Lock(r)
      PROVE  TypeOK'
  BY <1>2 DEF Lock
<1>3. ASSUME NEW r \in Request, FindConverted(r)
      PROVE  TypeOK'
  BY <1>3 DEF FindConverted
<1>4. ASSUME NEW r \in Request, Enlist(r)
      PROVE  TypeOK'
  BY <1>4 DEF Enlist
<1>5. ASSUME NEW r \in Request, Probe(r)
      PROVE  TypeOK'
  BY <1>5 DEF Probe
<1>6. ASSUME NEW r \in Request, ProbePanics(r)
      PROVE  TypeOK'
  BY <1>6 DEF ProbePanics, PanicAway, Delist
<1>7. ASSUME NEW r \in Request, TempSock(r)
      PROVE  TypeOK'
  <2>1. CASE /\ panics < MaxPanic /\ panics' = panics + 1
             /\ PanicAway(r)
    BY <2>1 DEF PanicAway, Delist
  <2>2. CASE /\ Sees(r, "ffmpeg", mkv[MovieOf(r)])
             /\ mp4' = [mp4 EXCEPT ![MovieOf(r)] = "partial"]
             /\ UNCHANGED <<mkv, torn, lockVars, boundVars, removedSince>>
    BY <1>7, <2>2 DEF TempSock
  <2>3. CASE /\ Goes(r, "failed")
             /\ UNCHANGED <<mkv, mp4, torn, lockVars, boundVars, removedSince>>
    BY <1>7, <2>3 DEF TempSock
  <2>. QED
    BY <1>7, <2>1, <2>2, <2>3 DEF TempSock
<1>8. ASSUME NEW r \in Request, FfmpegSucceeds(r)
      PROVE  TypeOK'
  BY <1>8 DEF FfmpegSucceeds, Delist
<1>9. ASSUME NEW r \in Request, FfmpegFails(r)
      PROVE  TypeOK'
  BY <1>9 DEF FfmpegFails
<1>10. ASSUME NEW r \in Request, ConversionFails(r)
      PROVE  TypeOK'
  BY <1>10 DEF ConversionFails, RemoveOutput, Unlock, Delist, Forget
<1>11. ASSUME NEW r \in Request, OpenMedia(r)
      PROVE  TypeOK'
  BY <1>11 DEF OpenMedia, Named, Content, Forget
<1>12. ASSUME NEW r \in Request, EndStream(r)
      PROVE  TypeOK'
  BY <1>12 DEF EndStream
<1>13. ASSUME NEW m \in Movie, DownloadFile(m)
      PROVE  TypeOK'
  BY <1>13 DEF DownloadFile
<1>14. ASSUME NEW m \in Movie, DownloadDone(m)
      PROVE  TypeOK'
  BY <1>14 DEF DownloadDone
<1>15. ASSUME NEW m \in Movie, RemoveConverted(m)
      PROVE  TypeOK'
  BY <1>15 DEF RemoveConverted, Lose
<1>16. ASSUME NEW m \in Movie, RemoveDownload(m)
      PROVE  TypeOK'
  BY <1>16 DEF RemoveDownload, Lose
<1>17. CASE Crash
  BY <1>17 DEF Crash
<1>18. CASE UNCHANGED vars
  BY <1>18 DEF vars
<1>. QED
  BY <1>1, <1>2, <1>3, <1>4, <1>5, <1>6, <1>7, <1>8, <1>9, <1>10, <1>11, <1>12,
      <1>13, <1>14, <1>15, <1>16, <1>17, <1>18 DEF Next, RequestGoes, Ffmpeg

(* Every value a run reaches has its type.                                   *)
THEOREM TypeCorrect == Spec => []TypeOK
<1>1. Init => TypeOK
  BY SetAssumption, BoundAssumption DEF Init, TypeOK, RequestType, Counters,
      Idle, At, MovieOf
<1>. QED
  BY <1>1, TypeStep, PTL DEF Spec

(* A return unlocks what its request had locked; a panic loses it.           *)
LEMMA MuxStep ==
    ASSUME TypeOK, MuxHasOwner, [Next]_vars
    PROVE  MuxHasOwner'
<1> USE SetAssumption DEF TypeOK, RequestType, MuxHasOwner, At, Goes, Sees,
        Ends, Idle, MovieOf, Ready, Converting, HoldsMux, fileVars, lockVars, boundVars,
        AlreadyConverted
<1>1. ASSUME NEW r \in Request, NEW m \in Movie, HandleFileConversion(r, m)
      PROVE  MuxHasOwner'
  BY <1>1 DEF HandleFileConversion
<1>2. ASSUME NEW r \in Request, Lock(r)
      PROVE  MuxHasOwner'
  BY <1>2 DEF Lock
<1>3. ASSUME NEW r \in Request, FindConverted(r)
      PROVE  MuxHasOwner'
  BY <1>3 DEF FindConverted
<1>4. ASSUME NEW r \in Request, Enlist(r)
      PROVE  MuxHasOwner'
  BY <1>4 DEF Enlist
<1>5. ASSUME NEW r \in Request, Probe(r)
      PROVE  MuxHasOwner'
  BY <1>5 DEF Probe
<1>6. ASSUME NEW r \in Request, ProbePanics(r)
      PROVE  MuxHasOwner'
  BY <1>6 DEF ProbePanics, PanicAway, Delist
<1>7. ASSUME NEW r \in Request, TempSock(r)
      PROVE  MuxHasOwner'
  BY <1>7 DEF TempSock, PanicAway, Delist
<1>8. ASSUME NEW r \in Request, FfmpegSucceeds(r)
      PROVE  MuxHasOwner'
  BY <1>8 DEF FfmpegSucceeds, Delist
<1>9. ASSUME NEW r \in Request, FfmpegFails(r)
      PROVE  MuxHasOwner'
  BY <1>9 DEF FfmpegFails
<1>10. ASSUME NEW r \in Request, ConversionFails(r)
      PROVE  MuxHasOwner'
  BY <1>10 DEF ConversionFails, RemoveOutput, Unlock, Delist, Forget
<1>11. ASSUME NEW r \in Request, OpenMedia(r)
      PROVE  MuxHasOwner'
  BY <1>11 DEF OpenMedia, Named, Content, Forget
<1>12. ASSUME NEW r \in Request, EndStream(r)
      PROVE  MuxHasOwner'
  BY <1>12 DEF EndStream
<1>13. ASSUME NEW m \in Movie, DownloadFile(m)
      PROVE  MuxHasOwner'
  BY <1>13 DEF DownloadFile
<1>14. ASSUME NEW m \in Movie, DownloadDone(m)
      PROVE  MuxHasOwner'
  BY <1>14 DEF DownloadDone
<1>15. ASSUME NEW m \in Movie, RemoveConverted(m)
      PROVE  MuxHasOwner'
  BY <1>15 DEF RemoveConverted, Lose
<1>16. ASSUME NEW m \in Movie, RemoveDownload(m)
      PROVE  MuxHasOwner'
  BY <1>16 DEF RemoveDownload, Lose
<1>17. CASE Crash
  BY <1>17 DEF Crash
<1>18. CASE UNCHANGED vars
  BY <1>18 DEF vars
<1>. QED
  BY <1>1, <1>2, <1>3, <1>4, <1>5, <1>6, <1>7, <1>8, <1>9, <1>10, <1>11, <1>12,
      <1>13, <1>14, <1>15, <1>16, <1>17, <1>18 DEF Next, RequestGoes, Ffmpeg

(* The mutex belongs to the one request that is between Lock and Unlock of   *)
(* HandleFileConversion: two conversions never run at a time.                *)
THEOREM MuxOwned == Spec => []MuxHasOwner
<1>1. Init => MuxHasOwner
  BY SetAssumption DEF Init, MuxHasOwner, HoldsMux, Converting, At, Idle
<1>. QED
  BY <1>1, MuxStep, TypeCorrect, PTL DEF Spec

(* The list changes with the conversion it names, and by its holder only.    *)
LEMMA StatusStep ==
    ASSUME TypeOK, MuxHasOwner, StatusIsTrue, [Next]_vars
    PROVE  StatusIsTrue'
<1> USE DEF TypeOK, RequestType, MuxHasOwner, StatusIsTrue, At, Goes, Sees,
        Ends, Idle, MovieOf, Ready, Converting, HoldsMux, fileVars, lockVars, boundVars,
        AlreadyConverted
<1>1. ASSUME NEW r \in Request, NEW m \in Movie, HandleFileConversion(r, m)
      PROVE  StatusIsTrue'
  BY <1>1 DEF HandleFileConversion
<1>2. ASSUME NEW r \in Request, Lock(r)
      PROVE  StatusIsTrue'
  BY <1>2 DEF Lock
<1>3. ASSUME NEW r \in Request, FindConverted(r)
      PROVE  StatusIsTrue'
  BY <1>3 DEF FindConverted
<1>4. ASSUME NEW r \in Request, Enlist(r)
      PROVE  StatusIsTrue'
  BY <1>4 DEF Enlist
<1>5. ASSUME NEW r \in Request, Probe(r)
      PROVE  StatusIsTrue'
  BY <1>5 DEF Probe
<1>6. ASSUME NEW r \in Request, ProbePanics(r)
      PROVE  StatusIsTrue'
  BY <1>6 DEF ProbePanics, PanicAway, Delist
<1>7. ASSUME NEW r \in Request, TempSock(r)
      PROVE  StatusIsTrue'
  BY <1>7 DEF TempSock, PanicAway, Delist
<1>8. ASSUME NEW r \in Request, FfmpegSucceeds(r)
      PROVE  StatusIsTrue'
  BY <1>8 DEF FfmpegSucceeds, Delist
<1>9. ASSUME NEW r \in Request, FfmpegFails(r)
      PROVE  StatusIsTrue'
  BY <1>9 DEF FfmpegFails
<1>10. ASSUME NEW r \in Request, ConversionFails(r)
      PROVE  StatusIsTrue'
  BY <1>10 DEF ConversionFails, RemoveOutput, Unlock, Delist, Forget
<1>11. ASSUME NEW r \in Request, OpenMedia(r)
      PROVE  StatusIsTrue'
  BY <1>11 DEF OpenMedia, Named, Content, Forget
<1>12. ASSUME NEW r \in Request, EndStream(r)
      PROVE  StatusIsTrue'
  BY <1>12 DEF EndStream
<1>13. ASSUME NEW m \in Movie, DownloadFile(m)
      PROVE  StatusIsTrue'
  BY <1>13 DEF DownloadFile
<1>14. ASSUME NEW m \in Movie, DownloadDone(m)
      PROVE  StatusIsTrue'
  BY <1>14 DEF DownloadDone
<1>15. ASSUME NEW m \in Movie, RemoveConverted(m)
      PROVE  StatusIsTrue'
  BY <1>15 DEF RemoveConverted, Lose
<1>16. ASSUME NEW m \in Movie, RemoveDownload(m)
      PROVE  StatusIsTrue'
  BY <1>16 DEF RemoveDownload, Lose
<1>17. CASE Crash
  BY <1>17 DEF Crash
<1>18. CASE UNCHANGED vars
  BY <1>18 DEF vars
<1>. QED
  BY <1>1, <1>2, <1>3, <1>4, <1>5, <1>6, <1>7, <1>8, <1>9, <1>10, <1>11, <1>12,
      <1>13, <1>14, <1>15, <1>16, <1>17, <1>18 DEF Next, RequestGoes, Ffmpeg

(* convertingFiles, which StreamStatus shows and new requests are refused    *)
(* for, is the conversion that runs, after any failure or panic.             *)
THEOREM StatusTrue == Spec => []StatusIsTrue
<1>1. Init => StatusIsTrue
  BY DEF Init, StatusIsTrue, Converting, Idle
<1>. QED
  BY <1>1, StatusStep, TypeCorrect, MuxOwned, PTL DEF Spec

(* Who starts an mp4 finishes it, removes it, or leaves it among the torn.   *)
LEMMA PartialStep ==
    ASSUME TypeOK, PartialHasWriter, [Next]_vars
    PROVE  PartialHasWriter'
<1> USE DEF TypeOK, RequestType, PartialHasWriter, At, Goes, Sees, Ends, Idle,
        MovieOf, Ready, Converting, HoldsMux, fileVars, lockVars, boundVars,
        AlreadyConverted
<1>1. ASSUME NEW r \in Request, NEW m \in Movie, HandleFileConversion(r, m)
      PROVE  PartialHasWriter'
  BY <1>1 DEF HandleFileConversion
<1>2. ASSUME NEW r \in Request, Lock(r)
      PROVE  PartialHasWriter'
  BY <1>2 DEF Lock
<1>3. ASSUME NEW r \in Request, FindConverted(r)
      PROVE  PartialHasWriter'
  BY <1>3 DEF FindConverted
<1>4. ASSUME NEW r \in Request, Enlist(r)
      PROVE  PartialHasWriter'
  BY <1>4 DEF Enlist
<1>5. ASSUME NEW r \in Request, Probe(r)
      PROVE  PartialHasWriter'
  BY <1>5 DEF Probe
<1>6. ASSUME NEW r \in Request, ProbePanics(r)
      PROVE  PartialHasWriter'
  BY <1>6 DEF ProbePanics, PanicAway, Delist
<1>7. ASSUME NEW r \in Request, TempSock(r)
      PROVE  PartialHasWriter'
  BY <1>7 DEF TempSock, PanicAway, Delist
<1>8. ASSUME NEW r \in Request, FfmpegSucceeds(r)
      PROVE  PartialHasWriter'
  BY <1>8 DEF FfmpegSucceeds, Delist
<1>9. ASSUME NEW r \in Request, FfmpegFails(r)
      PROVE  PartialHasWriter'
  BY <1>9 DEF FfmpegFails
<1>10. ASSUME NEW r \in Request, ConversionFails(r)
      PROVE  PartialHasWriter'
  BY <1>10 DEF ConversionFails, RemoveOutput, Unlock, Delist, Forget
<1>11. ASSUME NEW r \in Request, OpenMedia(r)
      PROVE  PartialHasWriter'
  BY <1>11 DEF OpenMedia, Named, Content, Forget
<1>12. ASSUME NEW r \in Request, EndStream(r)
      PROVE  PartialHasWriter'
  BY <1>12 DEF EndStream
<1>13. ASSUME NEW m \in Movie, DownloadFile(m)
      PROVE  PartialHasWriter'
  BY <1>13 DEF DownloadFile
<1>14. ASSUME NEW m \in Movie, DownloadDone(m)
      PROVE  PartialHasWriter'
  BY <1>14 DEF DownloadDone
<1>15. ASSUME NEW m \in Movie, RemoveConverted(m)
      PROVE  PartialHasWriter'
  BY <1>15 DEF RemoveConverted, Lose
<1>16. ASSUME NEW m \in Movie, RemoveDownload(m)
      PROVE  PartialHasWriter'
  BY <1>16 DEF RemoveDownload, Lose
<1>17. CASE Crash
  BY <1>17 DEF Crash
<1>18. CASE UNCHANGED vars
  BY <1>18 DEF vars
<1>. QED
  BY <1>1, <1>2, <1>3, <1>4, <1>5, <1>6, <1>7, <1>8, <1>9, <1>10, <1>11, <1>12,
      <1>13, <1>14, <1>15, <1>16, <1>17, <1>18 DEF Next, RequestGoes, Ffmpeg

(* An unfinished mp4 has a request that writes or removes it, unless a crash *)
(* or a removal that failed left it.                                         *)
THEOREM PartialOwned == Spec => []PartialHasWriter
<1>1. Init => PartialHasWriter
  BY DEF Init, PartialHasWriter
<1>. QED
  BY <1>1, PartialStep, TypeCorrect, PTL DEF Spec

(* What a request found or wrote stays whole until it opens it, or is removed*)
(* before: only a removal lets another request convert the movie again.      *)
LEMMA StreamStep ==
    ASSUME TypeOK, MuxHasOwner, PartialHasWriter, NothingUnfinished, [Next]_vars
    PROVE  NothingUnfinished'
<1> USE DEF TypeOK, RequestType, MuxHasOwner, PartialHasWriter,
        NothingUnfinished, WillStream, At, Goes, Sees, Ends, Idle, MovieOf, Ready,
        Converting, HoldsMux, fileVars, lockVars, boundVars, AlreadyConverted
<1>1. ASSUME NEW r \in Request, NEW m \in Movie, HandleFileConversion(r, m)
      PROVE  NothingUnfinished'
  BY <1>1 DEF HandleFileConversion
<1>2. ASSUME NEW r \in Request, Lock(r)
      PROVE  NothingUnfinished'
  BY <1>2 DEF Lock
<1>3. ASSUME NEW r \in Request, FindConverted(r)
      PROVE  NothingUnfinished'
  BY <1>3 DEF FindConverted
<1>4. ASSUME NEW r \in Request, Enlist(r)
      PROVE  NothingUnfinished'
  BY <1>4 DEF Enlist
<1>5. ASSUME NEW r \in Request, Probe(r)
      PROVE  NothingUnfinished'
  BY <1>5 DEF Probe
<1>6. ASSUME NEW r \in Request, ProbePanics(r)
      PROVE  NothingUnfinished'
  BY <1>6 DEF ProbePanics, PanicAway, Delist
<1>7. ASSUME NEW r \in Request, TempSock(r)
      PROVE  NothingUnfinished'
  BY <1>7 DEF TempSock, PanicAway, Delist
<1>8. ASSUME NEW r \in Request, FfmpegSucceeds(r)
      PROVE  NothingUnfinished'
  <2>1. At(r, "ffmpeg") /\ Sees(r, "ready", "none") /\ UNCHANGED removedSince
    BY <1>8 DEF FfmpegSucceeds
  <2>2. \A q \in Request : q # r => requests'[q] = requests[q] /\ ~Converting(q)
    BY <2>1
  <2>3. ~Converting(r)' /\ Ready(r)' /\ MovieOf(r)' = MovieOf(r)
    BY <2>1
  <2>4. WillStream(r)'
    <3>1. CASE r \in removedSince
      BY <2>1, <2>3, <3>1
    <3>2. CASE mp4[MovieOf(r)] = "partial" /\ requests[r].seen = "partial"
      <4>. MovieOf(r) \in torn'
        BY <1>8, <3>2 DEF FfmpegSucceeds
      <4>. QED
        BY <2>1, <2>3
    <3>3. CASE mp4[MovieOf(r)] = "partial" /\ requests[r].seen # "partial"
      <4>. mp4'[MovieOf(r)] = requests[r].seen
        BY <1>8, <3>3 DEF FfmpegSucceeds
      <4>. QED
        BY <2>1, <2>2, <2>3, <3>3
    <3>. QED
      BY <2>1, <3>1, <3>2, <3>3
  <2>5. ASSUME NEW q \in Request, q # r
        PROVE  WillStream(q)'
    BY <1>8, <2>1, <2>2, <2>3, <2>5 DEF FfmpegSucceeds
  <2>. QED
    BY <2>4, <2>5
<1>9. ASSUME NEW r \in Request, FfmpegFails(r)
      PROVE  NothingUnfinished'
  BY <1>9 DEF FfmpegFails
<1>10. ASSUME NEW r \in Request, ConversionFails(r)
      PROVE  NothingUnfinished'
  BY <1>10 DEF ConversionFails, RemoveOutput, Unlock, Delist, Forget
<1>11. ASSUME NEW r \in Request, OpenMedia(r)
      PROVE  NothingUnfinished'
  BY <1>11 DEF OpenMedia, Named, Content, Forget
<1>12. ASSUME NEW r \in Request, EndStream(r)
      PROVE  NothingUnfinished'
  BY <1>12 DEF EndStream
<1>13. ASSUME NEW m \in Movie, DownloadFile(m)
      PROVE  NothingUnfinished'
  BY <1>13 DEF DownloadFile
<1>14. ASSUME NEW m \in Movie, DownloadDone(m)
      PROVE  NothingUnfinished'
  BY <1>14 DEF DownloadDone
<1>15. ASSUME NEW m \in Movie, RemoveConverted(m)
      PROVE  NothingUnfinished'
  BY <1>15 DEF RemoveConverted, Lose
<1>16. ASSUME NEW m \in Movie, RemoveDownload(m)
      PROVE  NothingUnfinished'
  BY <1>16 DEF RemoveDownload, Lose
<1>17. CASE Crash
  BY <1>17 DEF Crash
<1>18. CASE UNCHANGED vars
  BY <1>18 DEF vars
<1>. QED
  BY <1>1, <1>2, <1>3, <1>4, <1>5, <1>6, <1>7, <1>8, <1>9, <1>10, <1>11, <1>12,
      <1>13, <1>14, <1>15, <1>16, <1>17, <1>18 DEF Next, RequestGoes, Ffmpeg

(* Only OpenMedia sets what a request has seen, and it had seen nothing.     *)
LEMMA OpenStep ==
    ASSUME TypeOK, NothingUnfinished, [Next]_vars
    PROVE  Opens
<1> USE DEF TypeOK, RequestType, NothingUnfinished, WillStream, Opens, At,
        Goes, Sees, Ends, Idle, MovieOf, Ready, Converting, HoldsMux, fileVars,
        lockVars, boundVars
<1>1. ASSUME NEW r \in Request, NEW m \in Movie, HandleFileConversion(r, m)
      PROVE  Opens
  BY <1>1 DEF HandleFileConversion
<1>2. ASSUME NEW r \in Request, Lock(r)
      PROVE  Opens
  BY <1>2 DEF Lock
<1>3. ASSUME NEW r \in Request, FindConverted(r)
      PROVE  Opens
  BY <1>3 DEF FindConverted
<1>4. ASSUME NEW r \in Request, Enlist(r)
      PROVE  Opens
  BY <1>4 DEF Enlist
<1>5. ASSUME NEW r \in Request, Probe(r)
      PROVE  Opens
  BY <1>5 DEF Probe
<1>6. ASSUME NEW r \in Request, ProbePanics(r)
      PROVE  Opens
  BY <1>6 DEF ProbePanics, PanicAway, Delist
<1>7. ASSUME NEW r \in Request, TempSock(r)
      PROVE  Opens
  BY <1>7 DEF TempSock, PanicAway, Delist
<1>8. ASSUME NEW r \in Request, FfmpegSucceeds(r)
      PROVE  Opens
  BY <1>8 DEF FfmpegSucceeds, Delist
<1>9. ASSUME NEW r \in Request, FfmpegFails(r)
      PROVE  Opens
  BY <1>9 DEF FfmpegFails
<1>10. ASSUME NEW r \in Request, ConversionFails(r)
      PROVE  Opens
  BY <1>10 DEF ConversionFails, RemoveOutput, Unlock, Delist, Forget
<1>11. ASSUME NEW r \in Request, OpenMedia(r)
      PROVE  Opens
  BY <1>11 DEF OpenMedia, Named, Content, Forget
<1>12. ASSUME NEW r \in Request, EndStream(r)
      PROVE  Opens
  BY <1>12 DEF EndStream
<1>13. ASSUME NEW m \in Movie, DownloadFile(m)
      PROVE  Opens
  BY <1>13 DEF DownloadFile
<1>14. ASSUME NEW m \in Movie, DownloadDone(m)
      PROVE  Opens
  BY <1>14 DEF DownloadDone
<1>15. ASSUME NEW m \in Movie, RemoveConverted(m)
      PROVE  Opens
  BY <1>15 DEF RemoveConverted, Lose
<1>16. ASSUME NEW m \in Movie, RemoveDownload(m)
      PROVE  Opens
  BY <1>16 DEF RemoveDownload, Lose
<1>17. CASE Crash
  BY <1>17 DEF Crash
<1>18. CASE UNCHANGED vars
  BY <1>18 DEF vars
<1>. QED
  BY <1>1, <1>2, <1>3, <1>4, <1>5, <1>6, <1>7, <1>8, <1>9, <1>10, <1>11, <1>12,
      <1>13, <1>14, <1>15, <1>16, <1>17, <1>18 DEF Next, RequestGoes, Ffmpeg

(* A request that went through HandleFileConversion streams a whole mp4,     *)
(* unless one was left unfinished, or its own was removed meanwhile.         *)
THEOREM WholeStreams == Spec => StreamsWhole
<1>1. Init => NothingUnfinished
  BY DEF Init, NothingUnfinished, WillStream, Ready, At, Idle
<1>2. TypeOK /\ NothingUnfinished /\ [Next]_vars => [Opens]_vars
  BY OpenStep
<1>. QED
  BY <1>1, <1>2, StreamStep, TypeCorrect, MuxOwned, PartialOwned, PTL
     DEF Spec, StreamsWhole, Opens

=============================================================================
