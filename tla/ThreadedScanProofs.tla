------------------------- MODULE ThreadedScanProofs -------------------------
(***************************************************************************)
(* A threaded scan keeps its claims, pauses soundly, drains the queue and  *)
(* checkpoints consistently, for every wordlist, number of threads,        *)
(* directory tree and number of signals.                                   *)
(***************************************************************************)
EXTENDS ThreadedScan, DictionaryLemmas

\* The part of the invariant that only control flow maintains.
Control == TypeOK /\ Placement /\ ThreadState /\ nativeClaim = NoClaim

LEMMA InitControl == Init => Control
<1> SUFFICES ASSUME Init PROVE Control
  OBVIOUS
<1>1. DictTypeOK
  BY DictionaryAssumption, LenProperties DEF Init, DictInit, DictTypeOK, NativeClaims, NoClaim
<1>2. TypeOK
  <2>1. ToSet(Subdirs) \in SUBSET Dirs
    BY ScanAssumption, ElementOfSeq, LenProperties DEF ToSet
  <2>2. /\ pc \in [Threads -> Working \cup Quiet \cup {"new", "check", "dead"}]
        /\ held \in [Threads -> Paths \cup {NoPath}]
        /\ raised \in [Threads -> Exceptions \cup {"none"}]
        /\ leaving \in SUBSET Threads
    BY DEF Init, FuzzerInit
  <2>3. uncommitted \in Seq(Dirs \X Paths) /\ durable \in SUBSET (Dirs \X Paths)
    BY DEF Init
  <2>4. position \in 1 .. ThreadCount + 1 /\ sem \in Nat /\ signals \in Nat
    BY FuzzerAssumption DEF Init, FuzzerInit
  <2> QED
    BY <1>1, <2>1, <2>2, <2>3, <2>4, ScanAssumption DEF Init, FuzzerInit, TypeOK, InMenu
<1>3. Placement /\ ThreadState
  BY DEF Init, FuzzerInit, Placement, ThreadState, NoneAlive, Alive, Threads, Holding
<1> QED
  BY <1>2, <1>3 DEF Control, Init, DictInit

\* Which thread actions leave the queue, the reports and the directories alone.
LEMMA DictStep ==
  ASSUME Control, NEW t \in Threads,
         \/ ThreadClaim(t)
         \/ ThreadRelease(t)
         \/ Crawl(t)
  PROVE  DictTypeOK' /\ nativeClaim' = NoClaim /\ (ThreadClaim(t) => NextPath \in Paths)
<1>1. DictTypeOK /\ nativeClaim = NoClaim /\ RangeInFlight
  BY DEF Control, TypeOK, RangeInFlight
<1>2. CASE ThreadClaim(t)
  <2>1. claim_next
    BY <1>2 DEF ThreadClaim
  <2> QED
    BY <1>1, <2>1, ClaimNextOutstanding DEF claim_next
<1>3. CASE ThreadRelease(t)
  <2>1. release_claim(held[t])
    BY <1>3 DEF ThreadRelease
  <2>2. DictTypeOK' /\ nativeClaim' = nativeClaim
    BY <1>1, <2>1, ReleaseClaimOutstanding DEF release_claim
  <2>3. ~ThreadClaim(t)
    BY <1>3 DEF ThreadRelease, ThreadClaim
  <2> QED
    BY <1>1, <2>2, <2>3
<1>4. CASE Crawl(t)
  <2>1. ~ThreadClaim(t)
    BY <1>4 DEF Crawl, ThreadClaim
  <2>2. CASE Link[held[t]] = NoPath
    BY <1>1, <1>4, <2>1, <2>2 DEF Crawl, dictVars, DictTypeOK
  <2>3. CASE add_extra(Link[held[t]])
    BY <1>1, <2>1, <2>3, AddExtraOutstanding DEF add_extra
  <2> QED
    BY <1>4, <2>2, <2>3 DEF Crawl
<1> QED
  BY <1>2, <1>3, <1>4

ThreadPlaces == Working \cup Quiet \cup {"new", "check", "dead"}

FuzzerTypeOK ==
  /\ pc \in [Threads -> ThreadPlaces]
  /\ held \in [Threads -> Paths \cup {NoPath}]
  /\ raised \in [Threads -> Exceptions \cup {"none"}]
  /\ leaving \in SUBSET Threads
  /\ exc \in Exceptions \cup {"none"}
  /\ play \in BOOLEAN /\ quit \in BOOLEAN /\ sem \in Nat

LEMMA ThreadFuzzerTypeOK ==
  ASSUME Control, NEW t \in Threads, ThreadStep(t)
  PROVE  FuzzerTypeOK'
<1> USE DEF FuzzerTypeOK, ThreadPlaces, Working, Quiet, Exceptions, MoveTo, Woken
<1>0. FuzzerTypeOK
  BY DEF Control, TypeOK
<1>1. CASE Miss(t)
  BY <1>0, <1>1 DEF Miss
<1>2. CASE RequestRaises(t) \/ CallbackRaises(t)
  <2>1. \E e \in Exceptions : ScanRaises(t, e)
    BY <1>2, ScanAssumption DEF RequestRaises, CallbackRaises
  <2>2. UNCHANGED <<play, quit, sem>>
    BY <1>2 DEF RequestRaises, CallbackRaises, ScanRaises
  <2> QED
    BY <1>0, <2>1, <2>2 DEF ScanRaises
<1>3. CASE Match(t)
  BY <1>0, <1>3 DEF Match
<1>4. CASE Crawl(t)
  BY <1>0, <1>4 DEF Crawl
<1>5. CASE Report(t)
  BY <1>0, <1>5 DEF Report
<1>6. CASE ThreadClaim(t)
  BY <1>0, <1>6, DictStep DEF ThreadClaim
<1>7. CASE ThreadExhausted(t)
  BY <1>0, <1>7 DEF ThreadExhausted
<1>8. CASE ThreadRelease(t)
  BY <1>0, <1>8 DEF ThreadRelease
<1>9. CASE ThreadReleaseFails(t)
  BY <1>0, <1>9 DEF ThreadReleaseFails
<1>10. CASE ThreadRaise(t)
  BY <1>0, <1>10 DEF ThreadRaise
<1>11. CASE ThreadTail(t)
  BY <1>0, <1>11 DEF ThreadTail
<1>12. CASE ThreadWait(t)
  BY <1>0, <1>12 DEF ThreadWait
<1>13. CASE ThreadCheck(t)
  BY <1>0, <1>13 DEF ThreadCheck
<1> QED
  BY <1>1, <1>2, <1>3, <1>4, <1>5, <1>6, <1>7, <1>8, <1>9, <1>10, <1>11, <1>12, <1>13 DEF ThreadStep

LEMMA ThreadThreadState ==
  ASSUME Control, NEW t \in Threads, ThreadStep(t)
  PROVE  ThreadState'
<1> USE DEF ThreadState, Working, Quiet, Holding, Exceptions, MoveTo, Woken
<1>0. FuzzerTypeOK /\ ThreadState
  BY DEF Control, TypeOK, FuzzerTypeOK, ThreadPlaces
<1> USE DEF FuzzerTypeOK, ThreadPlaces
<1>1. CASE Miss(t)
  BY <1>0, <1>1 DEF Miss
<1>2. CASE RequestRaises(t) \/ CallbackRaises(t)
  BY <1>0, <1>2, ScanAssumption DEF RequestRaises, CallbackRaises, ScanRaises
<1>3. CASE Match(t)
  BY <1>0, <1>3 DEF Match
<1>4. CASE Crawl(t)
  BY <1>0, <1>4 DEF Crawl
<1>5. CASE Report(t)
  BY <1>0, <1>5 DEF Report
<1>6. CASE ThreadClaim(t)
  BY <1>0, <1>6, DictStep, FuzzerAssumption DEF ThreadClaim
<1>7. CASE ThreadExhausted(t)
  BY <1>0, <1>7 DEF ThreadExhausted
<1>8. CASE ThreadRelease(t)
  BY <1>0, <1>8 DEF ThreadRelease
<1>9. CASE ThreadReleaseFails(t)
  BY <1>0, <1>9 DEF ThreadReleaseFails
<1>10. CASE ThreadRaise(t)
  BY <1>0, <1>10 DEF ThreadRaise
<1>11. CASE ThreadTail(t)
  BY <1>0, <1>11 DEF ThreadTail
<1>12. CASE ThreadWait(t)
  BY <1>0, <1>12 DEF ThreadWait
<1>13. CASE ThreadCheck(t)
  BY <1>0, <1>13 DEF ThreadCheck
<1> QED
  BY <1>1, <1>2, <1>3, <1>4, <1>5, <1>6, <1>7, <1>8, <1>9, <1>10, <1>11, <1>12, <1>13 DEF ThreadStep

\* A thread step moves one live thread, wakes parked ones, and nothing else
\* comes alive or is created.
LEMMA ThreadMoves ==
  ASSUME Control, NEW t \in Threads, ThreadStep(t)
  PROVE  /\ Alive(t) /\ pc'[t] # "new"
         /\ \A u \in Threads \ {t} :
              pc'[u] = pc[u] \/ (pc[u] = "parked" /\ pc'[u] = "check")
         /\ UNCHANGED <<main, pending, outcome, base, handlerVars, sessionVars>>
<1> USE DEF MoveTo, Woken, Alive
<1>0. FuzzerTypeOK
  BY DEF Control, TypeOK, FuzzerTypeOK, ThreadPlaces
<1> USE DEF FuzzerTypeOK, mainVars
<1>1. CASE Miss(t)
  BY <1>0, <1>1 DEF Miss
<1>2. CASE RequestRaises(t) \/ CallbackRaises(t)
  BY <1>0, <1>2 DEF RequestRaises, CallbackRaises, ScanRaises
<1>3. CASE Match(t)
  BY <1>0, <1>3 DEF Match
<1>4. CASE Crawl(t)
  BY <1>0, <1>4 DEF Crawl
<1>5. CASE Report(t)
  BY <1>0, <1>5 DEF Report
<1>6. CASE ThreadClaim(t) /\ UNCHANGED <<mainVars, handlerVars, reportVars, sessionVars>>
  BY <1>0, <1>6 DEF ThreadClaim
<1>7. CASE ThreadExhausted(t) /\ UNCHANGED <<mainVars, handlerVars, reportVars, sessionVars>>
  BY <1>0, <1>7 DEF ThreadExhausted
<1>8. CASE ThreadRelease(t) /\ UNCHANGED <<mainVars, handlerVars, reportVars, sessionVars>>
  BY <1>0, <1>8 DEF ThreadRelease
<1>9. CASE ThreadReleaseFails(t) /\ UNCHANGED <<mainVars, handlerVars, reportVars, sessionVars>>
  BY <1>0, <1>9 DEF ThreadReleaseFails
<1>10. CASE ThreadRaise(t) /\ UNCHANGED <<mainVars, handlerVars, reportVars, sessionVars>>
  BY <1>0, <1>10 DEF ThreadRaise
<1>11. CASE ThreadTail(t) /\ UNCHANGED <<mainVars, handlerVars, reportVars, sessionVars>>
  BY <1>0, <1>11 DEF ThreadTail
<1>12. CASE ThreadWait(t) /\ UNCHANGED <<mainVars, handlerVars, reportVars, sessionVars>>
  BY <1>0, <1>12 DEF ThreadWait
<1>13. CASE ThreadCheck(t) /\ UNCHANGED <<mainVars, handlerVars, reportVars, sessionVars>>
  BY <1>0, <1>13 DEF ThreadCheck
<1> QED
  BY <1>1, <1>2, <1>3, <1>4, <1>5, <1>6, <1>7, <1>8, <1>9, <1>10, <1>11, <1>12, <1>13 DEF ThreadStep

\* A thread changes the directories only through add_directory, and the rows
\* only by one of its own.
LEMMA ThreadRecords ==
  ASSUME Control, NEW t \in Threads, ThreadStep(t)
  PROVE  /\ directories' \in Seq(Dirs) /\ passed' \in SUBSET Dirs
         /\ passed \subseteq passed' /\ (directories # <<>> => directories' # <<>>)
         /\ uncommitted' \in Seq(Dirs \X Paths) /\ durable' \in SUBSET (Dirs \X Paths)
<1>0. /\ directories \in Seq(Dirs) /\ passed \in SUBSET Dirs
      /\ uncommitted \in Seq(Dirs \X Paths) /\ durable \in SUBSET (Dirs \X Paths)
  BY DEF Control, TypeOK
<1>1. CASE Match(t)
  <2>1. pc[t] \in Holding /\ Alive(t)
    BY <1>1 DEF Match, Holding, Alive
  <2>2. held[t] \in Paths /\ base \in Dirs
    BY <2>1 DEF Control, ThreadState, TypeOK, Placement, NoneAlive
  <2>3. Child[base][held[t]] \in Dirs \cup {NoDir}
    BY <2>2, ScanAssumption
  <2>4. UNCHANGED reportVars /\ add_directory(Child[base][held[t]])
    BY <1>1 DEF Match
  <2> DEFINE d == Child[base][held[t]]
  <2> HIDE DEF d
  <2>5. add_directory(d) /\ d \in Dirs \cup {NoDir}
    BY <2>3, <2>4 DEF d
  <2>6. CASE UNCHANGED <<directories, passed>>
    BY <1>0, <2>4, <2>6 DEF reportVars
  <2>7. CASE d \in Dirs /\ directories' = Append(directories, d) /\ passed' = passed \cup {d}
    <3>1. directories' \in Seq(Dirs) /\ directories' # <<>>
      BY <1>0, <2>7, AppendProperties
    <3> QED
      BY <1>0, <2>4, <2>7, <3>1 DEF reportVars
  <2> QED
    BY <2>5, <2>6, <2>7 DEF add_directory
<1>2. CASE Report(t)
  <2>1. pc[t] \in Holding /\ Alive(t)
    BY <1>2 DEF Report, Holding, Alive
  <2>2. held[t] \in Paths /\ base \in Dirs
    BY <2>1 DEF Control, ThreadState, TypeOK, Placement, NoneAlive
  <2> DEFINE row == Row(held[t])
  <2>3. row \in Dirs \X Paths
    BY <2>2 DEF Row
  <2>4. SaveRow(row) /\ UNCHANGED <<directories, passed>>
    BY <1>2 DEF Report, mainVars
  <2> HIDE DEF row
  <2>5. ToSet(uncommitted) \subseteq Dirs \X Paths
    BY <1>0, ElementOfSeq, LenProperties DEF ToSet
  <2>6. CASE uncommitted' = <<>> /\ durable' = durable \cup ToSet(uncommitted) \cup {row}
    <3>1. durable' \in SUBSET (Dirs \X Paths)
      BY <1>0, <2>3, <2>5, <2>6
    <3>2. uncommitted' \in Seq(Dirs \X Paths)
      BY <2>6
    <3> QED
      BY <1>0, <2>4, <3>1, <3>2
  <2>7. CASE uncommitted' = Append(uncommitted, row) /\ UNCHANGED durable
    <3>1. uncommitted' \in Seq(Dirs \X Paths)
      BY <1>0, <2>3, <2>7, AppendProperties
    <3> QED
      BY <1>0, <2>4, <2>7, <3>1
  <2> QED
    BY <2>4, <2>6, <2>7 DEF SaveRow
<1>3. CASE CallbackRaises(t)
  <2>1. UNCHANGED <<directories, passed, durable>>
    BY <1>3 DEF CallbackRaises, mainVars
  <2>2. CASE UNCHANGED uncommitted
    BY <1>0, <2>1, <2>2
  <2>3. CASE pc[t] = "save" /\ uncommitted' = Append(uncommitted, Row(held[t]))
    <3>1. pc[t] \in Holding /\ Alive(t)
      BY <2>3 DEF Holding, Alive
    <3>2. held[t] \in Paths /\ base \in Dirs
      BY <3>1 DEF Control, ThreadState, TypeOK, Placement, NoneAlive
    <3>3. Row(held[t]) \in Dirs \X Paths
      BY <3>2 DEF Row
    <3>4. uncommitted' \in Seq(Dirs \X Paths)
      BY <1>0, <2>3, <3>3, AppendProperties
    <3> QED
      BY <1>0, <2>1, <3>4
  <2> QED
    BY <1>3, <2>2, <2>3 DEF CallbackRaises
<1>4. CASE UNCHANGED <<directories, passed, uncommitted, durable>>
  BY <1>0, <1>4
<1> QED
  BY <1>1, <1>2, <1>4, <1>3 DEF ThreadStep, Miss, RequestRaises, Crawl, mainVars, reportVars

LEMMA ThreadControl ==
  ASSUME Control, NEW t \in Threads, ThreadStep(t)
  PROVE  Control'
<1>1. FuzzerTypeOK' /\ ThreadState'
  BY ThreadFuzzerTypeOK, ThreadThreadState
<1>2. DictTypeOK' /\ nativeClaim' = NoClaim
  <2>1. CASE ThreadClaim(t) \/ ThreadRelease(t) \/ Crawl(t)
    BY <2>1, DictStep
  <2>2. CASE UNCHANGED dictVars
    BY <2>2 DEF dictVars, Control, TypeOK, DictTypeOK
  <2> QED
    BY <2>1, <2>2 DEF ThreadStep, Miss, RequestRaises, CallbackRaises, Match, Report, ThreadExhausted,
         ThreadReleaseFails, ThreadRaise, ThreadTail, ThreadWait, ThreadCheck
<1>3. /\ UNCHANGED <<main, pending, outcome, base, handler, handling, position, paused,
                     signals, timedOut>>
      /\ directories' \in Seq(Dirs) /\ passed' \in SUBSET Dirs
      /\ uncommitted' \in Seq(Dirs \X Paths) /\ durable' \in SUBSET (Dirs \X Paths)
      /\ (directories # <<>> => directories' # <<>>)
  BY ThreadMoves, ThreadRecords DEF handlerVars
<1>4. TypeOK'
  BY <1>1, <1>2, <1>3 DEF FuzzerTypeOK, ThreadPlaces, Control, TypeOK
<1>5. Placement'
  <2>1. /\ Alive(t) /\ pc'[t] # "new"
        /\ \A u \in Threads \ {t} : pc'[u] = pc[u] \/ (pc[u] = "parked" /\ pc'[u] = "check")
    BY ThreadMoves
  <2>2. main \notin {"next", "setup", "reset", "play", "clear"} /\ base \in Dirs
    BY <2>1 DEF Control, Placement, NoneAlive, Alive
  <2>3. main = "launch" => pc'[ThreadCount] = "new"
    <3>1. ThreadCount \in Threads
      BY FuzzerAssumption DEF Threads
    <3> QED
      BY <2>1, <3>1 DEF Control, Placement, Alive
  <2>4. main = "process" => \A u \in Threads : pc'[u] # "new"
    BY <2>1 DEF Control, Placement
  <2> QED
    BY <1>3, <2>2, <2>3, <2>4 DEF Control, Placement
<1> QED
  BY <1>1, <1>2, <1>4, <1>5 DEF Control

\* Committing keeps the rows rows.
LEMMA CommitRows ==
  ASSUME TypeOK, Commit \/ UNCHANGED reportVars
  PROVE  uncommitted' \in Seq(Dirs \X Paths) /\ durable' \in SUBSET (Dirs \X Paths)
<1>1. ToSet(uncommitted) \subseteq Dirs \X Paths
  BY ElementOfSeq, LenProperties DEF TypeOK, ToSet
<1>2. CASE Commit
  BY <1>1, <1>2 DEF TypeOK, Commit
<1>3. CASE UNCHANGED reportVars
  BY <1>3 DEF TypeOK, reportVars
<1> QED
  BY <1>2, <1>3

\* The steps of Controller.start and Controller.run, --max-time included.
MainAction ==
  \/ BeginDirectory \/ TargetDone \/ SetupDone \/ SetupRaises \/ StartPlay
  \/ StartClear \/ Launch \/ Finished \/ StopIdle \/ StopWorkers
  \/ Joined \/ JoinTimeout \/ EndDirectory \/ SkipTarget \/ Exit
  \/ DeadlinePassed

\* What the main thread does to the queue and to the reports.
LEMMA MainRecords ==
  ASSUME Control, MainAction
  PROVE  /\ DictTypeOK' /\ nativeClaim' = NoClaim
         /\ uncommitted' \in Seq(Dirs \X Paths) /\ durable' \in SUBSET (Dirs \X Paths)
<1>0. DictTypeOK /\ TypeOK /\ nativeClaim = NoClaim
  BY DEF Control, TypeOK
<1>1. CASE EndDirectory \/ SkipTarget
  <2>1. reset /\ (Commit \/ UNCHANGED reportVars)
    BY <1>1 DEF EndDirectory, SkipTarget
  <2>2. DictTypeOK' /\ nativeClaim' = NoClaim
    BY <1>0, <2>1, ResetOutstanding DEF reset
  <2> QED
    BY <1>0, <2>1, <2>2, CommitRows
<1>2. CASE UNCHANGED dictVars /\ (Commit \/ UNCHANGED reportVars)
  BY <1>0, <1>2, CommitRows DEF dictVars, DictTypeOK
<1> QED
  BY <1>1, <1>2 DEF MainAction, BeginDirectory, TargetDone, SetupDone, SetupRaises, StartPlay, StartClear, Launch, Finished, StopIdle, StopWorkers, Joined, JoinTimeout, Exit, DeadlinePassed

LEMMA MainFuzzerTypeOK ==
  ASSUME Control, MainAction
  PROVE  FuzzerTypeOK' /\ ThreadState'
<1>0. FuzzerTypeOK /\ ThreadState /\ Placement
  BY DEF Control, TypeOK, FuzzerTypeOK, ThreadPlaces
<1> USE DEF FuzzerTypeOK, ThreadPlaces, Working, Quiet, Holding, Exceptions, Woken,
            fuzzerVars, ThreadState, Placement, NoneAlive, Alive
<1>1. CASE BeginDirectory
  BY <1>0, <1>1 DEF BeginDirectory
<1>2. CASE TargetDone
  BY <1>0, <1>2 DEF TargetDone
<1>3. CASE SetupDone
  BY <1>0, <1>3 DEF SetupDone, setup_threads
<1>4. CASE SetupRaises
  BY <1>0, <1>4 DEF SetupRaises
<1>5. CASE StartPlay
  BY <1>0, <1>5 DEF StartPlay, SetPlay
<1>6. CASE StartClear
  BY <1>0, <1>6 DEF StartClear, ClearQuit
<1>7. CASE Launch
  BY <1>0, <1>7 DEF Launch, StartThread
<1>8. CASE Finished
  BY <1>0, <1>8 DEF Finished
<1>9. CASE StopIdle
  BY <1>0, <1>9 DEF StopIdle
<1>10. CASE StopWorkers
  BY <1>0, <1>10 DEF StopWorkers, SetQuit
<1>11. CASE Joined
  BY <1>0, <1>11 DEF Joined
<1>12. CASE JoinTimeout
  BY <1>0, <1>12 DEF JoinTimeout
<1>13. CASE EndDirectory
  BY <1>0, <1>13 DEF EndDirectory
<1>14. CASE SkipTarget
  BY <1>0, <1>14 DEF SkipTarget
<1>15. CASE Exit
  BY <1>0, <1>15 DEF Exit
<1>16. CASE DeadlinePassed
  BY <1>0, <1>16 DEF DeadlinePassed
<1> QED
  BY <1>1, <1>2, <1>3, <1>4, <1>5, <1>6, <1>7, <1>8, <1>9, <1>10, <1>11, <1>12, <1>13, <1>14, <1>15, <1>16 DEF MainAction

\* What the main thread does to its own state.
LEMMA MainPlacement ==
  ASSUME Control, MainAction, OutsideHandler
  PROVE  /\ Placement'
         /\ main' \in {"next", "setup", "play", "clear", "launch", "process", "stop", "join",
                       "reset", "unwind", "over"}
         /\ pending' \in Exceptions \cup {"none"}
         /\ outcome' \in {"running", "completed", "skipped", "quit", "failed"}
         /\ directories' \in Seq(Dirs) /\ passed' \in SUBSET Dirs
         /\ base' \in Dirs \cup {NoDir}
<1>0. FuzzerTypeOK /\ TypeOK /\ ThreadState /\ Placement /\ ThreadCount \in Threads
  BY FuzzerAssumption DEF Control, TypeOK, FuzzerTypeOK, ThreadPlaces, Threads
<1> USE DEF FuzzerTypeOK, TypeOK, ThreadPlaces, Exceptions, Woken, GoTo, Leave, mainVars,
            fuzzerVars, OutsideHandler, Placement, NoneAlive, Alive
<1>1. CASE BeginDirectory
  BY <1>0, <1>1 DEF BeginDirectory
<1>2. CASE TargetDone
  BY <1>0, <1>2 DEF TargetDone
<1>3. CASE SetupDone
  BY <1>0, <1>3 DEF SetupDone, setup_threads
<1>4. CASE SetupRaises
  BY <1>0, <1>4 DEF SetupRaises
<1>5. CASE StartPlay
  BY <1>0, <1>5 DEF StartPlay, SetPlay
<1>6. CASE StartClear
  BY <1>0, <1>6 DEF StartClear, ClearQuit
<1>7. CASE Launch
  <2>1. PICK t \in Threads : StartThread(t)
    BY <1>7 DEF Launch
  <2>2. /\ main = "launch" /\ pc[ThreadCount] = "new"
        /\ pc' = [pc EXCEPT ![t] = "claim"]
        /\ \A u \in Threads : u < t => pc[u] # "new"
    BY <1>0, <1>7, <2>1 DEF Launch, StartThread
  <2>3. CASE pc'[ThreadCount] = "new"
    BY <1>0, <1>7, <2>2, <2>3 DEF Launch
  <2>4. CASE pc'[ThreadCount] # "new"
    <3>1. t = ThreadCount
      BY <1>0, <2>2, <2>4
    <3>2. \A u \in Threads : u = t \/ u < t
      BY <3>1, FuzzerAssumption DEF Threads
    <3>3. \A u \in Threads : pc'[u] # "new"
      BY <1>0, <2>2, <3>2
    <3>4. main' = "process" /\ UNCHANGED <<pending, outcome, directories, passed, base>>
      BY <1>7, <2>4 DEF Launch
    <3> QED
      BY <1>0, <2>2, <3>3, <3>4
  <2> QED
    BY <2>3, <2>4
<1>8. CASE Finished
  BY <1>0, <1>8 DEF Finished
<1>9. CASE StopIdle
  BY <1>0, <1>9 DEF StopIdle
<1>10. CASE StopWorkers
  BY <1>0, <1>10 DEF StopWorkers, SetQuit
<1>11. CASE Joined
  BY <1>0, <1>11 DEF Joined
<1>12. CASE JoinTimeout
  BY <1>0, <1>12 DEF JoinTimeout
<1>13. CASE EndDirectory
  BY <1>0, <1>13 DEF EndDirectory
<1>14. CASE SkipTarget
  BY <1>0, <1>14 DEF SkipTarget
<1>15. CASE Exit
  BY <1>0, <1>15 DEF Exit
<1>16. CASE DeadlinePassed
  BY <1>0, <1>16 DEF DeadlinePassed
<1> QED
  BY <1>1, <1>2, <1>3, <1>4, <1>5, <1>6, <1>7, <1>8, <1>9, <1>10, <1>11, <1>12, <1>13, <1>14, <1>15, <1>16 DEF MainAction

\* The handler's steps change the events and the semaphore, where the handler is,
\* and where it leaves the main thread.
HandlerAction == Signal \/ HandlerStep

LEMMA HandlerControl ==
  ASSUME Control, HandlerAction
  PROVE  Control'
<1>0. TypeOK /\ FuzzerTypeOK /\ ThreadState /\ Placement /\ ThreadCount \in Nat
  BY FuzzerAssumption DEF Control, TypeOK, FuzzerTypeOK, ThreadPlaces
<1>1. DictTypeOK' /\ nativeClaim' = NoClaim
  <2>1. UNCHANGED dictVars
    BY DEF HandlerAction, HandlerStep, Signal, PauseCheck, PauseAcquire, PauseTimeout,
         ChooseContinue, ChooseNext, ChooseSkip, ChooseQuit, ChooseSave, SaveState,
         SaveDictionary, SaveFails
  <2> QED
    BY <2>1 DEF dictVars, Control, TypeOK, DictTypeOK
<1>2. uncommitted' \in Seq(Dirs \X Paths) /\ durable' \in SUBSET (Dirs \X Paths)
  <2>1. Commit \/ UNCHANGED reportVars
    BY DEF HandlerAction, HandlerStep, Signal, PauseCheck, PauseAcquire, PauseTimeout,
         ChooseContinue, ChooseNext, ChooseSkip, ChooseQuit, ChooseSave, SaveState,
         SaveDictionary, SaveFails
  <2> QED
    BY <1>0, <2>1, CommitRows
<1>3. FuzzerTypeOK' /\ ThreadState' /\ UNCHANGED leaving
      /\ \A t \in Threads : pc'[t] = pc[t] \/ (pc[t] = "parked" /\ pc'[t] = "check")
  <2> USE DEF FuzzerTypeOK, ThreadPlaces, ThreadState, Working, Quiet, Holding, Woken,
              fuzzerVars
  <2>1. CASE Signal
    BY <1>0, <2>1 DEF Signal, ClearPlay
  <2>2. CASE PauseAcquire
    BY <1>0, <2>2 DEF PauseAcquire, AcquireToken
  <2>3. CASE ChooseContinue
    BY <1>0, <2>3 DEF ChooseContinue, SetPlay
  <2>4. CASE ChooseNext
    BY <1>0, <2>4 DEF ChooseNext, SetQuit
  <2>5. CASE UNCHANGED fuzzerVars
    BY <1>0, <2>5
  <2> QED
    BY <2>1, <2>2, <2>3, <2>4, <2>5
      DEF HandlerAction, HandlerStep, PauseCheck, PauseTimeout, ChooseSkip, ChooseQuit,
          ChooseSave, SaveState, SaveDictionary, SaveFails
<1>4. \/ UNCHANGED mainVars
      \/ /\ handler # "off" /\ handler' = "off"
         /\ main' = IF main \in {"setup", "play", "clear", "launch", "process"}
                      THEN "stop" ELSE "unwind"
         /\ pending' \in Exceptions
         /\ UNCHANGED <<outcome, directories, passed, base>>
  BY DEF HandlerAction, HandlerStep, Signal, PauseCheck, PauseAcquire, PauseTimeout,
       ChooseContinue, ChooseNext, ChooseSkip, ChooseQuit, ChooseSave, SaveState,
       SaveDictionary, SaveFails, RaiseInMain, Exceptions
<1>5. /\ handler' \in InMenu \cup {"off", "pausing", "acquiring"}
      /\ handling' \in BOOLEAN /\ paused' \in BOOLEAN /\ timedOut' \in BOOLEAN
      /\ position' \in 1 .. ThreadCount + 1 /\ signals' \in Nat
  <2> USE DEF InMenu, TypeOK, PauseReturns, RaiseInMain
  <2>1. CASE Signal
    BY <1>0, <2>1 DEF Signal
  <2>2. CASE PauseCheck
    <3>1. /\ position \in 1 .. ThreadCount + 1 /\ handling' = handling
          /\ signals' = signals /\ timedOut' = timedOut
      BY <1>0, <2>2 DEF PauseCheck
    <3>2. CASE position > ThreadCount
      BY <1>0, <2>2, <3>1, <3>2 DEF PauseCheck
    <3>3. CASE position <= ThreadCount
      <4>1. ~(position > ThreadCount) /\ position + 1 \in 1 .. ThreadCount + 1
        BY <1>0, <3>1, <3>3
      <4> QED
        BY <1>0, <2>2, <3>1, <4>1 DEF PauseCheck
    <3> QED
      BY <1>0, <3>1, <3>2, <3>3
  <2>3. CASE PauseAcquire
    BY <1>0, <2>3 DEF PauseAcquire, Placement
  <2>4. CASE PauseTimeout
    BY <1>0, <2>4 DEF PauseTimeout
  <2>5. CASE ChooseContinue \/ ChooseNext \/ ChooseSkip \/ ChooseQuit \/ ChooseSave
             \/ SaveState \/ SaveDictionary \/ SaveFails
    BY <1>0, <2>5 DEF ChooseContinue, ChooseNext, ChooseSkip, ChooseQuit, ChooseSave,
         SaveState, SaveDictionary, SaveFails
  <2> QED
    BY <2>1, <2>2, <2>3, <2>4, <2>5 DEF HandlerAction, HandlerStep
<1>6. Placement'
  <2>1. NoneAlive => NoneAlive'
    BY <1>3 DEF NoneAlive, Alive
  <2>2. \A t \in Threads : pc'[t] = "new" <=> pc[t] = "new"
    BY <1>3
  <2>3. ThreadCount \in Threads
    BY FuzzerAssumption DEF Threads
  <2>4. /\ handler' # "off" => main' \notin {"unwind", "over"}
        /\ handler' = "acquiring" => position' <= ThreadCount
    BY <1>0, <1>4 DEF HandlerAction, HandlerStep, Signal, PauseCheck, PauseAcquire, PauseTimeout,
       ChooseContinue, ChooseNext, ChooseSkip, ChooseQuit, ChooseSave, SaveState,
       SaveDictionary, SaveFails, RaiseInMain, PauseReturns, Placement, mainVars, TypeOK
  <2>5. CASE UNCHANGED mainVars
    BY <1>0, <1>3, <2>1, <2>2, <2>3, <2>4, <2>5 DEF Placement, mainVars
  <2>6. CASE ~UNCHANGED mainVars
    BY <1>0, <1>3, <1>4, <2>1, <2>4, <2>6 DEF Placement
  <2> QED
    BY <2>5, <2>6
<1>7. TypeOK'
  BY <1>0, <1>1, <1>2, <1>3, <1>4, <1>5
    DEF TypeOK, FuzzerTypeOK, ThreadPlaces, mainVars, Exceptions
<1> QED
  BY <1>1, <1>3, <1>6, <1>7 DEF Control

LEMMA MainControl ==
  ASSUME Control, OutsideHandler, MainAction
  PROVE  Control'
<1>1. TypeOK'
  BY MainRecords, MainFuzzerTypeOK, MainPlacement
    DEF Control, TypeOK, FuzzerTypeOK, ThreadPlaces, OutsideHandler
<1> QED
  BY <1>1, MainRecords, MainFuzzerTypeOK, MainPlacement DEF Control

\* The parts of Next, as the lemmas name them.
LEMMA NextParts ==
  ASSUME [Next]_vars
  PROVE  \/ \E t \in Threads : ThreadStep(t)
         \/ OutsideHandler /\ MainAction
         \/ HandlerAction
         \/ UNCHANGED vars
BY DEF Next, MainStep, Deadline, MainAction, HandlerAction, Over

LEMMA NextControl ==
  ASSUME Control, [Next]_vars
  PROVE  Control'
<1>1. CASE UNCHANGED vars
  BY <1>1 DEF vars, dictVars, fuzzerVars, mainVars, handlerVars, reportVars, Control, TypeOK,
       DictTypeOK, Placement, ThreadState, NoneAlive, Alive
<1> QED
  BY <1>1, NextParts, ThreadControl, MainControl, HandlerControl

-----------------------------------------------------------------------------
(* The claims are what the threads hold                                    *)

\* A path that occurs in a sequence is one of its members.
LEMMA OccurringIsMember ==
  ASSUME NEW S, NEW s \in Seq(S), NEW p
  PROVE  Occurrences(s, p) # 0 <=> p \in ToSet(s)
<1> DEFINE at == {i \in 1 .. Len(s) : s[i] = p}
<1>1. Len(s) \in Nat /\ DOMAIN s = 1 .. Len(s)
  BY LenProperties
<1>2. IsFiniteSet(at)
  <2>1. IsFiniteSet(1 .. Len(s)) /\ at \subseteq 1 .. Len(s)
    BY <1>1, FS_Interval
  <2> QED
    BY <2>1, FS_Subset
<1>3. Cardinality(at) = 0 <=> at = {}
  BY <1>2, FS_EmptySet
<1>4. at = {} <=> p \notin ToSet(s)
  <2>1. ToSet(s) = {s[i] : i \in 1 .. Len(s)}
    BY <1>1 DEF ToSet
  <2> QED
    BY <2>1
<1> QED
  BY <1>3, <1>4 DEF Occurrences

LEMMA ThreadSets ==
  ASSUME NEW H \in SUBSET Threads
  PROVE  IsFiniteSet(H) /\ Cardinality(H) \in Nat
<1>1. IsFiniteSet(Threads)
  BY FuzzerAssumption, FS_Interval DEF Threads
<1> QED
  BY <1>1, FS_Subset, FS_CardinalityType

\* A claim: the path is claimed once more and held by one thread more.
LEMMA ThreadClaimClaims ==
  ASSUME Control, ClaimsHeld, outcome = "running", NEW t \in Threads, ThreadClaim(t)
  PROVE  \A p \in Paths :
           Occurrences(claimed', p) = Cardinality({u \in Threads : held'[u] = p})
<1>1. /\ claimed \in Seq(Paths) /\ claimed' = Append(claimed, NextPath) /\ NextPath \in Paths
      /\ held \in [Threads -> Paths \cup {NoPath}] /\ held' = [held EXCEPT ![t] = NextPath]
      /\ held[t] = NoPath
  BY DictStep DEF Control, TypeOK, DictTypeOK, ThreadState, Holding, ThreadClaim, claim_next
<1> SUFFICES ASSUME NEW p \in Paths
             PROVE  Occurrences(claimed', p) = Cardinality({u \in Threads : held'[u] = p})
  OBVIOUS
<1> DEFINE H == {u \in Threads : held[u] = p}
           K == {u \in Threads : held'[u] = p}
<1>2. Occurrences(claimed, p) = Cardinality(H) /\ IsFiniteSet(H) /\ Cardinality(H) \in Nat
  BY ThreadSets DEF ClaimsHeld
<1>3. Occurrences(claimed', p) = Occurrences(claimed, p) + (IF NextPath = p THEN 1 ELSE 0)
  BY <1>1, OccurrencesAppend
<1>4. t \notin H /\ K = IF NextPath = p THEN H \cup {t} ELSE H
  BY <1>1, FuzzerAssumption
<1> HIDE DEF H, K
<1>5. Cardinality(H \cup {t}) = Cardinality(H) + 1
  BY <1>2, <1>4, FS_AddElement
<1>6. Occurrences(claimed', p) = Cardinality(K)
  BY <1>2, <1>3, <1>4, <1>5
<1> QED
  BY <1>6 DEF K

\* A release: the path is claimed once less and held by one thread less.
LEMMA ThreadReleaseClaims ==
  ASSUME Control, ClaimsHeld, outcome = "running", NEW t \in Threads, ThreadRelease(t)
  PROVE  \A p \in Paths :
           Occurrences(claimed', p) = Cardinality({u \in Threads : held'[u] = p})
<1> DEFINE q == held[t]
<1>1. /\ held \in [Threads -> Paths \cup {NoPath}] /\ held' = [held EXCEPT ![t] = NoPath]
      /\ claimed \in Seq(Paths) /\ q \in ToSet(claimed) /\ claimed' = RemoveFirst(claimed, q)
  BY DEF Control, TypeOK, DictTypeOK, ThreadRelease, release_claim
<1>2. /\ claimed' \in Seq(Paths)
      /\ \A p : Occurrences(claimed, p) = Occurrences(claimed', p) + (IF q = p THEN 1 ELSE 0)
  <2> HIDE DEF q
  <2> QED
    BY <1>1, OccurrencesRemoveFirst
<1> SUFFICES ASSUME NEW p \in Paths
             PROVE  Occurrences(claimed', p) = Cardinality({u \in Threads : held'[u] = p})
  OBVIOUS
<1> DEFINE H == {u \in Threads : held[u] = p}
           K == {u \in Threads : held'[u] = p}
<1>3. Occurrences(claimed, p) = Cardinality(H) /\ IsFiniteSet(H) /\ Cardinality(H) \in Nat
  BY ThreadSets DEF ClaimsHeld
<1>4. K = H \ {t} /\ (t \in H <=> q = p)
  BY <1>1, FuzzerAssumption
<1>5. Occurrences(claimed', p) \in Nat
  BY <1>2, OccurrencesType
<1> HIDE DEF H, K, q
<1>6. Cardinality(K) = IF q = p THEN Cardinality(H) - 1 ELSE Cardinality(H)
  BY <1>3, <1>4, FS_RemoveElement
<1>7. Occurrences(claimed', p) = Cardinality(K)
  BY <1>2, <1>3, <1>5, <1>6
<1> QED
  BY <1>7 DEF K

\* What a thread holds it finds among the claims.
LEMMA HeldIsClaimed ==
  ASSUME Control, ClaimsHeld, outcome = "running", NEW t \in Threads, held[t] # NoPath
  PROVE  held[t] \in ToSet(claimed)
<1> DEFINE q == held[t]
           H == {u \in Threads : held[u] = q}
<1>1. q \in Paths /\ claimed \in Seq(Paths)
  BY DEF Control, TypeOK, DictTypeOK
<1>2. Occurrences(claimed, q) = Cardinality(H) /\ IsFiniteSet(H) /\ t \in H
  BY <1>1, ThreadSets DEF ClaimsHeld
<1> HIDE DEF q, H
<1>3. Cardinality(H) # 0
  BY <1>2, FS_EmptySet
<1>4. q \in ToSet(claimed)
  BY <1>1, <1>2, <1>3, OccurringIsMember
<1> QED
  BY <1>4 DEF q

\* When no thread is alive, none holds a path.
LEMMA NobodyHolds ==
  ASSUME Control, NoneAlive, NEW p \in Paths
  PROVE  Cardinality({u \in Threads : held[u] = p}) = 0
<1>1. \A u \in Threads : held[u] = NoPath
  BY DEF Control, ThreadState, NoneAlive, Alive, Holding
<1>2. {u \in Threads : held[u] = p} = {}
  BY <1>1, FuzzerAssumption
<1> QED
  BY <1>2, FS_EmptySet

LEMMA NextClaims ==
  ASSUME Control, ClaimsHeld, [Next]_vars
  PROVE  ClaimsHeld'
<1>1. nativeClaim' = NoClaim
  BY NextControl DEF Control
<1>2. CASE UNCHANGED <<claimed, held>> /\ (outcome' = "running" => outcome = "running")
  BY <1>1, <1>2 DEF ClaimsHeld
<1>3. ASSUME NEW t \in Threads, ThreadStep(t) PROVE ClaimsHeld'
  <2>1. outcome' = outcome
    BY <1>3, ThreadMoves
  <2>2. CASE ThreadClaim(t)
    BY <1>1, <2>1, <2>2, ThreadClaimClaims DEF ClaimsHeld
  <2>3. CASE ThreadRelease(t)
    BY <1>1, <2>1, <2>3, ThreadReleaseClaims DEF ClaimsHeld
  <2>4. CASE ThreadReleaseFails(t)
    <3>1. held[t] # NoPath /\ held[t] \notin ToSet(claimed)
      BY <2>4 DEF ThreadReleaseFails, Control, ThreadState, Holding
    <3>2. outcome # "running"
      BY <3>1, HeldIsClaimed
    <3> QED
      BY <1>1, <2>1, <3>2 DEF ClaimsHeld
  <2>5. CASE UNCHANGED <<claimed, held>>
    BY <1>2, <2>1, <2>5
  <2> QED
    BY <1>3, <2>2, <2>3, <2>4, <2>5
      DEF ThreadStep, Miss, RequestRaises, CallbackRaises, ScanRaises, Match, Crawl, Report, ThreadExhausted,
          ThreadRaise, ThreadTail, ThreadWait, ThreadCheck, MoveTo, add_extra, dictVars
<1>4. CASE OutsideHandler /\ MainAction
  <2>1. CASE EndDirectory
    <3>1. NoneAlive /\ claimed' = <<>> /\ held' = held
      BY <2>1 DEF EndDirectory, reset, fuzzerVars, Control, Placement
    <3> QED
      BY <1>1, <3>1, NobodyHolds, OccurrencesEmpty DEF ClaimsHeld
  <2>2. CASE SkipTarget
    BY <1>1, <2>2 DEF SkipTarget, ClaimsHeld
  <2>3. CASE ~EndDirectory /\ ~SkipTarget
    <3>1. UNCHANGED <<claimed, held>>
      BY <1>4, <2>3 DEF MainAction, BeginDirectory, TargetDone, SetupDone, SetupRaises,
           StartPlay, StartClear, Launch, Finished, StopIdle, StopWorkers, Joined, JoinTimeout,
           Exit, DeadlinePassed, dictVars, fuzzerVars, setup_threads, SetPlay, ClearQuit,
           StartThread, SetQuit
    <3>2. outcome' = "running" => outcome = "running"
      BY <1>4, <2>3 DEF MainAction, BeginDirectory, TargetDone, SetupDone, SetupRaises,
           StartPlay, StartClear, Launch, Finished, StopIdle, StopWorkers, Joined, JoinTimeout,
           Exit, DeadlinePassed, GoTo, Leave, mainVars
    <3> QED
      BY <1>2, <3>1, <3>2
  <2> QED
    BY <2>1, <2>2, <2>3
<1>5. CASE HandlerAction
  <2>1. UNCHANGED <<claimed, held, outcome>>
    BY <1>5 DEF HandlerAction, HandlerStep, Signal, PauseCheck, PauseAcquire, PauseTimeout,
         ChooseContinue, ChooseNext, ChooseSkip, ChooseQuit, ChooseSave, SaveState,
         SaveDictionary, SaveFails, RaiseInMain, dictVars, fuzzerVars, mainVars, ClearPlay,
         AcquireToken, SetPlay, SetQuit
  <2> QED
    BY <1>2, <2>1
<1>6. CASE UNCHANGED vars
  BY <1>2, <1>6 DEF vars, dictVars, fuzzerVars, mainVars
<1> QED
  BY <1>3, <1>4, <1>5, <1>6, NextParts

-----------------------------------------------------------------------------
(* A directory whose threads ended by themselves was scanned in full       *)

\* Claims nobody holds are no claims.
LEMMA NoneHeldNoneClaimed ==
  ASSUME Control, ClaimsHeld, NoneAlive, outcome = "running"
  PROVE  claimed = <<>>
<1>1. claimed \in Seq(Paths) /\ DOMAIN claimed = 1 .. Len(claimed) /\ Len(claimed) \in Nat
  BY LenProperties DEF Control, TypeOK, DictTypeOK
<1>2. \A p \in Paths : Occurrences(claimed, p) = 0
  BY NobodyHolds DEF ClaimsHeld
<1>3. \A p \in Paths : p \notin ToSet(claimed)
  BY <1>1, <1>2, OccurringIsMember
<1>4. CASE Len(claimed) # 0
  <2>1. claimed[1] \in Paths /\ claimed[1] \in ToSet(claimed)
    BY <1>1, <1>4, ElementOfSeq DEF ToSet
  <2> QED
    BY <1>3, <2>1
<1>5. CASE Len(claimed) = 0
  BY <1>1, <1>5, EmptySeq
<1> QED
  BY <1>4, <1>5

\* A thread that discovers a path, or claims one, has not met StopIteration.
LEMMA ThreadDraining ==
  ASSUME Control, Draining, NEW t \in Threads, ThreadStep(t)
  PROVE  Draining'
<1>1. /\ Alive(t) /\ UNCHANGED <<main, pending>>
      /\ \A u \in Threads \ {t} :
           pc'[u] = pc[u] \/ (pc[u] = "parked" /\ pc'[u] = "check")
  BY ThreadMoves
<1>2. ~(main = "stop" /\ pending = "none")
  BY <1>1 DEF Draining, NoneAlive
<1> SUFFICES ASSUME main \in {"launch", "process"}, ~quit'
             PROVE  /\ \A u \in Threads : pc'[u] = "dead" => u \in leaving'
                    /\ Exhausted' \/ leaving' # Threads
  BY <1>1, <1>2 DEF Draining
<1>3. ~quit
  BY DEF ThreadStep, Miss, RequestRaises, CallbackRaises, ScanRaises, Match, Crawl, Report, ThreadClaim,
       ThreadExhausted, ThreadRelease, ThreadReleaseFails, ThreadRaise, ThreadTail, ThreadWait,
       ThreadCheck, MoveTo
<1>4. leaving \subseteq leaving' /\ (pc'[t] = "dead" => t \in leaving)
  <2>1. pc \in [Threads -> ThreadPlaces]
    BY DEF Control, TypeOK, ThreadPlaces
  <2> QED
    BY <1>3, <2>1 DEF ThreadStep, Miss, RequestRaises, CallbackRaises, ScanRaises, Match, Crawl, Report,
       ThreadClaim, ThreadExhausted, ThreadRelease, ThreadReleaseFails, ThreadRaise, ThreadTail,
       ThreadWait, ThreadCheck, MoveTo, Woken
<1>5. \A u \in Threads : pc'[u] = "dead" => u \in leaving'
  BY <1>1, <1>3, <1>4 DEF Draining
<1>6. Exhausted' \/ leaving' # Threads
  <2>1. CASE ThreadExhausted(t)
    BY <2>1 DEF ThreadExhausted, Exhausted, dictVars
  <2>2. CASE Crawl(t) \/ ThreadClaim(t)
    <3>1. t \notin leaving /\ leaving' = leaving
      BY <2>2 DEF Crawl, ThreadClaim, MoveTo, Control, ThreadState, Quiet
    <3> QED
      BY <3>1
  <2>3. CASE ~ThreadExhausted(t) /\ ~Crawl(t) /\ ~ThreadClaim(t)
    <3>1. UNCHANGED <<index, extra, extraIndex, leaving>>
      BY <2>3 DEF ThreadStep, Miss, RequestRaises, CallbackRaises, ScanRaises, Match, Report,
         ThreadRelease, ThreadReleaseFails, ThreadRaise, ThreadTail, ThreadWait, ThreadCheck,
         MoveTo, release_claim, dictVars
    <3> QED
      BY <1>3, <3>1 DEF Draining, Exhausted
  <2> QED
    BY <2>1, <2>2, <2>3
<1> QED
  BY <1>5, <1>6

LEMMA MainDraining ==
  ASSUME Control, ClaimsHeld, Draining, MainAction
  PROVE  Draining'
<1>0. FuzzerTypeOK /\ Placement /\ ThreadState
  BY DEF Control, TypeOK, FuzzerTypeOK, ThreadPlaces
<1> USE DEF GoTo, Leave, fuzzerVars
<1>1. CASE StartClear
  <2>1. /\ main' = "launch" /\ UNCHANGED <<pc, leaving>>
        /\ \A t \in Threads : pc[t] = "new" /\ t \notin leaving
    BY <1>0, <1>1 DEF StartClear, ClearQuit, Placement
  <2>2. ThreadCount \in Threads
    BY FuzzerAssumption DEF Threads
  <2> QED
    BY <2>1, <2>2 DEF Draining
<1>2. CASE Launch
  <2>1. PICK t \in Threads : StartThread(t)
    BY <1>2 DEF Launch
  <2>2. /\ main = "launch" /\ main' \in {"launch", "process"}
        /\ UNCHANGED <<index, extra, extraIndex, leaving, quit>>
        /\ \A u \in Threads : pc'[u] = "dead" => pc[u] = "dead"
    BY <1>0, <1>2, <2>1 DEF Launch, StartThread, dictVars, mainVars, FuzzerTypeOK
  <2> QED
    BY <2>2 DEF Draining, Exhausted
<1>3. CASE Finished
  <2>1. /\ main = "process" /\ NoneAlive /\ main' = "stop"
        /\ UNCHANGED <<index, extra, extraIndex, claimed, pc, leaving, quit>>
        /\ outcome = "running"
    BY <1>0, <1>3 DEF Finished, dictVars, Placement
  <2>2. claimed = <<>>
    BY <2>1, NoneHeldNoneClaimed
  <2>3. \A t \in Threads : pc[t] = "dead"
    BY <1>0, <2>1 DEF Placement, NoneAlive, Alive
  <2>4. ASSUME ~quit PROVE Exhausted
    <3>1. Threads = leaving
      BY <2>1, <2>3, <2>4 DEF Draining, Control, TypeOK
    <3> QED
      BY <2>1, <2>4, <3>1 DEF Draining
  <2> QED
    BY <2>1, <2>2, <2>4 DEF Draining, Exhausted, NoneAlive, Alive
<1>4. CASE DeadlinePassed \/ SetupRaises
  BY <1>4 DEF DeadlinePassed, SetupRaises, Draining
<1>5. CASE BeginDirectory \/ TargetDone \/ SetupDone \/ StartPlay \/ StopIdle \/ StopWorkers
           \/ Joined \/ JoinTimeout \/ EndDirectory \/ SkipTarget \/ Exit
  <2>1. main' \notin {"launch", "process", "stop"}
    BY <1>5 DEF BeginDirectory, TargetDone, SetupDone, StartPlay, StopIdle, StopWorkers,
         Joined, JoinTimeout, EndDirectory, SkipTarget, Exit
  <2> QED
    BY <2>1 DEF Draining
<1> QED
  BY <1>1, <1>2, <1>3, <1>4, <1>5 DEF MainAction

LEMMA HandlerDraining ==
  ASSUME Control, Draining, HandlerAction
  PROVE  Draining'
<1>1. /\ UNCHANGED dictVars
      /\ \/ UNCHANGED <<main, pending>>
         \/ main' \in {"stop", "unwind"} /\ pending' # "none"
  BY DEF HandlerAction, HandlerStep, Signal, PauseCheck, PauseAcquire, PauseTimeout,
       ChooseContinue, ChooseNext, ChooseSkip, ChooseQuit, ChooseSave, SaveState,
       SaveDictionary, SaveFails, RaiseInMain, mainVars
<1>2. UNCHANGED leaving /\ (quit' = quit \/ quit' = TRUE)
  BY DEF HandlerAction, HandlerStep, Signal, PauseCheck, PauseAcquire, PauseTimeout,
       ChooseContinue, ChooseNext, ChooseSkip, ChooseQuit, ChooseSave, SaveState,
       SaveDictionary, SaveFails, fuzzerVars, ClearPlay, AcquireToken, SetPlay, SetQuit
<1>3. \A t \in Threads : pc'[t] = pc[t] \/ (pc[t] = "parked" /\ pc'[t] = "check")
  <2>1. pc' = pc \/ pc' = Woken(pc)
    BY DEF HandlerAction, HandlerStep, Signal, PauseCheck, PauseAcquire, PauseTimeout,
       ChooseContinue, ChooseNext, ChooseSkip, ChooseQuit, ChooseSave, SaveState,
       SaveDictionary, SaveFails, fuzzerVars, ClearPlay, AcquireToken, SetPlay, SetQuit
  <2> QED
    BY <2>1 DEF Woken
<1> QED
  BY <1>1, <1>2, <1>3 DEF Draining, NoneAlive, Alive, Exhausted, dictVars

LEMMA NextDraining ==
  ASSUME Control, ClaimsHeld, Draining, [Next]_vars
  PROVE  Draining'
<1>1. CASE UNCHANGED vars
  BY <1>1 DEF vars, dictVars, fuzzerVars, mainVars, Draining, NoneAlive, Alive, Exhausted
<1> QED
  BY <1>1, NextParts, ThreadDraining, MainDraining, HandlerDraining

-----------------------------------------------------------------------------
(* A pause that succeeds has stopped every thread                          *)

Sound == ~timedOut /\ exc = "none"
QuietThreads == {t \in Threads : pc[t] \in Quiet}
PassedAlive == {t \in Threads : t < position /\ Alive(t)}

\* As long as no exception is recorded, a thread moves alone; it joins the quiet
\* threads only by announcing itself, and leaves them only when play is set.
LEMMA ThreadAnnounces ==
  ASSUME Control, NEW t \in Threads, ThreadStep(t), exc' = "none"
  PROVE  /\ exc = "none" /\ play' = play
         /\ \A u \in Threads \ {t} : pc'[u] = pc[u]
         /\ \/ /\ pc[t] \in Working \cup {"check"} /\ pc'[t] \notin Quiet
               /\ sem' = sem
            \/ pc[t] = "tail" /\ ~play /\ pc'[t] = "acked" /\ sem' = sem + 1
            \/ /\ pc[t] = "acked" /\ sem' = sem
               /\ pc'[t] = IF play THEN "check" ELSE "parked"
<1>0. FuzzerTypeOK /\ ThreadState
  BY DEF Control, TypeOK, FuzzerTypeOK, ThreadPlaces
<1> USE DEF FuzzerTypeOK, Working, Quiet, MoveTo
<1>1. CASE ThreadRaise(t)
  BY <1>0, <1>1 DEF ThreadRaise, ThreadState
<1>2. CASE ThreadTail(t)
  BY <1>0, <1>2 DEF ThreadTail
<1>3. CASE ThreadWait(t)
  BY <1>0, <1>3 DEF ThreadWait
<1>4. CASE Miss(t) \/ RequestRaises(t) \/ CallbackRaises(t) \/ Match(t) \/ Crawl(t) \/ Report(t)
  BY <1>0, <1>4 DEF Miss, RequestRaises, CallbackRaises, ScanRaises, Match, Crawl, Report
<1>5. CASE ThreadClaim(t) \/ ThreadExhausted(t) \/ ThreadRelease(t) \/ ThreadReleaseFails(t)
           \/ ThreadCheck(t)
  BY <1>0, <1>5 DEF ThreadClaim, ThreadExhausted, ThreadRelease, ThreadReleaseFails, ThreadCheck
<1> QED
  BY <1>1, <1>2, <1>3, <1>4, <1>5 DEF ThreadStep

LEMMA ThreadAnnounced ==
  ASSUME Control, Announced, NEW t \in Threads, ThreadStep(t)
  PROVE  Announced'
<1>1. /\ UNCHANGED <<main, handler, position, timedOut>>
      /\ Alive(t)
  BY ThreadMoves DEF handlerVars
<1>2. play' = play \/ play' = TRUE
  BY DEF ThreadStep, Miss, RequestRaises, CallbackRaises, ScanRaises, Match, Crawl, Report, ThreadClaim,
       ThreadExhausted, ThreadRelease, ThreadReleaseFails, ThreadRaise, ThreadTail, ThreadWait,
       ThreadCheck, MoveTo
<1> SUFFICES ASSUME ~timedOut, exc' = "none"
             PROVE  /\ handler # "off" => ~play'
                    /\ handler \in {"pausing", "acquiring"} =>
                         sem' + Cardinality(PassedAlive') <= Cardinality(QuietThreads')
                    /\ handler \in InMenu => sem' = 0 /\ NoneWorking'
                    /\ handler = "off" => sem' = 0 /\ (play' \/ NoneWorking')
  BY <1>1, <1>2 DEF Announced, PassedAlive, QuietThreads
<1>3. /\ exc = "none" /\ play' = play
      /\ \A u \in Threads \ {t} : pc'[u] = pc[u]
      /\ \/ pc[t] \in Working \cup {"check"} /\ pc'[t] \notin Quiet /\ sem' = sem
         \/ pc[t] = "tail" /\ ~play /\ pc'[t] = "acked" /\ sem' = sem + 1
         \/ /\ pc[t] = "acked" /\ sem' = sem
            /\ pc'[t] = IF play THEN "check" ELSE "parked"
  BY ThreadAnnounces
<1>4. /\ handler # "off" => ~play
      /\ handler \in {"pausing", "acquiring"} =>
           sem + Cardinality(PassedAlive) <= Cardinality(QuietThreads)
      /\ handler \in InMenu => sem = 0 /\ NoneWorking
      /\ handler = "off" => sem = 0 /\ (play \/ NoneWorking)
  BY <1>3 DEF Announced, PassedAlive, QuietThreads
<1>5. ASSUME ~play, NoneWorking PROVE sem' = sem /\ NoneWorking'
  BY <1>3, <1>5 DEF NoneWorking, Working
<1>6. ASSUME play PROVE sem' = sem
  BY <1>3, <1>6
<1>7. ASSUME handler \in {"pausing", "acquiring"}
      PROVE  sem' + Cardinality(PassedAlive') <= Cardinality(QuietThreads')
  <2>1. PassedAlive' \subseteq PassedAlive
    BY <1>1, <1>3 DEF PassedAlive, Alive
  <2>2. /\ IsFiniteSet(PassedAlive) /\ IsFiniteSet(QuietThreads)
        /\ Cardinality(PassedAlive) \in Nat /\ Cardinality(PassedAlive') \in Nat
        /\ Cardinality(QuietThreads) \in Nat /\ sem \in Nat
    <3>1. PassedAlive \in SUBSET Threads /\ QuietThreads \in SUBSET Threads
      BY DEF PassedAlive, QuietThreads
    <3>2. PassedAlive' \in SUBSET Threads
      BY <2>1, <3>1
    <3> QED
      BY <3>1, <3>2, ThreadSets DEF Control, TypeOK
  <2>3. Cardinality(PassedAlive') <= Cardinality(PassedAlive)
    BY <2>1, <2>2, FS_Subset
  <2>4. \/ sem' = sem /\ QuietThreads' = QuietThreads
        \/ sem' = sem + 1 /\ QuietThreads' = QuietThreads \cup {t} /\ t \notin QuietThreads
    <3>1. ~play
      BY <1>4, <1>7
    <3> QED
      BY <1>3, <3>1 DEF QuietThreads, Quiet, Working
  <2>5. sem' - sem = Cardinality(QuietThreads') - Cardinality(QuietThreads)
        /\ Cardinality(QuietThreads') \in Nat /\ sem' \in Nat
    <3> HIDE DEF QuietThreads
    <3>1. t \notin QuietThreads =>
            Cardinality(QuietThreads \cup {t}) = Cardinality(QuietThreads) + 1
      BY <2>2, FS_AddElement
    <3>2. CASE sem' = sem /\ QuietThreads' = QuietThreads
      BY <2>2, <3>2
    <3>3. CASE sem' = sem + 1 /\ QuietThreads' = QuietThreads \cup {t} /\ t \notin QuietThreads
      BY <2>2, <3>1, <3>3
    <3> QED
      BY <2>4, <3>2, <3>3
  <2>6. sem + Cardinality(PassedAlive) <= Cardinality(QuietThreads)
    BY <1>4, <1>7
  <2> HIDE DEF PassedAlive, QuietThreads
  <2> QED
    BY <2>2, <2>3, <2>5, <2>6
<1> QED
  BY <1>3, <1>4, <1>5, <1>6, <1>7 DEF InMenu

LEMMA MainAnnounced ==
  ASSUME Control, Announced, OutsideHandler, MainAction
  PROVE  Announced'
<1>0. FuzzerTypeOK
  BY DEF Control, TypeOK, FuzzerTypeOK, ThreadPlaces
<1>1. handler = "off" /\ UNCHANGED <<handler, timedOut>>
  BY DEF OutsideHandler
<1> SUFFICES /\ main' \in {"clear", "launch"} => play'
             /\ Sound' => sem' = 0 /\ (play' \/ NoneWorking')
  BY <1>1 DEF Announced, Sound, InMenu
<1>2. /\ main \in {"clear", "launch"} => play
      /\ Sound => sem = 0 /\ (play \/ NoneWorking)
  BY <1>1 DEF Announced, Sound
<1> USE DEF GoTo, Leave, Sound
<1>3. CASE SetupDone
  <2>1. NoneWorking'
    BY <1>3 DEF SetupDone, setup_threads, NoneWorking, Working
  <2> QED
    BY <1>1, <1>2, <1>3, <2>1 DEF SetupDone, setup_threads
<1>4. CASE StartPlay
  BY <1>1, <1>2, <1>4 DEF StartPlay, SetPlay
<1>5. CASE StopWorkers
  BY <1>1, <1>2, <1>5 DEF StopWorkers, SetQuit
<1>6. CASE StartClear
  BY <1>1, <1>2, <1>6 DEF StartClear, ClearQuit
<1>7. CASE Launch
  BY <1>1, <1>2, <1>7 DEF Launch, StartThread, mainVars
<1>8. CASE UNCHANGED fuzzerVars /\ main' \notin {"clear", "launch"}
  BY <1>1, <1>2, <1>8 DEF fuzzerVars, NoneWorking
<1> QED
  BY <1>3, <1>4, <1>5, <1>6, <1>7, <1>8 DEF MainAction, BeginDirectory, TargetDone,
       SetupRaises, Finished, StopIdle, Joined, JoinTimeout, EndDirectory, SkipTarget, Exit,
       DeadlinePassed

\* Fuzzer.pause has passed every thread: as many have announced themselves as
\* are alive, so none of the live ones can be at work.
LEMMA AllPassed ==
  ASSUME Control, position > ThreadCount,
         sem + Cardinality(PassedAlive) <= Cardinality(QuietThreads)
  PROVE  sem = 0 /\ NoneWorking
<1>1. \A t \in Threads : t < position
  BY FuzzerAssumption DEF Control, TypeOK, Threads
<1>2. QuietThreads \subseteq PassedAlive
  BY <1>1 DEF QuietThreads, PassedAlive, Quiet, Alive
<1>3. IsFiniteSet(PassedAlive) /\ Cardinality(PassedAlive) \in Nat
      /\ IsFiniteSet(QuietThreads) /\ Cardinality(QuietThreads) \in Nat /\ sem \in Nat
  <2>1. PassedAlive \in SUBSET Threads /\ QuietThreads \in SUBSET Threads
    BY DEF PassedAlive, QuietThreads
  <2> QED
    BY <2>1, ThreadSets DEF Control, TypeOK
<1>4. Cardinality(QuietThreads) <= Cardinality(PassedAlive)
      /\ (Cardinality(QuietThreads) = Cardinality(PassedAlive) => QuietThreads = PassedAlive)
  BY <1>2, <1>3, FS_Subset
<1>5. sem = 0 /\ QuietThreads = PassedAlive
  BY <1>3, <1>4
<1>6. NoneWorking
  <2> SUFFICES ASSUME NEW t \in Threads, pc[t] \in Working \cup {"check"}
               PROVE  FALSE
    BY DEF NoneWorking
  <2>1. t \in PassedAlive
    BY <1>1 DEF PassedAlive, Alive, Working
  <2>2. t \notin QuietThreads
    BY DEF QuietThreads, Quiet, Working
  <2> QED
    BY <1>5, <2>1, <2>2
<1> QED
  BY <1>5, <1>6

LEMMA HandlerAnnounced ==
  ASSUME Control, Announced, HandlerAction
  PROVE  Announced'
<1>0. /\ position \in 1 .. ThreadCount + 1 /\ ThreadCount \in Nat
      /\ PassedAlive \in SUBSET Threads /\ PassedAlive' \in SUBSET Threads
      /\ QuietThreads \in SUBSET Threads /\ sem \in Nat
  BY FuzzerAssumption DEF Control, TypeOK, PassedAlive, QuietThreads
<1>1. Sound => /\ handler # "off" => ~play
               /\ handler \in {"pausing", "acquiring"} =>
                    sem + Cardinality(PassedAlive) <= Cardinality(QuietThreads)
               /\ handler \in InMenu => sem = 0 /\ NoneWorking
               /\ handler = "off" => sem = 0 /\ (play \/ NoneWorking)
  BY DEF Announced, Sound, PassedAlive, QuietThreads
<1>2. CASE Signal
  <2>1. /\ handler = "off" /\ handler' = "pausing" /\ position' = 1 /\ play' = FALSE
        /\ UNCHANGED <<pc, sem, exc, timedOut>>
    BY <1>2 DEF Signal, ClearPlay
  <2>2. PassedAlive' = {} /\ QuietThreads' = QuietThreads
    BY <2>1 DEF PassedAlive, QuietThreads, Threads
  <2>3. Cardinality(PassedAlive') = 0 /\ Cardinality(QuietThreads) \in Nat
    BY <1>0, <2>2, ThreadSets, FS_EmptySet
  <2>4. Sound' => sem' + Cardinality(PassedAlive') <= Cardinality(QuietThreads')
    <3>1. ASSUME Sound' PROVE sem' = 0
      BY <1>1, <2>1, <3>1 DEF Sound
    <3> QED
      BY <2>2, <2>3, <3>1
  <2> QED
    BY <2>1, <2>4 DEF Announced, InMenu, Sound, PassedAlive, QuietThreads
<1>3. CASE PauseCheck
  <2>1. handler = "pausing" /\ UNCHANGED <<pc, sem, exc, play, timedOut, main>>
    BY <1>3 DEF PauseCheck, fuzzerVars, mainVars
  <2>2. QuietThreads' = QuietThreads /\ (Sound' => Sound)
    BY <2>1 DEF QuietThreads, Sound
  <2>3. CASE position > ThreadCount
    <3>1. handler' = "menu"
      BY <1>3, <2>3 DEF PauseCheck, PauseReturns
    <3>2. Sound => sem = 0 /\ NoneWorking
      BY <1>1, <2>1, <2>3, AllPassed
    <3> QED
      BY <1>1, <2>1, <2>2, <3>1, <3>2 DEF Announced, NoneWorking, Sound, InMenu
  <2>4. CASE ~(position > ThreadCount)
    <3>1. handler' \in {"pausing", "acquiring"}
      BY <1>3, <2>1, <2>4 DEF PauseCheck
    <3>2. PassedAlive' = PassedAlive
      <4>1. position' = position \/ (position' = position + 1 /\ ~Alive(position))
        BY <1>3, <2>4 DEF PauseCheck
      <4>2. \A t \in Threads : t < position + 1 <=> t < position \/ t = position
        BY <1>0 DEF Threads
      <4> QED
        BY <2>1, <4>1, <4>2 DEF PassedAlive, Alive
    <3> QED
      BY <1>1, <2>1, <2>2, <3>1, <3>2 DEF Announced, Sound, InMenu, PassedAlive, QuietThreads
  <2> QED
    BY <2>3, <2>4
<1>4. CASE PauseAcquire
  <2>1. /\ handler = "acquiring" /\ handler' = "pausing" /\ position' = position + 1
        /\ sem > 0 /\ sem' = sem - 1 /\ UNCHANGED <<pc, exc, play, timedOut, main>>
    BY <1>4 DEF PauseAcquire, AcquireToken, mainVars
  <2>2. QuietThreads' = QuietThreads /\ PassedAlive' \subseteq PassedAlive \cup {position}
    <3>1. \A t \in Threads : t < position + 1 => t < position \/ t = position
      BY <1>0 DEF Threads
    <3> QED
      BY <2>1, <3>1 DEF QuietThreads, PassedAlive, Alive
  <2>3. /\ IsFiniteSet(PassedAlive) /\ Cardinality(PassedAlive) \in Nat
        /\ Cardinality(PassedAlive') \in Nat /\ Cardinality(QuietThreads) \in Nat
    BY <1>0, ThreadSets
  <2> DEFINE more == PassedAlive \cup {position}
  <2>4. /\ IsFiniteSet(more) /\ Cardinality(more) \in Nat
        /\ Cardinality(more) <= Cardinality(PassedAlive) + 1
    <3>1. IsFiniteSet(more)
          /\ Cardinality(more) = IF position \in PassedAlive THEN Cardinality(PassedAlive)
                                                             ELSE Cardinality(PassedAlive) + 1
      BY <2>3, FS_AddElement
    <3> QED
      BY <2>3, <3>1
  <2>5. Cardinality(PassedAlive') <= Cardinality(more)
    BY <2>2, <2>4, FS_Subset
  <2> HIDE DEF more
  <2>6. Sound' => sem' + Cardinality(PassedAlive') <= Cardinality(QuietThreads')
    <3>1. SUFFICES ASSUME Sound' PROVE sem' + Cardinality(PassedAlive') <= Cardinality(QuietThreads)
      BY <2>2
    <3>2. sem + Cardinality(PassedAlive) <= Cardinality(QuietThreads)
      BY <1>1, <2>1, <3>1 DEF Sound
    <3> QED
      BY <1>0, <2>1, <2>3, <2>4, <2>5, <3>2
  <2> QED
    BY <1>1, <2>1, <2>6 DEF Announced, InMenu, Sound, PassedAlive, QuietThreads
<1>5. CASE PauseTimeout
  BY <1>5 DEF PauseTimeout, PauseReturns, Announced
<1>6. CASE ChooseContinue \/ ChooseNext
  <2>1. /\ handler = "menu" /\ handler' = "off" /\ play' = TRUE
        /\ UNCHANGED <<sem, exc, timedOut>>
    BY <1>6 DEF ChooseContinue, ChooseNext, SetPlay, SetQuit
  <2> QED
    BY <1>1, <2>1 DEF Announced, InMenu, Sound
<1>7. CASE ChooseSkip \/ ChooseQuit \/ SaveDictionary \/ SaveFails
  <2>1. /\ handler \in InMenu /\ handler' = "off" /\ main' \in {"stop", "unwind"}
        /\ UNCHANGED <<pc, play, sem, exc, timedOut>>
    BY <1>7 DEF ChooseSkip, ChooseQuit, SaveDictionary, SaveFails, RaiseInMain, InMenu,
         fuzzerVars
  <2> QED
    BY <1>1, <2>1 DEF Announced, InMenu, Sound, NoneWorking
<1>8. CASE ChooseSave \/ SaveState
  <2>1. /\ handler \in InMenu /\ handler' \in InMenu
        /\ UNCHANGED <<pc, play, sem, exc, timedOut>>
    BY <1>8 DEF ChooseSave, SaveState, InMenu, fuzzerVars
  <2> QED
    BY <1>1, <2>1 DEF Announced, InMenu, Sound, NoneWorking
<1> QED
  BY <1>2, <1>3, <1>4, <1>5, <1>6, <1>7, <1>8 DEF HandlerAction, HandlerStep

LEMMA NextAnnounced ==
  ASSUME Control, Announced, [Next]_vars
  PROVE  Announced'
<1>1. CASE UNCHANGED vars
  <2>1. UNCHANGED <<pc, play, sem, exc, timedOut, main, handler, position>>
    BY <1>1 DEF vars, fuzzerVars, mainVars, handlerVars
  <2> QED
    BY <2>1 DEF Announced, NoneWorking, Alive
<1> QED
  BY <1>1, NextParts, ThreadAnnounced, MainAnnounced, HandlerAnnounced

-----------------------------------------------------------------------------
(* A session saved from a sound pause is consistent                        *)

Rows == durable \cup ToSet(uncommitted)

LEMMA CommitKeepsRows ==
  ASSUME Commit \/ UNCHANGED reportVars
  PROVE  Rows' = Rows /\ durable \subseteq durable'
<1>1. ToSet(<<>>) = {}
  BY DEF ToSet
<1> QED
  BY <1>1 DEF Rows, Commit, reportVars

\* reporter.save adds the thread's own row and loses none.
LEMMA SaveRowRows ==
  ASSUME TypeOK, NEW row \in Dirs \X Paths, SaveRow(row)
  PROVE  Rows' = Rows \cup {row} /\ durable \subseteq durable'
<1>1. CASE uncommitted' = <<>> /\ durable' = durable \cup ToSet(uncommitted) \cup {row}
  <2>1. ToSet(<<>>) = {}
    BY DEF ToSet
  <2> QED
    BY <1>1, <2>1 DEF Rows
<1>2. CASE uncommitted' = Append(uncommitted, row) /\ UNCHANGED durable
  <2>1. ToSet(uncommitted') = ToSet(uncommitted) \cup {row}
    BY <1>2, AppendMembers DEF TypeOK
  <2> QED
    BY <1>2, <2>1 DEF Rows
<1> QED
  BY <1>1, <1>2 DEF SaveRow

LEMMA ThreadRowsKnown ==
  ASSUME Control, Announced, RowsKnown, CheckpointSound, NEW t \in Threads, ThreadStep(t)
  PROVE  RowsKnown' /\ CheckpointSound'
<1>0. TypeOK /\ FuzzerTypeOK /\ ThreadState /\ passed \subseteq passed'
  BY ThreadRecords DEF Control, TypeOK, FuzzerTypeOK, ThreadPlaces
<1>1. /\ UNCHANGED <<base, handler, timedOut, snapshot, saved>>
      /\ Alive(t)
      /\ \A u \in Threads \ {t} : pc'[u] = pc[u] \/ (pc[u] = "parked" /\ pc'[u] = "check")
  BY ThreadMoves DEF handlerVars, sessionVars
<1>2. /\ \A row \in Rows : Child[row[1]][row[2]] \in passed \cup {NoDir}
      /\ \A u \in Threads :
           pc[u] \in {"crawl", "save"} => Child[base][held[u]] \in passed \cup {NoDir}
  BY DEF RowsKnown, Rows
<1>3. \A row \in Rows' : Child[row[1]][row[2]] \in passed' \cup {NoDir}
  <2>1. CASE Report(t)
    <3>1. pc[t] = "save" /\ SaveRow(Row(held[t]))
      BY <2>1 DEF Report
    <3>2. held[t] \in Paths /\ base \in Dirs
      BY <1>0, <1>1, <3>1 DEF ThreadState, Holding, TypeOK, Control, Placement, NoneAlive
    <3>3. Rows' = Rows \cup {<<base, held[t]>>}
      BY <1>0, <3>1, <3>2, SaveRowRows DEF Row
    <3>4. Child[base][held[t]] \in passed \cup {NoDir}
      BY <1>2, <3>1
    <3> QED
      BY <1>0, <1>2, <3>3, <3>4
  <2>2. CASE Rows' = Rows
    BY <1>0, <1>2, <2>2
  <2>3. CASE pc[t] = "save" /\ uncommitted' = Append(uncommitted, Row(held[t])) /\ UNCHANGED durable
    <3>1. held[t] \in Paths /\ base \in Dirs
      BY <1>0, <1>1, <2>3 DEF ThreadState, Holding, TypeOK, Control, Placement, NoneAlive
    <3>2. Row(held[t]) \in Dirs \X Paths
      BY <3>1 DEF Row
    <3>3. Rows' = Rows \cup {<<base, held[t]>>}
      <4>1. ToSet(uncommitted') = ToSet(uncommitted) \cup {Row(held[t])}
        BY <1>0, <2>3, <3>2, AppendMembers DEF TypeOK
      <4> QED
        BY <2>3, <4>1 DEF Row, Rows
    <3>4. Child[base][held[t]] \in passed \cup {NoDir}
      BY <1>2, <2>3
    <3> QED
      BY <1>0, <1>2, <3>3, <3>4
  <2> QED
    BY <2>1, <2>2, <2>3 DEF ThreadStep, Miss, RequestRaises, CallbackRaises, Match, Crawl,
       reportVars, Rows
<1>4. durable \subseteq durable'
  <2>1. CASE Report(t)
    <3>1. pc[t] = "save" /\ SaveRow(Row(held[t]))
      BY <2>1 DEF Report
    <3>2. held[t] \in Paths /\ base \in Dirs
      BY <1>0, <1>1, <3>1 DEF ThreadState, Holding, TypeOK, Control, Placement, NoneAlive
    <3> QED
      BY <1>0, <3>1, <3>2, SaveRowRows DEF Row
  <2>2. CASE ~Report(t)
    BY <2>2 DEF ThreadStep, Miss, RequestRaises, CallbackRaises, Match, Crawl, reportVars
  <2> QED
    BY <2>1, <2>2
<1>5. \A u \in Threads :
        pc'[u] \in {"crawl", "save"} => Child[base][held'[u]] \in passed' \cup {NoDir}
  <2> SUFFICES ASSUME NEW u \in Threads, pc'[u] \in {"crawl", "save"}
               PROVE  Child[base][held'[u]] \in passed' \cup {NoDir}
    OBVIOUS
  <2>1. CASE u # t
    <3>1. held'[u] = held[u]
      BY <1>0, <2>1 DEF ThreadStep, Miss, RequestRaises, CallbackRaises, ScanRaises, Match, Crawl, Report,
           ThreadClaim, ThreadExhausted, ThreadRelease, ThreadReleaseFails, ThreadRaise,
           ThreadTail, ThreadWait, ThreadCheck, MoveTo, FuzzerTypeOK
    <3> QED
      BY <1>0, <1>1, <1>2, <2>1, <3>1
  <2>2. CASE u = t /\ Match(t)
    <3> DEFINE d == Child[base][held[t]]
    <3>1. held' = held /\ add_directory(d)
      BY <2>2 DEF Match, MoveTo
    <3> HIDE DEF d
    <3>2. d \in passed' \cup {NoDir}
      BY <1>0, <3>1 DEF add_directory
    <3> QED
      BY <2>2, <3>1, <3>2 DEF d
  <2>3. CASE u = t /\ Crawl(t)
    BY <1>0, <1>2, <2>3 DEF Crawl, MoveTo
  <2>4. CASE u = t /\ ~Match(t) /\ ~Crawl(t)
    <3>1. pc'[t] \notin {"crawl", "save"}
      BY <1>0, <2>4 DEF ThreadStep, Miss, RequestRaises, CallbackRaises, ScanRaises, Report,
           ThreadClaim, ThreadExhausted, ThreadRelease, ThreadReleaseFails, ThreadRaise,
           ThreadTail, ThreadWait, ThreadCheck, MoveTo, Woken, FuzzerTypeOK
    <3> QED
      BY <2>4, <3>1
  <2> QED
    BY <2>1, <2>2, <2>3, <2>4
<1>6. ASSUME Sound', handler \in {"state", "dict"}
      PROVE  UNCHANGED <<passed, uncommitted>> /\ Sound
  <2>1. Sound
    BY <1>1, <1>6, ThreadAnnounces DEF Sound
  <2>2. pc[t] \notin Working
    BY <1>6, <2>1 DEF Announced, Sound, InMenu, NoneWorking
  <2>3. ~Match(t) /\ ~Report(t) /\ ~CallbackRaises(t)
    BY <2>2 DEF Match, Report, CallbackRaises, Working
  <2> QED
    BY <2>1, <2>3 DEF ThreadStep, Miss, RequestRaises, Crawl, mainVars, reportVars
<1>7. RowsKnown'
  BY <1>1, <1>3, <1>5, <1>6 DEF RowsKnown, Rows, Sound
<1>8. CheckpointSound'
  BY <1>1, <1>4 DEF CheckpointSound, CheckpointDirectories, CheckpointDurable
<1> QED
  BY <1>7, <1>8

LEMMA MainRowsKnown ==
  ASSUME Control, RowsKnown, CheckpointSound, OutsideHandler, MainAction
  PROVE  RowsKnown' /\ CheckpointSound'
<1>0. TypeOK /\ FuzzerTypeOK /\ Placement
  BY DEF Control, TypeOK, FuzzerTypeOK, ThreadPlaces
<1>1. handler' = "off" /\ UNCHANGED <<saved, passed>>
  BY DEF OutsideHandler, sessionVars, MainAction, BeginDirectory, TargetDone, SetupDone,
       SetupRaises, StartPlay, StartClear, Launch, Finished, StopIdle, StopWorkers, Joined,
       JoinTimeout, EndDirectory, SkipTarget, Exit, DeadlinePassed, GoTo, Leave, mainVars
<1>2. Rows' = Rows /\ durable \subseteq durable'
  <2>1. Commit \/ UNCHANGED reportVars
    BY DEF MainAction, BeginDirectory, TargetDone, SetupDone,
       SetupRaises, StartPlay, StartClear, Launch, Finished, StopIdle, StopWorkers, Joined,
       JoinTimeout, EndDirectory, SkipTarget, Exit, DeadlinePassed
  <2> QED
    BY <2>1, CommitKeepsRows
<1>3. \A t \in Threads : pc'[t] \in {"crawl", "save"} =>
        pc[t] \in {"crawl", "save"} /\ UNCHANGED <<held, base>>
  <2>1. CASE BeginDirectory
    BY <1>0, <2>1 DEF BeginDirectory, fuzzerVars, Placement, NoneAlive, Alive
  <2>2. CASE ~BeginDirectory
    <3>1. UNCHANGED base
      BY <2>2 DEF MainAction, TargetDone, SetupDone, SetupRaises, StartPlay, StartClear, Launch,
         Finished, StopIdle, StopWorkers, Joined, JoinTimeout, EndDirectory, SkipTarget, Exit,
         DeadlinePassed, GoTo, Leave, mainVars
    <3>2. CASE SetupDone
      BY <3>2 DEF SetupDone, setup_threads
    <3>3. CASE StartPlay
      BY <3>1, <3>3 DEF StartPlay, SetPlay, Woken
    <3>4. CASE StartClear
      BY <3>1, <3>4 DEF StartClear, ClearQuit
    <3>5. CASE Launch
      BY <1>0, <3>1, <3>5 DEF Launch, StartThread, FuzzerTypeOK
    <3>6. CASE StopWorkers
      BY <3>1, <3>6 DEF StopWorkers, SetQuit, Woken
    <3>7. CASE UNCHANGED fuzzerVars
      BY <3>1, <3>7 DEF fuzzerVars
    <3> QED
      BY <2>2, <3>2, <3>3, <3>4, <3>5, <3>6, <3>7 DEF MainAction, TargetDone, SetupRaises,
         Finished, StopIdle, Joined, JoinTimeout, EndDirectory, SkipTarget, Exit, DeadlinePassed
  <2> QED
    BY <2>1, <2>2
<1>4. RowsKnown'
  BY <1>1, <1>2, <1>3 DEF RowsKnown, Rows
<1>5. CheckpointSound'
  BY <1>1, <1>2 DEF CheckpointSound, CheckpointDirectories, CheckpointDurable
<1> QED
  BY <1>4, <1>5

LEMMA HandlerRowsKnown ==
  ASSUME Control, RowsKnown, CheckpointSound, HandlerAction
  PROVE  RowsKnown' /\ CheckpointSound'
<1>1. /\ UNCHANGED <<base, passed, held, exc>>
      /\ \A t \in Threads : pc'[t] \in {"crawl", "save"} => pc[t] \in {"crawl", "save"}
  <2>1. UNCHANGED <<held, exc>> /\ (pc' = pc \/ pc' = Woken(pc))
    BY DEF HandlerAction, HandlerStep, Signal, PauseCheck, PauseAcquire, PauseTimeout,
       ChooseContinue, ChooseNext, ChooseSkip, ChooseQuit, ChooseSave, SaveState,
       SaveDictionary, SaveFails, fuzzerVars, ClearPlay, AcquireToken, SetPlay, SetQuit
  <2>2. UNCHANGED <<base, passed>>
    BY DEF HandlerAction, HandlerStep, Signal, PauseCheck, PauseAcquire, PauseTimeout,
       ChooseContinue, ChooseNext, ChooseSkip, ChooseQuit, ChooseSave, SaveState,
       SaveDictionary, SaveFails, mainVars, RaiseInMain
  <2> QED
    BY <2>1, <2>2 DEF Woken
<1>2. Rows' = Rows /\ durable \subseteq durable'
  <2>1. Commit \/ UNCHANGED reportVars
    BY DEF HandlerAction, HandlerStep, Signal, PauseCheck, PauseAcquire, PauseTimeout,
       ChooseContinue, ChooseNext, ChooseSkip, ChooseQuit, ChooseSave, SaveState,
       SaveDictionary, SaveFails
  <2> QED
    BY <2>1, CommitKeepsRows
<1>3. RowsKnown'
  <2>1. Sound' => Sound
    BY <1>1 DEF Sound, HandlerAction, HandlerStep, Signal, PauseCheck, PauseAcquire,
       PauseTimeout, ChooseContinue, ChooseNext, ChooseSkip, ChooseQuit, ChooseSave, SaveState,
       SaveDictionary, SaveFails
  <2>2. CASE ChooseSave
    BY <1>1, <1>2, <2>2 DEF ChooseSave, Commit, RowsKnown, Rows
  <2>3. CASE SaveState
    BY <1>1, <1>2, <2>1, <2>3 DEF SaveState, RowsKnown, Rows, Sound, reportVars
  <2>4. CASE ~ChooseSave /\ ~SaveState
    <3>1. handler' \notin {"state", "dict"}
      BY <2>4 DEF HandlerAction, HandlerStep, Signal, PauseCheck, PauseAcquire, PauseTimeout,
       ChooseContinue, ChooseNext, ChooseSkip, ChooseQuit, SaveDictionary, SaveFails,
       PauseReturns, RaiseInMain
    <3> QED
      BY <1>1, <1>2, <3>1 DEF RowsKnown, Rows
  <2> QED
    BY <2>2, <2>3, <2>4
<1>4. CheckpointSound'
  <2>1. CASE SaveDictionary
    <3>1. /\ handler = "dict" /\ UNCHANGED reportVars
          /\ saved'.trusted = (paused /\ ~timedOut /\ exc = "none")
          /\ saved'.passed = snapshot.passed /\ saved'.settled = Settled(getstate)
      BY <2>1 DEF SaveDictionary
    <3>2. Settled(getstate) \subseteq Rows
      BY DEF Settled, Rows
    <3>3. SUFFICES ASSUME ~timedOut, exc = "none"
                   PROVE  CheckpointDirectories' /\ CheckpointDurable'
      BY <3>1 DEF CheckpointSound
    <3>4. uncommitted = <<>> /\ snapshot.passed = passed
      BY <3>1, <3>3 DEF RowsKnown
    <3>5. Rows = durable
      BY <3>4 DEF Rows, ToSet
    <3> HIDE DEF Settled, getstate
    <3>6. CheckpointDurable'
      BY <3>1, <3>2, <3>5 DEF CheckpointDurable, reportVars
    <3>7. CheckpointDirectories'
      BY <3>1, <3>2, <3>4 DEF CheckpointDirectories, RowsKnown, Rows
    <3> QED
      BY <3>6, <3>7
  <2>2. CASE UNCHANGED saved
    BY <1>2, <2>2 DEF CheckpointSound, CheckpointDirectories, CheckpointDurable
  <2> QED
    BY <2>1, <2>2 DEF HandlerAction, HandlerStep, Signal, PauseCheck, PauseAcquire,
       PauseTimeout, ChooseContinue, ChooseNext, ChooseSkip, ChooseQuit, ChooseSave, SaveState,
       SaveFails, sessionVars
<1> QED
  BY <1>3, <1>4

LEMMA NextRowsKnown ==
  ASSUME Control, Announced, RowsKnown, CheckpointSound, [Next]_vars
  PROVE  RowsKnown' /\ CheckpointSound'
<1>1. CASE UNCHANGED vars
  <2>1. UNCHANGED <<pc, held, exc, timedOut, handler, base, passed, uncommitted, durable,
                    snapshot, saved>>
    BY <1>1 DEF vars, fuzzerVars, mainVars, handlerVars, reportVars, sessionVars
  <2> QED
    BY <2>1 DEF RowsKnown, CheckpointSound, CheckpointDirectories, CheckpointDurable
<1> QED
  BY <1>1, NextParts, ThreadRowsKnown, MainRowsKnown, HandlerRowsKnown

-----------------------------------------------------------------------------
(* The theorems                                                            *)

LEMMA InitIInv == Init => IInv
<1> SUFFICES ASSUME Init PROVE IInv
  OBVIOUS
<1>1. Control
  BY InitControl
<1>2. ClaimsHeld
  <2>1. claimed = <<>> /\ NoneAlive
    BY DEF Init, DictInit, FuzzerInit, NoneAlive, Alive
  <2> QED
    BY <1>1, <2>1, NobodyHolds, OccurrencesEmpty DEF ClaimsHeld, Control
<1>3. Draining /\ Announced
  BY DEF Init, FuzzerInit, Draining, Announced, NoneWorking, Working, InMenu
<1>4. RowsKnown /\ CheckpointSound
  <2>1. /\ durable = {} /\ uncommitted = <<>> /\ handler = "off" /\ ~saved.valid
        /\ \A t \in Threads : pc[t] = "dead"
    BY DEF Init, FuzzerInit, NoSession
  <2>2. ToSet(<<>>) = {}
    BY DEF ToSet
  <2> QED
    BY <2>1, <2>2 DEF RowsKnown, CheckpointSound
<1> QED
  BY <1>1, <1>2, <1>3, <1>4 DEF IInv, Control

\* Every step of the threads, of the main thread and of the signal handler
\* preserves the invariant.
LEMMA SpecIInv == Spec => []IInv
<1>1. Init => IInv
  BY InitIInv
<1>2. IInv /\ [Next]_vars => IInv'
  <2> SUFFICES ASSUME IInv, [Next]_vars PROVE IInv'
    OBVIOUS
  <2>1. Control /\ ClaimsHeld /\ Draining /\ Announced /\ RowsKnown /\ CheckpointSound
    BY DEF IInv, Control, ClaimsHeld
  <2> QED
    BY <2>1, NextControl, NextClaims, NextDraining, NextAnnounced, NextRowsKnown
      DEF IInv, Control
<1> QED
  BY <1>1, <1>2, PTL DEF Spec

\* The threads, the semaphore, the handler and the reports stay well-typed.
THEOREM ThreadedTypeCorrect == Spec => []TypeOK
<1>1. IInv => TypeOK
  BY DEF IInv
<1> QED
  BY <1>1, SpecIInv, PTL

\* release_claim of thread_proc never raises ValueError before the controller
\* leaves the target, whatever pauses, raises, times out or is interrupted.
THEOREM ThreadsFindTheirClaims == Spec => []ClaimsIntact
<1>1. IInv => ClaimsIntact
  <2> SUFFICES ASSUME IInv PROVE ClaimsIntact
    OBVIOUS
  <2>1. Control /\ ClaimsHeld
    BY DEF IInv, Control, ClaimsHeld
  <2> QED
    BY <2>1, HeldIsClaimed DEF ClaimsIntact
<1> QED
  BY <1>1, SpecIInv, PTL

\* When Fuzzer.pause returns True, no thread is at work until the menu is left,
\* unless an earlier pause timed out or a scan has raised.
THEOREM PausesAreSound == Spec => []PauseSound
<1>1. IInv => PauseSound
  BY DEF IInv, Announced, PauseSound, PauseTrusted, PauseAck, InMenu, NoneWorking
<1> QED
  BY <1>1, SpecIInv, PTL

\* Controller.start leaves a directory whose threads ended by themselves with
\* nothing queued and nothing claimed.
THEOREM DirectoriesAreDrained == Spec => []DrainedAtFinish
<1>1. IInv => DrainedAtFinish
  BY DEF IInv, Draining, DrainedAtFinish
<1> QED
  BY <1>1, SpecIInv, PTL

\* The session SessionStore.save writes after a sound pause is not ahead of the
\* committed rows and knows the directories of what it will not scan again.
THEOREM CheckpointsAreSound == Spec => []CheckpointSound
<1>1. IInv => CheckpointSound
  BY DEF IInv
<1> QED
  BY <1>1, SpecIInv, PTL

=============================================================================
