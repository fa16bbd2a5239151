-------------------------- MODULE NativeScanProofs --------------------------
(***************************************************************************)
(* The promises of a native scan, for every wordlist, batch size, number   *)
(* of directories, signals and set of failures.                            *)
(***************************************************************************)
EXTENDS NativeScan, DictionaryLemmas

-----------------------------------------------------------------------------
(* Control: which thread is where                                          *)

\* No step of the worker puts a thread where it may not be.
LEMMA WorkerControl ==
  ASSUME ControlPlaced, TypeOK, WorkerStep, UNCHANGED scanVars
  PROVE  ControlPlaced'
<1> USE DEF Calibrating, Parking, Delivering, Batching, Ended, Processing,
            scanVars, mainVars, timerVars, handlerVars, eventVars, backendVars, batchVars,
            workerVars, fuzzerVars, callVars, WorkerAt, WorkerRests, NoBatchLocals
<1>1. CASE WorkerStart
  BY <1>1 DEF WorkerStart, ControlPlaced, ThreadsPlaced, CallPlaced, CancelPlaced, EventsPlaced, Handshake,
     LockCancel, SetCancelled, Enter, Leave, Deliver, End, MayEnd, Finish, Stop
<1>2. CASE CalibrateLock
  BY <1>2 DEF CalibrateLock, ControlPlaced, ThreadsPlaced, CallPlaced, CancelPlaced, EventsPlaced, Handshake,
     LockCancel, SetCancelled, Enter, Leave, Deliver, End, MayEnd, Finish, Stop
<1>3. CASE CalibrateEnter
  BY <1>3 DEF CalibrateEnter, ControlPlaced, ThreadsPlaced, CallPlaced, CancelPlaced, EventsPlaced, Handshake,
     LockCancel, SetCancelled, Enter, Leave, Deliver, End, MayEnd, Finish, Stop
<1>4. CASE CalibrateEnds
  BY <1>4 DEF CalibrateEnds, ControlPlaced, ThreadsPlaced, CallPlaced, CancelPlaced, EventsPlaced, Handshake,
     LockCancel, SetCancelled, Enter, Leave, Deliver, End, MayEnd, Finish, Stop
<1>5. CASE CalibrateLeave
  BY <1>5 DEF CalibrateLeave, ControlPlaced, ThreadsPlaced, CallPlaced, CancelPlaced, EventsPlaced, Handshake,
     LockCancel, SetCancelled, Enter, Leave, Deliver, End, MayEnd, Finish, Stop
<1>6. CASE CalibrateConsume
  BY <1>6 DEF CalibrateConsume, ControlPlaced, ThreadsPlaced, CallPlaced, CancelPlaced, EventsPlaced, Handshake,
     LockCancel, SetCancelled, Enter, Leave, Deliver, End, MayEnd, Finish, Stop
<1>7. CASE Begin
  BY <1>7 DEF Begin, ControlPlaced, ThreadsPlaced, CallPlaced, CancelPlaced, EventsPlaced, Handshake,
     LockCancel, SetCancelled, Enter, Leave, Deliver, End, MayEnd, Finish, Stop
<1>8. CASE LoopQuit
  BY <1>8 DEF LoopQuit, ControlPlaced, ThreadsPlaced, CallPlaced, CancelPlaced, EventsPlaced, Handshake,
     LockCancel, SetCancelled, Enter, Leave, Deliver, End, MayEnd, Finish, Stop
<1>9. CASE LoopGate
  BY <1>9 DEF LoopGate, ControlPlaced, ThreadsPlaced, CallPlaced, CancelPlaced, EventsPlaced, Handshake,
     LockCancel, SetCancelled, Enter, Leave, Deliver, End, MayEnd, Finish, Stop
<1>10. CASE Requeue
  BY <1>10 DEF Requeue, ControlPlaced, ThreadsPlaced, CallPlaced, CancelPlaced, EventsPlaced, Handshake,
     LockCancel, SetCancelled, Enter, Leave, Deliver, End, MayEnd, Finish, Stop
<1>11. CASE Acknowledge
  BY <1>11 DEF Acknowledge, ControlPlaced, ThreadsPlaced, CallPlaced, CancelPlaced, EventsPlaced, Handshake,
     LockCancel, SetCancelled, Enter, Leave, Deliver, End, MayEnd, Finish, Stop
<1>12. CASE WakeUp
  BY <1>12 DEF WakeUp, ControlPlaced, ThreadsPlaced, CallPlaced, CancelPlaced, EventsPlaced, Handshake,
     LockCancel, SetCancelled, Enter, Leave, Deliver, End, MayEnd, Finish, Stop
<1>13. CASE Resume
  BY <1>13 DEF Resume, ControlPlaced, ThreadsPlaced, CallPlaced, CancelPlaced, EventsPlaced, Handshake,
     LockCancel, SetCancelled, Enter, Leave, Deliver, End, MayEnd, Finish, Stop
<1>14. CASE ClaimBatch
  BY <1>14 DEF ClaimBatch, ControlPlaced, ThreadsPlaced, CallPlaced, CancelPlaced, EventsPlaced, Handshake,
     LockCancel, SetCancelled, Enter, Leave, Deliver, End, MayEnd, Finish, Stop
<1>15. CASE NoBatch
  BY <1>15 DEF NoBatch, ControlPlaced, ThreadsPlaced, CallPlaced, CancelPlaced, EventsPlaced, Handshake,
     LockCancel, SetCancelled, Enter, Leave, Deliver, End, MayEnd, Finish, Stop
<1>16. CASE ScanLock
  BY <1>16 DEF ScanLock, ControlPlaced, ThreadsPlaced, CallPlaced, CancelPlaced, EventsPlaced, Handshake,
     LockCancel, SetCancelled, Enter, Leave, Deliver, End, MayEnd, Finish, Stop
<1>17. CASE ScanEnter
  BY <1>17 DEF ScanEnter, ControlPlaced, ThreadsPlaced, CallPlaced, CancelPlaced, EventsPlaced, Handshake,
     LockCancel, SetCancelled, Enter, Leave, Deliver, End, MayEnd, Finish, Stop
<1>18. CASE DeliverChunk
  BY <1>18 DEF DeliverChunk, ControlPlaced, ThreadsPlaced, CallPlaced, CancelPlaced, EventsPlaced, Handshake,
     LockCancel, SetCancelled, Enter, Leave, Deliver, End, MayEnd, Finish, Stop
<1>19. CASE ScanEnds
  BY <1>19 DEF ScanEnds, ControlPlaced, ThreadsPlaced, CallPlaced, CancelPlaced, EventsPlaced, Handshake,
     LockCancel, SetCancelled, Enter, Leave, Deliver, End, MayEnd, Finish, Stop
<1>20. CASE ScanLeave
  BY <1>20 DEF ScanLeave, ControlPlaced, ThreadsPlaced, CallPlaced, CancelPlaced, EventsPlaced, Handshake,
     LockCancel, SetCancelled, Enter, Leave, Deliver, End, MayEnd, Finish, Stop
<1>21. CASE ScanConsume
  BY <1>21 DEF ScanConsume, ControlPlaced, ThreadsPlaced, CallPlaced, CancelPlaced, EventsPlaced, Handshake,
     LockCancel, SetCancelled, Enter, Leave, Deliver, End, MayEnd, Finish, Stop
<1>22. CASE BatchDone
  BY <1>22 DEF BatchDone, ControlPlaced, ThreadsPlaced, CallPlaced, CancelPlaced, EventsPlaced, Handshake,
     LockCancel, SetCancelled, Enter, Leave, Deliver, End, MayEnd, Finish, Stop
<1>23. CASE ChunkCheck
  BY <1>23 DEF ChunkCheck, ControlPlaced, ThreadsPlaced, CallPlaced, CancelPlaced, EventsPlaced, Handshake,
     LockCancel, SetCancelled, Enter, Leave, Deliver, End, MayEnd, Finish, Stop
<1>24. CASE FilteredGap
  BY <1>24 DEF FilteredGap, ControlPlaced, ThreadsPlaced, CallPlaced, CancelPlaced, EventsPlaced, Handshake,
     LockCancel, SetCancelled, Enter, Leave, Deliver, End, MayEnd, Finish, Stop
<1>25. CASE ChunkRecheck
  BY <1>25 DEF ChunkRecheck, ControlPlaced, ThreadsPlaced, CallPlaced, CancelPlaced, EventsPlaced, Handshake,
     LockCancel, SetCancelled, Enter, Leave, Deliver, End, MayEnd, Finish, Stop
<1>26. CASE ProcessEvent
  BY <1>26 DEF ProcessEvent, ControlPlaced, ThreadsPlaced, CallPlaced, CancelPlaced, EventsPlaced, Handshake,
     LockCancel, SetCancelled, Enter, Leave, Deliver, End, MayEnd, Finish, Stop
<1>27. CASE ReleaseEvent
  BY <1>27 DEF ReleaseEvent, ControlPlaced, ThreadsPlaced, CallPlaced, CancelPlaced, EventsPlaced, Handshake,
     LockCancel, SetCancelled, Enter, Leave, Deliver, End, MayEnd, Finish, Stop
<1>28. CASE FilteredTail
  BY <1>28 DEF FilteredTail, ControlPlaced, ThreadsPlaced, CallPlaced, CancelPlaced, EventsPlaced, Handshake,
     LockCancel, SetCancelled, Enter, Leave, Deliver, End, MayEnd, Finish, Stop
<1>29. CASE WorkerFinish
  BY <1>29 DEF WorkerFinish, ControlPlaced, ThreadsPlaced, CallPlaced, CancelPlaced, EventsPlaced, Handshake,
     LockCancel, SetCancelled, Enter, Leave, Deliver, End, MayEnd, Finish, Stop
<1> QED
  BY <1>1, <1>2, <1>3, <1>4, <1>5, <1>6, <1>7, <1>8, <1>9, <1>10, <1>11, <1>12, <1>13, <1>14, <1>15, <1>16, <1>17, <1>18, <1>19, <1>20, <1>21, <1>22, <1>23, <1>24, <1>25, <1>26, <1>27, <1>28, <1>29 DEF WorkerStep
\* Nor does one of the main thread outside the handler.
LEMMA MainControl ==
  ASSUME ControlPlaced, TypeOK, MainStep
  PROVE  ControlPlaced'
<1> USE DEF Calibrating, Parking, Delivering, Batching, Ended, Processing, Alive,
            scanVars, mainVars, timerVars, handlerVars, eventVars, backendVars, batchVars,
            workerVars, fuzzerVars, callVars, MainFree
<1>1. CASE TimeAlreadyUp
  BY <1>1 DEF TimeAlreadyUp, ControlPlaced, ThreadsPlaced, CallPlaced, CancelPlaced, EventsPlaced, Handshake,
     prepare_start, ResetBackend, SetCancelled, NoWorker, TypeOK, QuitSteps
<1>2. CASE Prepare
  <2>1. /\ handler = "off" /\ timer = "off" /\ wpc = "none"
        /\ quitting["main"] = 0 /\ quitting["timer"] = 0
    BY <1>2 DEF Prepare, ControlPlaced, ThreadsPlaced
  <2>2. /\ main' = "spawn" /\ ~quit' /\ ~finished' /\ ~startedEvent' /\ ~pausedEvent'
        /\ hasBackend' = hasBackend /\ hasEngine' = hasEngine
        /\ wpc' = wpc /\ handler' = handler /\ timer' = timer /\ quitting' = quitting
        /\ phase' = phase /\ total' = total /\ batch' = batch /\ play' = play
    BY <1>2 DEF Prepare, prepare_start, ResetBackend, SetCancelled
  <2>3. ~cancelled' /\ ~cancelPending' /\ stopped' = "no"
    BY <1>2, <2>1 DEF Prepare, prepare_start, ResetBackend, SetCancelled, ControlPlaced, CallPlaced
  <2> QED
    BY <2>1, <2>2, <2>3 DEF ControlPlaced, ThreadsPlaced, CallPlaced, CancelPlaced, EventsPlaced,
       Handshake
<1>3. CASE Spawn
  BY <1>3 DEF Spawn, ControlPlaced, ThreadsPlaced, CallPlaced, CancelPlaced, EventsPlaced, Handshake,
     prepare_start, ResetBackend, SetCancelled, NoWorker, TypeOK, QuitSteps
<1>4. CASE Poll
  BY <1>4 DEF Poll, ControlPlaced, ThreadsPlaced, CallPlaced, CancelPlaced, EventsPlaced, Handshake,
     prepare_start, ResetBackend, SetCancelled, NoWorker, TypeOK, QuitSteps
<1>5. CASE StopTimer
  BY <1>5 DEF StopTimer, ControlPlaced, ThreadsPlaced, CallPlaced, CancelPlaced, EventsPlaced, Handshake,
     prepare_start, ResetBackend, SetCancelled, NoWorker, TypeOK, QuitSteps
<1>6. CASE JoinTimeout
  BY <1>6 DEF JoinTimeout, ControlPlaced, ThreadsPlaced, CallPlaced, CancelPlaced, EventsPlaced, Handshake,
     prepare_start, ResetBackend, SetCancelled, NoWorker, TypeOK, QuitSteps
<1>7. CASE Resolve
  BY <1>7 DEF Resolve, ControlPlaced, ThreadsPlaced, CallPlaced, CancelPlaced, EventsPlaced, Handshake,
     prepare_start, ResetBackend, SetCancelled, NoWorker, TypeOK, QuitSteps
<1>8. CASE LeaveDirectory
  BY <1>8 DEF LeaveDirectory, ControlPlaced, ThreadsPlaced, CallPlaced, CancelPlaced, EventsPlaced, Handshake,
     prepare_start, ResetBackend, SetCancelled, NoWorker, TypeOK, QuitSteps
<1>9. CASE LeaveUnsafe
  BY <1>9 DEF LeaveUnsafe, ControlPlaced, ThreadsPlaced, CallPlaced, CancelPlaced, EventsPlaced, Handshake,
     prepare_start, ResetBackend, SetCancelled, NoWorker, TypeOK, QuitSteps
<1> QED
  BY <1>1, <1>2, <1>3, <1>4, <1>5, <1>6, <1>7, <1>8, <1>9 DEF MainStep

\* Nor does a step of the handler, unless the pause has timed out.
LEMMA HandlerControl ==
  ASSUME ControlPlaced, TypeOK, HandlerStep
  PROVE  gaveUp' \/ ControlPlaced'
<1> USE DEF Calibrating, Parking, Delivering, Batching, Ended, Processing, Alive,
            scanVars, mainVars, timerVars, handlerVars, eventVars, backendVars, batchVars,
            workerVars, fuzzerVars, callVars, MainFree
<1>1. CASE PauseStarted
  BY <1>1 DEF PauseStarted, ControlPlaced, ThreadsPlaced, CallPlaced, CancelPlaced, EventsPlaced, Handshake,
     HandlerStays, RaiseInMain, ResetBackend, CancelBackend, SetCancelled, TypeOK, QuitSteps
<1>2. CASE PauseNotStarted
  BY <1>2 DEF PauseNotStarted, ControlPlaced, ThreadsPlaced, CallPlaced, CancelPlaced, EventsPlaced, Handshake,
     HandlerStays, RaiseInMain, ResetBackend, CancelBackend, SetCancelled, TypeOK, QuitSteps
<1>3. CASE PauseClear
  BY <1>3 DEF PauseClear, ControlPlaced, ThreadsPlaced, CallPlaced, CancelPlaced, EventsPlaced, Handshake,
     HandlerStays, RaiseInMain, ResetBackend, CancelBackend, SetCancelled, TypeOK, QuitSteps
<1>4. CASE PauseCancel
  BY <1>4 DEF PauseCancel, ControlPlaced, ThreadsPlaced, CallPlaced, CancelPlaced, EventsPlaced, Handshake,
     HandlerStays, RaiseInMain, ResetBackend, CancelBackend, SetCancelled, TypeOK, QuitSteps
<1>5. CASE PauseAcknowledged
  BY <1>5 DEF PauseAcknowledged, ControlPlaced, ThreadsPlaced, CallPlaced, CancelPlaced, EventsPlaced, Handshake,
     HandlerStays, RaiseInMain, ResetBackend, CancelBackend, SetCancelled, TypeOK, QuitSteps
<1>6. CASE PauseTimeout
  BY <1>6 DEF PauseTimeout, ControlPlaced, ThreadsPlaced, CallPlaced, CancelPlaced, EventsPlaced, Handshake,
     HandlerStays, RaiseInMain, ResetBackend, CancelBackend, SetCancelled, TypeOK, QuitSteps
<1>7. CASE ChooseContinue
  BY <1>7 DEF ChooseContinue, ControlPlaced, ThreadsPlaced, CallPlaced, CancelPlaced, EventsPlaced, Handshake,
     HandlerStays, RaiseInMain, ResetBackend, CancelBackend, SetCancelled, TypeOK, QuitSteps
<1>8. CASE ContinueUnpause
  BY <1>8 DEF ContinueUnpause, ControlPlaced, ThreadsPlaced, CallPlaced, CancelPlaced, EventsPlaced, Handshake,
     HandlerStays, RaiseInMain, ResetBackend, CancelBackend, SetCancelled, TypeOK, QuitSteps
<1>9. CASE ContinuePlay
  BY <1>9 DEF ContinuePlay, ControlPlaced, ThreadsPlaced, CallPlaced, CancelPlaced, EventsPlaced, Handshake,
     HandlerStays, RaiseInMain, ResetBackend, CancelBackend, SetCancelled, TypeOK, QuitSteps
<1>10. CASE ChooseNext
  BY <1>10 DEF ChooseNext, ControlPlaced, ThreadsPlaced, CallPlaced, CancelPlaced, EventsPlaced, Handshake,
     HandlerStays, RaiseInMain, ResetBackend, CancelBackend, SetCancelled, TypeOK, QuitSteps
<1>11. CASE ChooseSkip
  BY <1>11 DEF ChooseSkip, ControlPlaced, ThreadsPlaced, CallPlaced, CancelPlaced, EventsPlaced, Handshake,
     HandlerStays, RaiseInMain, ResetBackend, CancelBackend, SetCancelled, TypeOK, QuitSteps
<1>12. CASE ChooseQuit
  BY <1>12 DEF ChooseQuit, ControlPlaced, ThreadsPlaced, CallPlaced, CancelPlaced, EventsPlaced, Handshake,
     HandlerStays, RaiseInMain, ResetBackend, CancelBackend, SetCancelled, TypeOK, QuitSteps
<1>13. CASE ChooseSave
  BY <1>13 DEF ChooseSave, ControlPlaced, ThreadsPlaced, CallPlaced, CancelPlaced, EventsPlaced, Handshake,
     HandlerStays, RaiseInMain, ResetBackend, CancelBackend, SetCancelled, TypeOK, QuitSteps
<1> QED
  BY <1>1, <1>2, <1>3, <1>4, <1>5, <1>6, <1>7, <1>8, <1>9, <1>10, <1>11, <1>12, <1>13 DEF HandlerStep

\* Nor does a step of quit(), wherever it runs: only its first step comes before
\* the quit event.
LEMMA QuitControl ==
  ASSUME ControlPlaced, TypeOK, NEW thread \in {"main", "timer"}, quit_in(thread)
  PROVE  ControlPlaced'
<1>1. /\ quitting \in [{"main", "timer"} -> 0 .. 4]
      /\ quitting[thread] \in 1 .. 4
  BY DEF TypeOK, quit_in, QuitSteps
<1>2. /\ quitting' \in [{"main", "timer"} -> 0 .. 4]
      /\ quitting'[thread] = IF quitting[thread] = 4 THEN 0 ELSE quitting[thread] + 1
      /\ \A other \in {"main", "timer"} \ {thread} : quitting'[other] = quitting[other]
      /\ timer' = IF thread = "timer" /\ quitting[thread] = 4 THEN "off" ELSE timer
  BY <1>1 DEF quit_in, QuitSteps
<1>3. /\ UNCHANGED <<wpc, left, batch, isRange, cursor, event, error, processed>>
      /\ UNCHANGED <<main, handler>>
      /\ UNCHANGED <<phase, total, hasBackend, hasEngine, finished, startedEvent>>
  BY DEF quit_in, workerVars, batchVars, mainVars, handlerVars, QuitStep, CancelBackend,
     SetCancelled, backendVars, callVars, eventVars
<1>4. main # "spawn" /\ main # "prepare" /\ main # "join" /\ main # "leave" /\ main # "over"
  BY <1>1 DEF ControlPlaced, ThreadsPlaced
<1>5. /\ quitting[thread] > 1 => quit
      /\ stopped = "seen" => cancelled
      /\ cancelled => hasEngine
  BY <1>1 DEF ControlPlaced, ThreadsPlaced, CallPlaced
<1>6. CASE quitting[thread] = 1
  <2>1. quit' /\ UNCHANGED <<play, pausedEvent, cancelPending, cancelled, stopped>>
    BY <1>6 DEF quit_in, QuitStep, QuitSteps, backendVars, callVars
  <2> QED
    BY <1>1, <1>2, <1>3, <1>4, <2>1
       DEF ControlPlaced, ThreadsPlaced, CallPlaced, CancelPlaced, EventsPlaced, Handshake
<1>7. CASE quitting[thread] \in 2 .. 4
  <2>1. quit
    BY <1>5, <1>7
  <2>2. QuitStep("unpause") \/ QuitStep("play") \/ QuitStep("cancel")
    BY <1>7 DEF quit_in, QuitSteps
  <2>3. /\ quit' /\ (pausedEvent' => pausedEvent)
        /\ stopped' = stopped /\ (stopped' = "seen" => cancelled')
        /\ cancelled' => hasEngine
        /\ cancelPending' => cancelPending \/ hasBackend
    <3>1. CASE QuitStep("unpause")
      BY <1>5, <2>1, <3>1 DEF QuitStep, backendVars, callVars
    <3>2. CASE QuitStep("play")
      BY <1>5, <2>1, <3>2 DEF QuitStep, backendVars, callVars
    <3>3. CASE QuitStep("cancel")
      <4>1. CancelBackend /\ UNCHANGED eventVars
        BY <3>3 DEF QuitStep
      <4> QED
        BY <1>5, <2>1, <4>1 DEF CancelBackend, SetCancelled, eventVars
    <3> QED
      BY <2>2, <3>1, <3>2, <3>3
  <2> QED
    BY <1>1, <1>2, <1>3, <1>4, <2>1, <2>3
       DEF ControlPlaced, ThreadsPlaced, CallPlaced, CancelPlaced, EventsPlaced, Handshake
<1> QED
  BY <1>1, <1>6, <1>7

\* The timer, the user and the tasks of the engine.
LEMMA OthersControl ==
  ASSUME ControlPlaced, TypeOK,
         \/ TimerFires \/ Signal \/ Over
         \/ EngineWorkerStops /\ UNCHANGED scanVars
  PROVE  ControlPlaced'
<1> USE DEF scanVars, mainVars, timerVars, handlerVars, eventVars, backendVars, batchVars,
            workerVars, fuzzerVars, callVars, MainFree
<1>1. CASE TimerFires
  <2>1. /\ quitting \in [{"main", "timer"} -> 0 .. 4]
        /\ main # "spawn" /\ main # "prepare" /\ main # "join" /\ main # "leave" /\ main # "over"
    BY <1>1 DEF TimerFires, ControlPlaced, ThreadsPlaced, TypeOK, QuitSteps
  <2>2. quitting'["main"] = quitting["main"] /\ quitting'["timer"] = 1 /\ timer' = "fired"
    BY <1>1, <2>1 DEF TimerFires
  <2> QED
    BY <1>1, <2>1, <2>2 DEF TimerFires, ControlPlaced, ThreadsPlaced, CallPlaced, CancelPlaced,
       EventsPlaced, Handshake
<1>2. CASE Signal
  BY <1>2 DEF Signal, ControlPlaced, ThreadsPlaced, CallPlaced, CancelPlaced, EventsPlaced,
     Handshake
<1>3. CASE Over
  BY <1>3 DEF Over, vars, ControlPlaced, ThreadsPlaced, CallPlaced, CancelPlaced, EventsPlaced,
     Handshake
<1>4. CASE EngineWorkerStops /\ UNCHANGED scanVars
  BY <1>4 DEF EngineWorkerStops, WorkerStops, ControlPlaced, ThreadsPlaced, CallPlaced,
     CancelPlaced, EventsPlaced, Handshake
<1> QED
  BY <1>1, <1>2, <1>3, <1>4

-----------------------------------------------------------------------------
(* Work: what the worker holds of the dictionary                           *)

\* A part of a part of a sequence.
LEMMA PartOfPart ==
  ASSUME NEW S, NEW s \in Seq(S), NEW a \in Nat, NEW b \in 0 .. Len(s), a <= b,
         NEW c \in Nat, NEW d \in Nat, c <= d, a + d <= b
  PROVE  /\ SubSeq(s, a + 1, b) \in Seq(S) /\ Len(SubSeq(s, a + 1, b)) = b - a
         /\ SubSeq(SubSeq(s, a + 1, b), c + 1, d) = SubSeq(s, a + c + 1, a + d)
<1> DEFINE part == SubSeq(s, a + 1, b)
           inner == SubSeq(part, c + 1, d)
           outer == SubSeq(s, a + c + 1, a + d)
<1>1. Len(s) \in Nat /\ \A i \in 1 .. Len(s) : s[i] \in S
  BY LenProperties, ElementOfSeq
<1>2. /\ part \in Seq(S) /\ Len(part) = b - a
      /\ \A i \in 1 .. b - a : part[i] = s[a + i]
  <2>1. /\ a + 1 \in Int /\ b \in Int /\ \A i \in a + 1 .. b : s[i] \in S
        /\ (IF a + 1 <= b THEN b - (a + 1) + 1 ELSE 0) = b - a
        /\ \A i \in Int : (a + 1) + i - 1 = a + i
    BY <1>1
  <2>2. part \in Seq(S)
    BY <2>1, SubSeqProperties
  <2>3. Len(part) = IF a + 1 <= b THEN b - (a + 1) + 1 ELSE 0
    BY <2>1, SubSeqProperties
  <2>4. \A i \in 1 .. b - (a + 1) + 1 : part[i] = s[(a + 1) + i - 1]
    BY <2>1, SubSeqProperties
  <2> HIDE DEF part
  <2>5. Len(part) = b - a
    BY <2>1, <2>3
  <2>6. ASSUME NEW i \in 1 .. b - a
        PROVE  part[i] = s[a + i]
    <3>1. i \in 1 .. b - (a + 1) + 1 /\ (a + 1) + i - 1 = a + i
      OBVIOUS
    <3> QED
      BY <2>4, <3>1
  <2> QED
    BY <2>2, <2>5, <2>6
<1> HIDE DEF part
<1>3. /\ inner \in Seq(S) /\ Len(inner) = d - c
      /\ \A i \in 1 .. d - c : inner[i] = part[c + i]
  <2>1. /\ c + 1 \in Int /\ d \in Int /\ \A i \in c + 1 .. d : part[i] \in S
        /\ (IF c + 1 <= d THEN d - (c + 1) + 1 ELSE 0) = d - c
        /\ \A i \in Int : (c + 1) + i - 1 = c + i
    <3>1. /\ \A i \in 1 .. b - a : part[i] \in S
          /\ c + 1 .. d \subseteq 1 .. b - a
      BY <1>2, ElementOfSeq
    <3> QED
      BY <3>1
  <2>2. inner \in Seq(S)
    BY <2>1, SubSeqProperties
  <2>3. Len(inner) = IF c + 1 <= d THEN d - (c + 1) + 1 ELSE 0
    BY <2>1, SubSeqProperties
  <2>4. \A i \in 1 .. d - (c + 1) + 1 : inner[i] = part[(c + 1) + i - 1]
    BY <2>1, SubSeqProperties
  <2> HIDE DEF inner
  <2>5. Len(inner) = d - c
    BY <2>1, <2>3
  <2>6. ASSUME NEW i \in 1 .. d - c
        PROVE  inner[i] = part[c + i]
    <3>1. i \in 1 .. d - (c + 1) + 1 /\ (c + 1) + i - 1 = c + i
      OBVIOUS
    <3> QED
      BY <2>4, <3>1
  <2> QED
    BY <2>2, <2>5, <2>6
<1>4. /\ outer \in Seq(S) /\ Len(outer) = d - c
      /\ \A i \in 1 .. d - c : outer[i] = s[a + c + i]
  <2>1. /\ a + c + 1 \in Int /\ a + d \in Int /\ \A i \in a + c + 1 .. a + d : s[i] \in S
        /\ (IF a + c + 1 <= a + d THEN (a + d) - (a + c + 1) + 1 ELSE 0) = d - c
        /\ \A i \in Int : (a + c + 1) + i - 1 = a + c + i
    BY <1>1
  <2>2. outer \in Seq(S)
    BY <2>1, SubSeqProperties
  <2>3. Len(outer) = IF a + c + 1 <= a + d THEN (a + d) - (a + c + 1) + 1 ELSE 0
    BY <2>1, SubSeqProperties
  <2>4. \A i \in 1 .. (a + d) - (a + c + 1) + 1 : outer[i] = s[(a + c + 1) + i - 1]
    BY <2>1, SubSeqProperties
  <2> HIDE DEF outer
  <2>5. Len(outer) = d - c
    BY <2>1, <2>3
  <2>6. ASSUME NEW i \in 1 .. d - c
        PROVE  outer[i] = s[a + c + i]
    <3>1. i \in 1 .. (a + d) - (a + c + 1) + 1 /\ (a + c + 1) + i - 1 = a + c + i
      OBVIOUS
    <3> QED
      BY <2>4, <3>1
  <2> QED
    BY <2>2, <2>5, <2>6
<1> HIDE DEF inner, outer
<1>5. \A i \in 1 .. d - c : inner[i] = outer[i]
  <2>1. SUFFICES ASSUME NEW i \in 1 .. d - c PROVE inner[i] = outer[i]
    OBVIOUS
  <2>2. c + i \in 1 .. b - a /\ a + (c + i) = a + c + i
    OBVIOUS
  <2>3. part[c + i] = s[a + (c + i)]
    BY <1>2, <2>2
  <2> QED
    BY <1>3, <1>4, <2>2, <2>3
<1>6. inner = outer
  BY <1>3, <1>4, <1>5, SeqEqual
<1> QED
  BY <1>2, <1>6 DEF part, inner, outer
\* A claimed batch is held from its first path on, whichever way it was claimed.
LEMMA ClaimHeld ==
  ASSUME DictTypeOK, NothingHeld, ClaimBatch
  PROVE  /\ DictTypeOK' /\ RangeInFlight' /\ batch' \in Seq(Paths) /\ BatchHeld'
         /\ \A p : Outstanding(p)' = Outstanding(p)
<1>1. /\ claimed = <<>> /\ nativeClaim = NoClaim
      /\ ClaimSize \in Nat /\ claim_native_many(ClaimSize)
      /\ isRange' = (nativeClaim' # NoClaim) /\ cursor' = 0
      /\ batch' = IF isRange'
                    THEN SubSeq(Wordlist, index + 1, index')
                    ELSE SubSeq(claimed', Len(claimed) + 1, Len(claimed'))
  BY NativeFuzzerAssumption DEF NothingHeld, ClaimBatch
<1>2. DictTypeOK' /\ RangeInFlight' /\ \A p : Outstanding(p)' = Outstanding(p)
  BY <1>1, ClaimNativeOutstanding
<1>3. /\ claimed' \in Seq(Paths) /\ Len(claimed') \in Nat
      /\ Wordlist \in Seq(Paths) /\ Len(Wordlist) \in Nat /\ index \in 0 .. Len(Wordlist)
      /\ Len(claimed) = 0
  BY <1>1, <1>2, DictionaryAssumption, LenProperties DEF DictTypeOK
<1>4. CASE nativeClaim' = NoClaim
  <2>1. batch' = SubSeq(claimed', 1, Len(claimed'))
    <3>1. Len(claimed) + 1 = 1
      BY <1>3
    <3>2. batch' = SubSeq(claimed', Len(claimed) + 1, Len(claimed'))
      BY <1>1, <1>4, Zenon
    <3> QED
      BY <3>1, <3>2, Zenon
  <2>2. batch' = claimed'
    BY <1>3, <2>1, SubSeqFull
  <2>3. claimed' = SubSeq(batch', 0 + 1, Len(batch'))
    BY <2>1, <2>2
  <2> QED
    <3>1. ~isRange'
      BY <1>1, <1>4, Zenon
    <3>2. cursor' = 0
      BY <1>1, Zenon
    <3>3. cursor' <= Len(batch')
      BY <1>3, <2>2, <3>2
    <3> QED
      BY <1>2, <1>3, <1>4, <2>2, <2>3, <3>1, <3>2, <3>3 DEF BatchHeld
<1>5. CASE nativeClaim' # NoClaim
  <2> DEFINE n == index' - index
  <2>1. ClaimRange(ClaimSize)
    BY <1>1, <1>5 DEF claim_native_many, claim_many, ClaimExtras
  <2>2. /\ index' \in 0 .. Len(Wordlist) /\ n \in Nat /\ n > 0 /\ claimed' = claimed
        /\ nativeClaim' = [start |-> index, size |-> n, released |-> 0]
        /\ index + n = index'
    BY <1>1, <1>3, <2>1 DEF ClaimRange, AtMost
  <2>3. batch' = SubSeq(Wordlist, index + 1, index')
    BY <1>1, <1>5
  <2>4. batch' \in Seq(Paths) /\ Len(batch') = n
    <3> DEFINE stop == index'
    <3>1. /\ stop \in 0 .. Len(Wordlist) /\ index \in Nat /\ stop - index \in Nat
      <4>1. stop \in 0 .. Len(Wordlist) /\ stop - index \in Nat
        BY <2>2
      <4>2. index \in Nat
        BY <1>3
      <4> QED
        BY <4>1, <4>2
    <3>2. batch' = SubSeq(Wordlist, index + 1, stop) /\ n = stop - index
      BY <2>3
    <3> HIDE DEF stop, n
    <3>3. index <= stop /\ 0 \in Nat /\ 0 <= 0 /\ index + 0 <= stop
      BY <3>1
    <3>4. /\ SubSeq(Wordlist, index + 1, stop) \in Seq(Paths)
          /\ Len(SubSeq(Wordlist, index + 1, stop)) = stop - index
      BY <1>3, <3>1, <3>3, PartOfPart
    <3> QED
      BY <3>2, <3>4
  <2>5. batch' = SubSeq(Wordlist, nativeClaim'.start + 1, nativeClaim'.start + nativeClaim'.size)
    BY <2>2, <2>3
  <2>6. isRange' = TRUE /\ nativeClaim'.size = Len(batch') /\ nativeClaim'.released = 0
    <3> HIDE DEF n
    <3>1. nativeClaim'.size = n /\ nativeClaim'.released = 0
      BY <2>2
    <3> QED
      BY <1>1, <1>5, <2>4, <3>1
  <2>7. cursor' = 0 /\ cursor' <= Len(batch') /\ cursor' # Len(batch') /\ claimed' = <<>>
    <3>1. cursor' = 0 /\ claimed' = <<>>
      BY <1>1, <2>2
    <3> QED
      BY <2>2, <2>4, <3>1
  <2> HIDE DEF n
  <2> QED
    BY <1>2, <2>4, <2>5, <2>6, <2>7 DEF BatchHeld
<1> QED
  BY <1>4, <1>5

\* Releasing the next part of the batch leaves the rest held, and takes exactly
\* that part off what is owed.
LEMMA ReleaseHeld ==
  ASSUME DictTypeOK, RangeInFlight, BatchHeld,
         batch \in Seq(Paths), cursor \in Nat,
         NEW to \in Nat, cursor < to, to <= Len(batch), ReleasePart(cursor, to),
         batch' = batch, isRange' = isRange, cursor' = to
  PROVE  /\ DictTypeOK' /\ RangeInFlight' /\ BatchHeld'
         /\ \A p : Outstanding(p)
                     = Outstanding(p)' + Occurrences(SubSeq(batch, cursor + 1, to), p)
<1> DEFINE n == Len(batch)
           count == to - cursor
<1>1. n \in Nat /\ count \in Nat /\ count > 0
  BY LenProperties
<1>2. CASE isRange
  <2> DEFINE start == nativeClaim.start
  <2>1. /\ claimed = <<>> /\ nativeClaim.size = n /\ nativeClaim.released = cursor
        /\ batch = SubSeq(Wordlist, start + 1, start + n)
        /\ release_native_claims(count)
    BY <1>1, <1>2 DEF BatchHeld, ReleasePart
  <2>2. /\ DictTypeOK' /\ RangeInFlight'
        /\ \A p : Outstanding(p)
                    = Outstanding(p)' + Occurrences(SubSeq(NativeOutstanding, 1, count), p)
    BY <1>1, <2>1, ReleaseRangeOutstanding
  <2>3. /\ start \in Nat /\ start + n \in 0 .. Len(Wordlist)
        /\ Wordlist \in Seq(Paths) /\ Len(Wordlist) \in Nat
    <3>1. nativeClaim \in NativeClaims /\ index \in 0 .. Len(Wordlist)
      BY DEF DictTypeOK
    <3>2. start \in Nat /\ start + n = index
      BY <1>1, <2>1, <3>1 DEF RangeInFlight, NoClaim, NativeClaims
    <3> QED
      BY <3>1, <3>2, DictionaryAssumption, LenProperties
  <2>4. NativeOutstanding = SubSeq(Wordlist, start + cursor + 1, start + n)
    BY <2>1 DEF NativeOutstanding
  <2>5. SubSeq(NativeOutstanding, 1, count)
          = SubSeq(Wordlist, start + cursor + 1, start + cursor + count)
    <3>1. /\ start + cursor \in Nat /\ (start + cursor) + count <= start + n
          /\ start + cursor + 1 = (start + cursor) + 1
      BY <1>1, <2>3
    <3> DEFINE from == start + cursor
               stop == start + n
    <3>2. NativeOutstanding = SubSeq(Wordlist, from + 1, stop)
      BY <2>4
    <3>3. from \in Nat /\ stop \in 0 .. Len(Wordlist) /\ from + count <= stop
      BY <2>3, <3>1
    <3> HIDE DEF from, stop, count
    <3>4. SubSeq(SubSeq(Wordlist, from + 1, stop), 1, count)
            = SubSeq(Wordlist, from + 1, from + count)
      BY <1>1, <2>3, <3>3, RangeCut
    <3> QED
      BY <3>2, <3>4 DEF from
  <2>6. SubSeq(batch, cursor + 1, to) = SubSeq(Wordlist, start + cursor + 1, start + to)
    <3>1. start <= start + n /\ cursor <= to /\ start + to <= start + n
      <4>1. start \in Nat /\ n \in Nat /\ to <= n
        BY <1>1, <2>3
      <4> HIDE DEF start, n
      <4> QED
        BY <4>1
    <3> DEFINE stop == start + n
    <3>2. stop \in 0 .. Len(Wordlist) /\ start <= stop /\ start + to <= stop
      BY <2>3, <3>1
    <3>3. batch = SubSeq(Wordlist, start + 1, stop)
      BY <2>1
    <3> HIDE DEF stop
    <3> HIDE DEF start
    <3>4. SubSeq(SubSeq(Wordlist, start + 1, stop), cursor + 1, to)
            = SubSeq(Wordlist, start + cursor + 1, start + to)
      BY <2>3, <3>1, <3>2, PartOfPart
    <3> QED
      BY <3>3, <3>4
  <2>7. start + cursor + count = start + to
    <3>1. start \in Nat
      BY <2>3
    <3> HIDE DEF start
    <3> QED
      BY <3>1
  <2>8. BatchHeld'
    <3>1. claimed' = claimed
          /\ nativeClaim' = IF cursor + count = n THEN NoClaim
                            ELSE [nativeClaim EXCEPT !.released = @ + count]
      BY <2>1 DEF release_native_claims
    <3>2. CASE to = n
      <4>1. nativeClaim' = NoClaim
        BY <1>1, <3>1, <3>2
      <4> QED
        BY <1>2, <2>1, <3>1, <3>2, <4>1 DEF BatchHeld
    <3>3. CASE to # n
      <4>1. /\ nativeClaim' = [nativeClaim EXCEPT !.released = @ + count]
            /\ nativeClaim \in NativeClaims
        BY <1>1, <3>1, <3>3 DEF DictTypeOK
      <4>2. nativeClaim'.start = start /\ nativeClaim'.size = n /\ nativeClaim'.released = to
        BY <1>1, <2>1, <4>1 DEF NativeClaims
      <4> QED
        BY <1>2, <2>1, <3>1, <3>3, <4>2 DEF BatchHeld
    <3> QED
      BY <3>2, <3>3
  <2> QED
    BY <2>2, <2>5, <2>6, <2>7, <2>8
<1>3. CASE ~isRange
  <2> DEFINE front == SubSeq(batch, cursor + 1, to)
  <2>1. /\ nativeClaim = NoClaim /\ claimed = SubSeq(batch, cursor + 1, n)
        /\ release_claims(front)
    BY <1>3 DEF BatchHeld, ReleasePart
  <2>2. /\ Len(claimed) = n - cursor
        /\ SubSeq(claimed, 0 + 1, count) = SubSeq(batch, cursor + 0 + 1, cursor + count)
        /\ SubSeq(claimed, count + 1, n - cursor)
              = SubSeq(batch, cursor + count + 1, cursor + (n - cursor))
    <3>1. /\ 0 \in Nat /\ cursor <= n /\ n \in 0 .. Len(batch) /\ n - cursor \in Nat
          /\ 0 <= count /\ cursor + count <= n
          /\ count <= n - cursor /\ cursor + (n - cursor) <= n
      BY <1>1
    <3>2. /\ Len(SubSeq(batch, cursor + 1, n)) = n - cursor
          /\ SubSeq(SubSeq(batch, cursor + 1, n), 0 + 1, count)
                = SubSeq(batch, cursor + 0 + 1, cursor + count)
      BY <1>1, <3>1, PartOfPart
    <3>3. SubSeq(SubSeq(batch, cursor + 1, n), count + 1, n - cursor)
            = SubSeq(batch, cursor + count + 1, cursor + (n - cursor))
      BY <1>1, <3>1, PartOfPart
    <3> QED
      BY <2>1, <3>2, <3>3
  <2>3. /\ SubSeq(claimed, 1, count) = front
        /\ SubSeq(claimed, count + 1, Len(claimed)) = SubSeq(batch, to + 1, n)
        /\ count \in 1 .. Len(claimed)
    <3>1. /\ 0 + 1 = 1 /\ cursor + 0 + 1 = cursor + 1 /\ cursor + count = to
          /\ cursor + count + 1 = to + 1 /\ cursor + (n - cursor) = n
          /\ count \in 1 .. n - cursor
      BY <1>1
    <3> HIDE DEF n, count
    <3> QED
      BY <2>2, <3>1
  <2>4. release_claims(SubSeq(claimed, 1, count))
    BY <2>1, <2>3
  <2>5. /\ DictTypeOK' /\ RangeInFlight'
        /\ claimed' = SubSeq(batch, to + 1, n)
        /\ \A p : Outstanding(p) = Outstanding(p)' + Occurrences(front, p)
    BY <2>3, <2>4, ReleasePrefixOutstanding
  <2>6. nativeClaim' = nativeClaim
    BY <2>1 DEF release_claims
  <2> QED
    BY <1>3, <2>1, <2>5, <2>6 DEF BatchHeld
<1> QED
  BY <1>2, <1>3
\* A step that touches neither the dictionary nor the batch changes no account.
LEMMA FrameWork ==
  ASSUME TypeOK, Accounted, UNCHANGED dictVars, UNCHANGED <<batch, isRange, processed>>,
         wpc # "release", wpc' # "release"
  PROVE  /\ DictTypeOK' /\ RangeInFlight' /\ batch' \in Seq(Paths)
         /\ processed' \in [Paths -> Nat]
         /\ Accounted'
         /\ NothingHeld' <=> NothingHeld
         /\ Exhausted' <=> Exhausted
         /\ cursor' = cursor => (BatchHeld' <=> BatchHeld)
<1> USE DEF dictVars
<1>1. /\ DictTypeOK' /\ RangeInFlight' /\ batch' \in Seq(Paths)
      /\ processed' \in [Paths -> Nat]
  BY DEF TypeOK, DictTypeOK, RangeInFlight
<1>2. \A p : Outstanding(p)' = Outstanding(p)
  BY DEF Outstanding, NativeOutstanding, PendingExtra, PendingItems
<1>3. Due' = Due
  BY DEF Due
<1>4. \A p : InHand(p) = 0 /\ InHand(p)' = 0
  BY DEF InHand
<1>5. Accounted'
  BY <1>2, <1>3, <1>4 DEF Accounted
<1>6. /\ NothingHeld' <=> NothingHeld
      /\ Exhausted' <=> Exhausted
      /\ cursor' = cursor => (BatchHeld' <=> BatchHeld)
  BY DEF NothingHeld, Exhausted, BatchHeld
<1> QED
  BY <1>1, <1>5, <1>6

\* What a step keeps of the invariant besides the places of the four threads.
WorkPlaced == TypeOK /\ ClaimsPlaced /\ ChunkPlaced /\ Accounted

\* Steps of the worker that hand nothing out and settle nothing.
LEMMA WorkerRestsWork ==
  ASSUME WorkPlaced, ControlPlaced, UNCHANGED scanVars,
         \/ WorkerStart \/ CalibrateLock \/ CalibrateEnter \/ CalibrateEnds \/ CalibrateLeave \/ CalibrateConsume
         \/ Begin \/ LoopQuit \/ LoopGate \/ Acknowledge \/ WakeUp \/ Resume
         \/ NoBatch \/ ScanLock \/ ScanEnter \/ ScanEnds \/ ScanLeave \/ ScanConsume
         \/ ChunkCheck \/ ChunkRecheck \/ WorkerFinish
  PROVE  WorkPlaced'
<1> USE DEF Calibrating, Parking, Delivering, Batching, Ended, Processing, WorkPlaced,
            scanVars, mainVars, timerVars, handlerVars, eventVars, backendVars, batchVars,
            workerVars, fuzzerVars, callVars, WorkerAt, WorkerRests
<1>1. CASE WorkerStart
  <2>1. /\ UNCHANGED dictVars /\ UNCHANGED <<batch, isRange, cursor, processed, quitting, saved>>
        /\ wpc # "release" /\ wpc' # "release" /\ event' \in Nat
        /\ total' \in Nat /\ offset' \in 0 .. total'
    BY <1>1 DEF WorkerStart, TypeOK, LockCancel, SetCancelled, Enter, Leave, End, Finish
  <2> QED
    BY <1>1, <2>1, FrameWork DEF WorkerStart, TypeOK, ClaimsPlaced, ChunkPlaced, ControlPlaced, CallPlaced,
       CancelPlaced, EventsPlaced, Handshake, LockCancel, SetCancelled, Enter, Leave, End, MayEnd, Finish, Stop
<1>2. CASE CalibrateLock
  <2>1. /\ UNCHANGED dictVars /\ UNCHANGED <<batch, isRange, cursor, processed, quitting, saved>>
        /\ wpc # "release" /\ wpc' # "release" /\ event' \in Nat
        /\ total' \in Nat /\ offset' \in 0 .. total'
    BY <1>2 DEF CalibrateLock, TypeOK, LockCancel, SetCancelled, Enter, Leave, End, Finish
  <2> QED
    BY <1>2, <2>1, FrameWork DEF CalibrateLock, TypeOK, ClaimsPlaced, ChunkPlaced, ControlPlaced, CallPlaced,
       CancelPlaced, EventsPlaced, Handshake, LockCancel, SetCancelled, Enter, Leave, End, MayEnd, Finish, Stop
<1>3. CASE CalibrateEnter
  <2>1. /\ UNCHANGED dictVars /\ UNCHANGED <<batch, isRange, cursor, processed, quitting, saved>>
        /\ wpc # "release" /\ wpc' # "release" /\ event' \in Nat
        /\ total' \in Nat /\ offset' \in 0 .. total'
    BY <1>3 DEF CalibrateEnter, TypeOK, LockCancel, SetCancelled, Enter, Leave, End, Finish
  <2> QED
    BY <1>3, <2>1, FrameWork DEF CalibrateEnter, TypeOK, ClaimsPlaced, ChunkPlaced, ControlPlaced, CallPlaced,
       CancelPlaced, EventsPlaced, Handshake, LockCancel, SetCancelled, Enter, Leave, End, MayEnd, Finish, Stop
<1>4. CASE CalibrateEnds
  <2>1. /\ UNCHANGED dictVars /\ UNCHANGED <<batch, isRange, cursor, processed, quitting, saved>>
        /\ wpc # "release" /\ wpc' # "release" /\ event' \in Nat
        /\ total' \in Nat /\ offset' \in 0 .. total'
    BY <1>4 DEF CalibrateEnds, TypeOK, LockCancel, SetCancelled, Enter, Leave, End, Finish
  <2> QED
    BY <1>4, <2>1, FrameWork DEF CalibrateEnds, TypeOK, ClaimsPlaced, ChunkPlaced, ControlPlaced, CallPlaced,
       CancelPlaced, EventsPlaced, Handshake, LockCancel, SetCancelled, Enter, Leave, End, MayEnd, Finish, Stop
<1>5. CASE CalibrateLeave
  <2>1. /\ UNCHANGED dictVars /\ UNCHANGED <<batch, isRange, cursor, processed, quitting, saved>>
        /\ wpc # "release" /\ wpc' # "release" /\ event' \in Nat
        /\ total' \in Nat /\ offset' \in 0 .. total'
    BY <1>5 DEF CalibrateLeave, TypeOK, LockCancel, SetCancelled, Enter, Leave, End, Finish
  <2> QED
    BY <1>5, <2>1, FrameWork DEF CalibrateLeave, TypeOK, ClaimsPlaced, ChunkPlaced, ControlPlaced, CallPlaced,
       CancelPlaced, EventsPlaced, Handshake, LockCancel, SetCancelled, Enter, Leave, End, MayEnd, Finish, Stop
<1>6. CASE CalibrateConsume
  <2>1. /\ UNCHANGED dictVars /\ UNCHANGED <<batch, isRange, cursor, processed, quitting, saved>>
        /\ wpc # "release" /\ wpc' # "release" /\ event' \in Nat
        /\ total' \in Nat /\ offset' \in 0 .. total'
    BY <1>6 DEF CalibrateConsume, TypeOK, LockCancel, SetCancelled, Enter, Leave, End, Finish
  <2> QED
    BY <1>6, <2>1, FrameWork DEF CalibrateConsume, TypeOK, ClaimsPlaced, ChunkPlaced, ControlPlaced, CallPlaced,
       CancelPlaced, EventsPlaced, Handshake, LockCancel, SetCancelled, Enter, Leave, End, MayEnd, Finish, Stop
<1>7. CASE Begin
  <2>1. /\ UNCHANGED dictVars /\ UNCHANGED <<batch, isRange, cursor, processed, quitting, saved>>
        /\ wpc # "release" /\ wpc' # "release" /\ event' \in Nat
        /\ total' \in Nat /\ offset' \in 0 .. total'
    BY <1>7 DEF Begin, TypeOK, LockCancel, SetCancelled, Enter, Leave, End, Finish
  <2> QED
    BY <1>7, <2>1, FrameWork DEF Begin, TypeOK, ClaimsPlaced, ChunkPlaced, ControlPlaced, CallPlaced,
       CancelPlaced, EventsPlaced, Handshake, LockCancel, SetCancelled, Enter, Leave, End, MayEnd, Finish, Stop
<1>8. CASE LoopQuit
  <2>1. /\ UNCHANGED dictVars /\ UNCHANGED <<batch, isRange, cursor, processed, quitting, saved>>
        /\ wpc # "release" /\ wpc' # "release" /\ event' \in Nat
        /\ total' \in Nat /\ offset' \in 0 .. total'
    BY <1>8 DEF LoopQuit, TypeOK, LockCancel, SetCancelled, Enter, Leave, End, Finish
  <2> QED
    BY <1>8, <2>1, FrameWork DEF LoopQuit, TypeOK, ClaimsPlaced, ChunkPlaced, ControlPlaced, CallPlaced,
       CancelPlaced, EventsPlaced, Handshake, LockCancel, SetCancelled, Enter, Leave, End, MayEnd, Finish, Stop
<1>9. CASE LoopGate
  <2>1. /\ UNCHANGED dictVars /\ UNCHANGED <<batch, isRange, cursor, processed, quitting, saved>>
        /\ wpc # "release" /\ wpc' # "release" /\ event' \in Nat
        /\ total' \in Nat /\ offset' \in 0 .. total'
    BY <1>9 DEF LoopGate, TypeOK, LockCancel, SetCancelled, Enter, Leave, End, Finish
  <2> QED
    BY <1>9, <2>1, FrameWork DEF LoopGate, TypeOK, ClaimsPlaced, ChunkPlaced, ControlPlaced, CallPlaced,
       CancelPlaced, EventsPlaced, Handshake, LockCancel, SetCancelled, Enter, Leave, End, MayEnd, Finish, Stop
<1>10. CASE Acknowledge
  <2>1. /\ UNCHANGED dictVars /\ UNCHANGED <<batch, isRange, cursor, processed, quitting, saved>>
        /\ wpc # "release" /\ wpc' # "release" /\ event' \in Nat
        /\ total' \in Nat /\ offset' \in 0 .. total'
    BY <1>10 DEF Acknowledge, TypeOK, LockCancel, SetCancelled, Enter, Leave, End, Finish
  <2> QED
    BY <1>10, <2>1, FrameWork DEF Acknowledge, TypeOK, ClaimsPlaced, ChunkPlaced, ControlPlaced, CallPlaced,
       CancelPlaced, EventsPlaced, Handshake, LockCancel, SetCancelled, Enter, Leave, End, MayEnd, Finish, Stop
<1>11. CASE WakeUp
  <2>1. /\ UNCHANGED dictVars /\ UNCHANGED <<batch, isRange, cursor, processed, quitting, saved>>
        /\ wpc # "release" /\ wpc' # "release" /\ event' \in Nat
        /\ total' \in Nat /\ offset' \in 0 .. total'
    BY <1>11 DEF WakeUp, TypeOK, LockCancel, SetCancelled, Enter, Leave, End, Finish
  <2> QED
    BY <1>11, <2>1, FrameWork DEF WakeUp, TypeOK, ClaimsPlaced, ChunkPlaced, ControlPlaced, CallPlaced,
       CancelPlaced, EventsPlaced, Handshake, LockCancel, SetCancelled, Enter, Leave, End, MayEnd, Finish, Stop
<1>12. CASE Resume
  <2>1. /\ UNCHANGED dictVars /\ UNCHANGED <<batch, isRange, cursor, processed, quitting, saved>>
        /\ wpc # "release" /\ wpc' # "release" /\ event' \in Nat
        /\ total' \in Nat /\ offset' \in 0 .. total'
    BY <1>12 DEF Resume, TypeOK, LockCancel, SetCancelled, Enter, Leave, End, Finish
  <2> QED
    BY <1>12, <2>1, FrameWork DEF Resume, TypeOK, ClaimsPlaced, ChunkPlaced, ControlPlaced, CallPlaced,
       CancelPlaced, EventsPlaced, Handshake, LockCancel, SetCancelled, Enter, Leave, End, MayEnd, Finish, Stop
<1>13. CASE NoBatch
  <2>1. /\ UNCHANGED dictVars /\ UNCHANGED <<batch, isRange, cursor, processed, quitting, saved>>
        /\ wpc # "release" /\ wpc' # "release" /\ event' \in Nat
        /\ total' \in Nat /\ offset' \in 0 .. total'
    BY <1>13 DEF NoBatch, TypeOK, LockCancel, SetCancelled, Enter, Leave, End, Finish
  <2>2. NothingHeld /\ ~NativeClaimActive
    BY <1>13 DEF NoBatch, ClaimsPlaced, NothingHeld, NativeClaimActive, NoClaim
  <2>3. error' = error /\ Exhausted
    BY <1>13, <2>2 DEF NoBatch
  <2> QED
    BY <1>13, <2>1, <2>2, <2>3, FrameWork DEF NoBatch, TypeOK, ClaimsPlaced, ChunkPlaced
<1>14. CASE ScanLock
  <2>1. /\ UNCHANGED dictVars /\ UNCHANGED <<batch, isRange, cursor, processed, quitting, saved>>
        /\ wpc # "release" /\ wpc' # "release" /\ event' \in Nat
        /\ total' \in Nat /\ offset' \in 0 .. total'
    BY <1>14 DEF ScanLock, TypeOK, LockCancel, SetCancelled, Enter, Leave, End, Finish
  <2> QED
    BY <1>14, <2>1, FrameWork DEF ScanLock, TypeOK, ClaimsPlaced, ChunkPlaced, ControlPlaced, CallPlaced,
       CancelPlaced, EventsPlaced, Handshake, LockCancel, SetCancelled, Enter, Leave, End, MayEnd, Finish, Stop
<1>15. CASE ScanEnter
  <2>1. /\ UNCHANGED dictVars /\ UNCHANGED <<batch, isRange, cursor, processed, quitting, saved>>
        /\ wpc # "release" /\ wpc' # "release" /\ event' \in Nat
        /\ total' \in Nat /\ offset' \in 0 .. total'
    BY <1>15 DEF ScanEnter, TypeOK, LockCancel, SetCancelled, Enter, Leave, End, Finish
  <2> QED
    BY <1>15, <2>1, FrameWork DEF ScanEnter, TypeOK, ClaimsPlaced, ChunkPlaced, ControlPlaced, CallPlaced,
       CancelPlaced, EventsPlaced, Handshake, LockCancel, SetCancelled, Enter, Leave, End, MayEnd, Finish, Stop
<1>16. CASE ScanEnds
  <2>1. /\ UNCHANGED dictVars /\ UNCHANGED <<batch, isRange, cursor, processed, quitting, saved>>
        /\ wpc # "release" /\ wpc' # "release" /\ event' \in Nat
        /\ total' \in Nat /\ offset' \in 0 .. total'
    BY <1>16 DEF ScanEnds, TypeOK, LockCancel, SetCancelled, Enter, Leave, End, Finish
  <2>2. phase = "running" /\ total = Len(batch) /\ stopped # "missed" /\ wpc = "scan"
    BY <1>16 DEF ScanEnds, ControlPlaced, CallPlaced
  <2>3. PICK reason \in Results :
          /\ MayEnd(reason)
          /\ error' = CASE reason = "short" -> "runtime"
                        [] reason = "failed" -> "engine"
                        [] OTHER -> error
    BY <1>16 DEF ScanEnds, End
  <2>4. /\ reason \in {"complete", "cancelled", "failed"}
        /\ reason = "complete" => offset = total
        /\ reason = "cancelled" => cancelled
    BY <2>2, <2>3 DEF MayEnd
  <2>5. reason = "failed" => error' = "engine"
    BY <2>3
  <2>6. reason # "failed" => error' = error
    BY <2>3, <2>4
  <2>7. cancelled => Stop
    BY <2>2 DEF ControlPlaced, CancelPlaced, Handshake, Stop
  <2>8. cursor = Len(batch) /\ BatchHeld => NothingHeld
    <3>1. Len(batch) \in Nat
      BY LenProperties DEF TypeOK
    <3>2. SubSeq(batch, Len(batch) + 1, Len(batch)) = <<>>
      BY <3>1, SubSeqEmpty DEF TypeOK
    <3> QED
      BY <3>2 DEF BatchHeld, NothingHeld
  <2>9. Stop \/ NothingHeld \/ error' # "none"
    BY <2>2, <2>4, <2>5, <2>7, <2>8 DEF ClaimsPlaced
  <2>10. error' # "runtime" /\ wpc' = "leave" /\ Stop' = Stop /\ quit' = quit
    BY <1>16, <2>4, <2>5, <2>6 DEF ScanEnds, ChunkPlaced, Stop
  <2> QED
    BY <2>1, <2>9, <2>10, FrameWork DEF TypeOK, ClaimsPlaced, ChunkPlaced
<1>17. CASE ScanLeave
  <2>1. /\ UNCHANGED dictVars /\ UNCHANGED <<batch, isRange, cursor, processed, quitting, saved>>
        /\ wpc # "release" /\ wpc' # "release" /\ event' \in Nat
        /\ total' \in Nat /\ offset' \in 0 .. total'
    BY <1>17 DEF ScanLeave, TypeOK, LockCancel, SetCancelled, Enter, Leave, End, Finish
  <2> QED
    BY <1>17, <2>1, FrameWork DEF ScanLeave, TypeOK, ClaimsPlaced, ChunkPlaced, ControlPlaced, CallPlaced,
       CancelPlaced, EventsPlaced, Handshake, LockCancel, SetCancelled, Enter, Leave, End, MayEnd, Finish, Stop
<1>18. CASE ScanConsume
  <2>1. /\ UNCHANGED dictVars /\ UNCHANGED <<batch, isRange, cursor, processed, quitting, saved>>
        /\ wpc # "release" /\ wpc' # "release" /\ event' \in Nat
        /\ total' \in Nat /\ offset' \in 0 .. total'
    BY <1>18 DEF ScanConsume, TypeOK, LockCancel, SetCancelled, Enter, Leave, End, Finish
  <2> QED
    BY <1>18, <2>1, FrameWork DEF ScanConsume, TypeOK, ClaimsPlaced, ChunkPlaced, ControlPlaced, CallPlaced,
       CancelPlaced, EventsPlaced, Handshake, LockCancel, SetCancelled, Enter, Leave, End, MayEnd, Finish, Stop
<1>19. CASE ChunkCheck
  <2>1. /\ UNCHANGED dictVars /\ UNCHANGED <<batch, isRange, cursor, processed, quitting, saved>>
        /\ wpc # "release" /\ wpc' # "release" /\ event' \in Nat
        /\ total' \in Nat /\ offset' \in 0 .. total'
    BY <1>19 DEF ChunkCheck, TypeOK, LockCancel, SetCancelled, Enter, Leave, End, Finish
  <2> QED
    BY <1>19, <2>1, FrameWork DEF ChunkCheck, TypeOK, ClaimsPlaced, ChunkPlaced, Stop
<1>20. CASE ChunkRecheck
  <2>1. /\ UNCHANGED dictVars /\ UNCHANGED <<batch, isRange, cursor, processed, quitting, saved>>
        /\ wpc # "release" /\ wpc' # "release" /\ event' \in Nat
        /\ total' \in Nat /\ offset' \in 0 .. total'
    BY <1>20 DEF ChunkRecheck, TypeOK, LockCancel, SetCancelled, Enter, Leave, End, Finish
  <2> QED
    BY <1>20, <2>1, FrameWork DEF ChunkRecheck, TypeOK, ClaimsPlaced, ChunkPlaced, Stop
<1>21. CASE WorkerFinish
  <2>1. /\ UNCHANGED dictVars /\ UNCHANGED <<batch, isRange, cursor, processed, quitting, saved>>
        /\ wpc # "release" /\ wpc' # "release" /\ event' \in Nat
        /\ total' \in Nat /\ offset' \in 0 .. total'
    BY <1>21 DEF WorkerFinish, TypeOK, LockCancel, SetCancelled, Enter, Leave, End, Finish
  <2> QED
    BY <1>21, <2>1, FrameWork DEF WorkerFinish, TypeOK, ClaimsPlaced, ChunkPlaced, ControlPlaced, CallPlaced,
       CancelPlaced, EventsPlaced, Handshake, LockCancel, SetCancelled, Enter, Leave, End, MayEnd, Finish, Stop
<1> QED
  BY <1>1, <1>2, <1>3, <1>4, <1>5, <1>6, <1>7, <1>8, <1>9, <1>10, <1>11, <1>12, <1>13, <1>14, <1>15, <1>16, <1>17, <1>18, <1>19, <1>20, <1>21
\* Giving everything back leaves nothing held and every account as it was.
LEMMA RequeueWork ==
  ASSUME TypeOK, Accounted, requeue_claims, UNCHANGED processed,
         wpc # "release", wpc' # "release"
  PROVE  DictTypeOK' /\ RangeInFlight' /\ NothingHeld' /\ Accounted'
<1>1. /\ DictTypeOK' /\ RangeInFlight'
      /\ \A p : Outstanding(p)' = Outstanding(p)
  BY RequeueOutstanding DEF TypeOK
<1>2. NothingHeld' /\ extraMembership' = extraMembership
  BY DEF requeue_claims, NothingHeld
<1>3. Due' = Due
  BY <1>2 DEF Due
<1>4. \A p : InHand(p) = 0 /\ InHand(p)' = 0
  BY DEF InHand
<1> QED
  BY <1>1, <1>2, <1>3, <1>4 DEF Accounted

\* Batches claimed, delivered and given back.
LEMMA WorkerBatchWork ==
  ASSUME WorkPlaced, ControlPlaced, UNCHANGED scanVars,
         Requeue \/ ClaimBatch \/ DeliverChunk \/ BatchDone
  PROVE  WorkPlaced'
<1> USE DEF Calibrating, Parking, Delivering, Batching, Ended, Processing, WorkPlaced,
            scanVars, mainVars, timerVars, handlerVars, eventVars, backendVars, batchVars,
            workerVars, fuzzerVars, callVars, WorkerAt, WorkerRests
<1>1. CASE Requeue
  <2>1. DictTypeOK' /\ RangeInFlight' /\ NothingHeld' /\ Accounted'
    BY <1>1, RequeueWork DEF Requeue
  <2> QED
    BY <1>1, <2>1 DEF Requeue, TypeOK, ClaimsPlaced, ChunkPlaced
<1>2. CASE ClaimBatch
  <2>1. NothingHeld /\ wpc = "claim" /\ wpc' = "lock"
    BY <1>2 DEF ClaimBatch, ClaimsPlaced
  <2>2. /\ DictTypeOK' /\ RangeInFlight' /\ batch' \in Seq(Paths) /\ BatchHeld'
        /\ \A p : Outstanding(p)' = Outstanding(p)
    BY <1>2, <2>1, ClaimHeld DEF TypeOK
  <2>3. /\ cursor' = 0 /\ event' = 0 /\ extraMembership' = extraMembership
        /\ UNCHANGED <<callVars, processed, error, quitting, saved>>
    BY <1>2 DEF ClaimBatch, claim_native_many, claim_many, ClaimExtras, ClaimRange
  <2>4. Accounted'
    <3>1. Due' = Due
      BY <2>3 DEF Due
    <3>2. \A p : InHand(p) = 0 /\ InHand(p)' = 0
      BY <2>1 DEF InHand
    <3> QED
      BY <2>2, <2>3, <3>1, <3>2 DEF Accounted
  <2>5. TypeOK'
    BY <2>2, <2>3 DEF TypeOK
  <2> QED
    BY <2>1, <2>2, <2>3, <2>4, <2>5 DEF ClaimsPlaced, ChunkPlaced
<1>3. CASE DeliverChunk
  <2>1. /\ UNCHANGED dictVars
        /\ UNCHANGED <<batch, isRange, processed, event, error, quitting, saved, total, quit, play>>
        /\ wpc = "scan" /\ wpc' = "check" /\ cursor' = offset
        /\ offset' \in 0 .. total /\ offset' > offset
    BY <1>3 DEF DeliverChunk, Deliver, TypeOK
  <2>2. /\ DictTypeOK' /\ RangeInFlight' /\ batch' \in Seq(Paths)
        /\ processed' \in [Paths -> Nat] /\ Accounted'
        /\ cursor' = cursor => (BatchHeld' <=> BatchHeld)
    BY <2>1, FrameWork
  <2>3. TypeOK'
    BY <2>1, <2>2 DEF TypeOK
  <2>4. Stop' = Stop /\ (Stop \/ BatchHeld') /\ cursor' <= offset'
    BY <2>1, <2>2 DEF ClaimsPlaced, Stop, TypeOK
  <2> QED
    BY <2>1, <2>2, <2>3, <2>4 DEF ClaimsPlaced, ChunkPlaced
<1>4. CASE BatchDone
  <2>1. /\ wpc = "after" /\ cursor' = 0 /\ event' = 0 /\ batch' = <<>>
        /\ UNCHANGED <<callVars, eventVars, error, processed, quitting, saved>>
        /\ wpc' = IF error = "none" THEN "loop" ELSE "finish"
    BY <1>4 DEF BatchDone, NoBatchLocals
  <2>2. batch' \in Seq(Paths)
    BY <2>1, EmptySeq
  <2>3. CASE play /\ error = "none"
    <3>1. UNCHANGED dictVars
      BY <1>4, <2>3 DEF BatchDone
    <3>2. DictTypeOK' /\ RangeInFlight'
      BY <3>1 DEF dictVars, TypeOK, DictTypeOK, RangeInFlight
    <3>3. Accounted'
      <4>1. /\ Due' = Due
            /\ \A p : Outstanding(p)' = Outstanding(p)
        BY <3>1 DEF dictVars, Due, Outstanding, NativeOutstanding, PendingExtra, PendingItems
      <4>2. \A p : InHand(p) = 0 /\ InHand(p)' = 0
        BY <2>1 DEF InHand
      <4> QED
        BY <2>1, <4>1, <4>2 DEF Accounted
    <3>4. quit \/ NothingHeld
      BY <2>1, <2>3 DEF ClaimsPlaced, Stop
    <3>5. NothingHeld => NothingHeld'
      BY <3>1 DEF dictVars, NothingHeld
    <3>6. TypeOK'
      BY <2>1, <2>2, <3>2 DEF TypeOK
    <3> QED
      BY <2>1, <2>3, <3>3, <3>4, <3>5, <3>6 DEF ClaimsPlaced, ChunkPlaced
  <2>4. CASE ~(play /\ error = "none")
    <3>1. requeue_claims
      BY <1>4, <2>4 DEF BatchDone
    <3>2. DictTypeOK' /\ RangeInFlight' /\ NothingHeld' /\ Accounted'
      BY <2>1, <3>1, RequeueWork
    <3>3. TypeOK'
      BY <2>1, <2>2, <3>2 DEF TypeOK
    <3> QED
      BY <2>1, <3>2, <3>3 DEF ClaimsPlaced, ChunkPlaced
  <2> QED
    BY <2>3, <2>4
<1> QED
  BY <1>1, <1>2, <1>3, <1>4
\* Filtered results are settled and released in one step: the part comes off what
\* is owed and onto what is processed.
LEMMA FilteredWork ==
  ASSUME WorkPlaced, NEW to \in Nat, cursor < to, to <= Len(batch), BatchHeld,
         Settle(cursor, to), ReleasePart(cursor, to), cursor' = to,
         batch' = batch, isRange' = isRange, wpc # "release", wpc' # "release"
  PROVE  /\ DictTypeOK' /\ RangeInFlight' /\ BatchHeld' /\ Accounted'
         /\ processed' \in [Paths -> Nat]
<1> USE DEF WorkPlaced
<1>1. /\ batch \in Seq(Paths) /\ cursor \in Nat /\ Len(batch) \in Nat
      /\ processed \in [Paths -> Nat]
  BY LenProperties DEF TypeOK
<1>2. /\ DictTypeOK' /\ RangeInFlight' /\ BatchHeld'
      /\ \A p : Outstanding(p)
                  = Outstanding(p)' + Occurrences(SubSeq(batch, cursor + 1, to), p)
  BY <1>1, ReleaseHeld DEF TypeOK
<1>3. \A p : Occurrences(SubSeq(batch, cursor + 1, to), p) \in Nat
  <2>1. /\ to \in 0 .. Len(batch) /\ cursor <= to /\ 0 \in Nat /\ 0 <= 0 /\ cursor + 0 <= to
    BY <1>1
  <2>2. SubSeq(batch, cursor + 1, to) \in Seq(Paths)
    BY <1>1, <2>1, PartOfPart
  <2> QED
    BY <2>2, OccurrencesType
<1>4. /\ processed' \in [Paths -> Nat]
      /\ \A p \in Paths :
           processed'[p] = processed[p] + Occurrences(SubSeq(batch, cursor + 1, to), p)
  <2> DEFINE part(p) == Occurrences(SubSeq(batch, cursor + 1, to), p)
  <2>1. processed' = [p \in Paths |-> processed[p] + part(p)]
    BY DEF Settle
  <2>2. \A p : part(p) \in Nat
    BY <1>3
  <2> HIDE DEF part
  <2>3. /\ processed' \in [Paths -> Nat]
        /\ \A p \in Paths : processed'[p] = processed[p] + part(p)
    BY <1>1, <2>1, <2>2
  <2> QED
    BY <2>3 DEF part
<1>5. Due' = Due
  BY DEF ReleasePart, release_native_claims, release_claims, Due
<1>6. \A p : InHand(p) = 0 /\ InHand(p)' = 0
  BY DEF InHand
<1>7. \A p \in Paths : Outstanding(p)' \in Nat
  BY <1>2, QueuePartsNext
<1>8. Accounted'
  <2>1. SUFFICES ASSUME NEW p \in Paths
                 PROVE  processed'[p] + Outstanding(p)' = Due'[p] + InHand(p)'
    BY DEF Accounted
  <2>2. /\ processed[p] + Outstanding(p) = Due[p] + InHand(p)
        /\ Outstanding(p) = Outstanding(p)' + Occurrences(SubSeq(batch, cursor + 1, to), p)
        /\ processed'[p] = processed[p] + Occurrences(SubSeq(batch, cursor + 1, to), p)
        /\ Due'[p] = Due[p] /\ InHand(p)' = 0 /\ InHand(p) = 0
    BY <1>2, <1>4, <1>5, <1>6 DEF Accounted
  <2>3. processed[p] \in Nat /\ Outstanding(p)' \in Nat
        /\ Occurrences(SubSeq(batch, cursor + 1, to), p) \in Nat
    BY <1>1, <1>3, <1>7
  <2> QED
    BY <2>2, <2>3
<1> QED
  BY <1>2, <1>4, <1>8

\* One request of the batch is owed once.
LEMMA OneOfBatch ==
  ASSUME batch \in Seq(Paths), event \in Nat, event < Len(batch)
  PROVE  /\ batch[event + 1] \in Paths
         /\ \A p : Occurrences(SubSeq(batch, event + 1, event + 1), p)
                     = IF batch[event + 1] = p THEN 1 ELSE 0
<1>1. Len(batch) \in Nat /\ event + 1 \in 1 .. Len(batch)
  BY LenProperties
<1>2. batch[event + 1] \in Paths
  BY <1>1, ElementOfSeq
<1>3. SUFFICES ASSUME NEW p
              PROVE  Occurrences(SubSeq(batch, event + 1, event + 1), p)
                       = IF batch[event + 1] = p THEN 1 ELSE 0
  BY <1>2
<1> DEFINE this == Occurrences(SubSeq(batch, event + 1, event + 1), p)
           rest == Occurrences(SubSeq(batch, event + 1 + 1, Len(batch)), p)
           all == Occurrences(SubSeq(batch, event + 1, Len(batch)), p)
<1>4. all = (IF batch[event + 1] = p THEN 1 ELSE 0) + rest
  BY PendingHead
<1>5. all = this + rest
  BY <1>1, OccurrencesCut
<1>6. this \in Nat /\ rest \in Nat
  <2>1. /\ SubSeq(batch, event + 1, event + 1) \in Seq(Paths)
        /\ SubSeq(batch, event + 1 + 1, Len(batch)) \in Seq(Paths)
    <3>1. \A i \in 1 .. Len(batch) : batch[i] \in Paths
      BY ElementOfSeq
    <3>2. /\ \A i \in event + 1 .. event + 1 : batch[i] \in Paths
          /\ \A i \in event + 1 + 1 .. Len(batch) : batch[i] \in Paths
      BY <1>1, <3>1
    <3> QED
      BY <1>1, <3>2, SubSeqProperties
  <2> QED
    BY <2>1, OccurrencesType
<1> QED
  BY <1>4, <1>5, <1>6
\* Where the worker is while it processes a delivered range.
LEMMA ChunkFacts ==
  ASSUME WorkPlaced, ControlPlaced, wpc \in Processing
  PROVE  /\ BatchHeld /\ batch \in Seq(Paths) /\ Len(batch) \in Nat
         /\ cursor \in Nat /\ event \in Nat /\ offset \in Nat /\ total = Len(batch)
         /\ offset <= Len(batch) /\ cursor <= offset
         /\ wpc = "tail" => cursor < offset
         /\ wpc # "tail" => event < Len(batch) /\ event < offset
         /\ wpc = "gap" => cursor < event
         /\ wpc \in {"recheck", "event", "release"} => event = cursor
<1>1. wpc \in {"gap", "recheck", "event", "release", "tail"}
  BY DEF Processing
<1>2. batch \in Seq(Paths) /\ cursor \in Nat /\ event \in Nat /\ total \in Nat /\ offset \in 0 .. total
  BY DEF WorkPlaced, TypeOK
<1>3. Len(batch) \in Nat
  BY <1>2, LenProperties
<1>4. total = Len(batch)
  BY <1>1 DEF ControlPlaced, CallPlaced, Delivering, Processing
<1>5. BatchHeld
  BY <1>1 DEF WorkPlaced, ClaimsPlaced, Processing
<1>6. /\ wpc \in {"gap", "recheck", "event", "release"} => cursor <= event /\ event < offset
      /\ wpc = "gap" => cursor < event
      /\ wpc \in {"recheck", "event", "release"} => event = cursor
      /\ wpc = "tail" => cursor < offset
  BY DEF WorkPlaced, ChunkPlaced
<1> QED
  BY <1>1, <1>2, <1>3, <1>4, <1>5, <1>6

\* The worker settles the paths of filtered results, from the front of its range.
LEMMA WorkerFilteredWork ==
  ASSUME WorkPlaced, ControlPlaced, UNCHANGED scanVars, FilteredGap \/ FilteredTail
  PROVE  WorkPlaced'
<1> USE DEF Processing, Calibrating, Parking, Ended, scanVars, mainVars, timerVars, handlerVars,
            eventVars, backendVars, batchVars, workerVars, fuzzerVars, callVars, WorkerAt
<1>1. CASE FilteredGap
  <2>1. /\ wpc = "gap" /\ wpc' = "recheck" /\ cursor' = event /\ batch' = batch /\ isRange' = isRange
        /\ UNCHANGED <<event, offset, total, error, quitting, saved>>
        /\ Settle(cursor, event) /\ ReleasePart(cursor, event)
    BY <1>1 DEF FilteredGap
  <2>2. /\ BatchHeld /\ event \in Nat /\ cursor < event /\ event < Len(batch) /\ event < offset
        /\ event <= Len(batch)
    BY <2>1, ChunkFacts
  <2>3. /\ DictTypeOK' /\ RangeInFlight' /\ BatchHeld' /\ Accounted'
        /\ processed' \in [Paths -> Nat]
    BY <2>1, <2>2, FilteredWork
  <2>4. TypeOK'
    BY <2>1, <2>3 DEF WorkPlaced, TypeOK
  <2> QED
    BY <2>1, <2>2, <2>3, <2>4 DEF WorkPlaced, TypeOK, ClaimsPlaced, ChunkPlaced
<1>2. CASE FilteredTail
  <2>1. /\ wpc = "tail" /\ wpc' = "scan" /\ cursor' = offset /\ batch' = batch /\ isRange' = isRange
        /\ UNCHANGED <<event, offset, total, error, quitting, saved>>
        /\ Settle(cursor, offset) /\ ReleasePart(cursor, offset)
    BY <1>2 DEF FilteredTail
  <2>2. /\ BatchHeld /\ offset \in Nat /\ cursor < offset /\ offset <= Len(batch)
    BY <2>1, ChunkFacts
  <2>3. /\ DictTypeOK' /\ RangeInFlight' /\ BatchHeld' /\ Accounted'
        /\ processed' \in [Paths -> Nat]
    BY <2>1, <2>2, FilteredWork
  <2>4. TypeOK'
    BY <2>1, <2>2, <2>3 DEF WorkPlaced, TypeOK
  <2> QED
    BY <2>1, <2>2, <2>3, <2>4 DEF WorkPlaced, TypeOK, ClaimsPlaced, ChunkPlaced
<1> QED
  BY <1>1, <1>2

\* What is due of a path is a number.
LEMMA DueType == \A p \in Paths : Due[p] \in Nat
<1>1. SUFFICES ASSUME NEW p \in Paths PROVE Due[p] \in Nat
  OBVIOUS
<1>2. Occurrences(Wordlist, p) \in Nat
  BY DictionaryAssumption, OccurrencesType
<1>3. Due[p] = Occurrences(Wordlist, p) + (IF p \in extraMembership THEN 1 ELSE 0)
  BY DEF Due
<1> QED
  BY <1>2, <1>3

\* A processed event is in hand: settled, and not yet released.  What crawling
\* its response adds to the queue is due from then on.
LEMMA ProcessEventWork ==
  ASSUME WorkPlaced, ControlPlaced, UNCHANGED scanVars, ProcessEvent
  PROVE  WorkPlaced'
<1> DEFINE q == batch[event + 1]
<1>1. /\ wpc = "event" /\ wpc' = "release"
      /\ UNCHANGED <<batch, isRange, cursor, event, offset, total, quitting, saved>>
      /\ error' \in {"none", "skip", "quit"}
      /\ Settle(event, event + 1)
      /\ \/ UNCHANGED dictVars
         \/ add_extra(Link[q])
  BY DEF ProcessEvent, WorkerAt, batchVars, callVars, scanVars
<1>2. /\ BatchHeld /\ batch \in Seq(Paths) /\ cursor \in Nat /\ event \in Nat
      /\ event = cursor /\ event < offset /\ event < Len(batch) /\ cursor <= offset
  BY <1>1, ChunkFacts DEF Processing
<1>3. \A p : Occurrences(SubSeq(batch, event + 1, event + 1), p) = IF q = p THEN 1 ELSE 0
  BY <1>2, OneOfBatch
<1>4. DictTypeOK /\ RangeInFlight /\ processed \in [Paths -> Nat]
  BY DEF WorkPlaced, TypeOK
<1>5. /\ processed' \in [Paths -> Nat]
      /\ \A p \in Paths : processed'[p] = processed[p] + (IF q = p THEN 1 ELSE 0)
  BY <1>1, <1>3, <1>4 DEF Settle
<1>6. PICK added \in [Paths -> {0, 1}] :
        \A p \in Paths : /\ Outstanding(p)' = Outstanding(p) + added[p]
                         /\ Due'[p] = Due[p] + added[p]
  <2>1. CASE UNCHANGED dictVars
    <3>1. \A p : Outstanding(p)' = Outstanding(p)
      BY <2>1 DEF dictVars, Outstanding, NativeOutstanding, PendingExtra, PendingItems
    <3>2. Due' = Due
      BY <2>1 DEF dictVars, Due
    <3>3. \A p : Outstanding(p) \in Nat
      BY <1>4, QueueParts DEF Outstanding
    <3>4. \A p \in Paths : Due[p] \in Nat
      BY DueType
    <3> WITNESS [p \in Paths |-> 0] \in [Paths -> {0, 1}]
    <3> QED
      BY <3>1, <3>2, <3>3, <3>4
  <2>2. CASE add_extra(Link[q])
    <3> DEFINE link == Link[q]
               added == [p \in Paths |-> IF Accepts(link) /\ link = p THEN 1 ELSE 0]
    <3>1. \A p : Outstanding(p)' = Outstanding(p) + (IF Accepts(link) /\ link = p THEN 1 ELSE 0)
      BY <1>4, <2>2, AddExtraOutstanding
    <3>2. \A p \in Paths : Due'[p] = Due[p] + added[p]
      <4>1. SUFFICES ASSUME NEW p \in Paths PROVE Due'[p] = Due[p] + added[p]
        OBVIOUS
      <4>2. Occurrences(Wordlist, p) \in Nat
        BY DictionaryAssumption, OccurrencesType
      <4>3. CASE Accepts(link) /\ link = p
        <5>1. p \notin extraMembership /\ p \in extraMembership'
          BY <2>2, <4>3 DEF add_extra, Accepts
        <5> QED
          BY <4>2, <4>3, <5>1 DEF Due
      <4>4. CASE ~(Accepts(link) /\ link = p)
        <5>1. p \in extraMembership' <=> p \in extraMembership
          BY <2>2, <4>4 DEF add_extra
        <5> QED
          BY <4>2, <4>4, <5>1 DEF Due
      <4> QED
        BY <4>3, <4>4
    <3>3. added \in [Paths -> {0, 1}]
      OBVIOUS
    <3> QED
      BY <3>1, <3>2, <3>3
  <2> QED
    BY <1>1, <2>1, <2>2
<1>7. \A p : InHand(p) = 0 /\ InHand(p)' = IF q = p THEN 1 ELSE 0
  BY <1>1 DEF InHand
<1>8. Accounted'
  <2>1. SUFFICES ASSUME NEW p \in Paths
                 PROVE  processed'[p] + Outstanding(p)' = Due'[p] + InHand(p)'
    BY DEF Accounted
  <2>2. processed[p] + Outstanding(p) = Due[p] + InHand(p)
    BY DEF WorkPlaced, Accounted
  <2>3. processed[p] \in Nat /\ Outstanding(p) \in Nat /\ Due[p] \in Nat /\ added[p] \in Nat
    <3>1. Outstanding(p) \in Nat
      BY <1>4, QueueParts DEF Outstanding
    <3>2. Due[p] \in Nat
      BY DueType
    <3> QED
      BY <1>4, <1>6, <3>1, <3>2
  <2> QED
    BY <1>5, <1>6, <1>7, <2>2, <2>3
<1>9. DictTypeOK' /\ RangeInFlight'
  <2>1. CASE UNCHANGED dictVars
    BY <1>4, <2>1 DEF dictVars, DictTypeOK, RangeInFlight
  <2>2. CASE add_extra(Link[q])
    BY <1>4, <2>2, AddExtraOutstanding
  <2> QED
    BY <1>1, <2>1, <2>2
<1>10. BatchHeld'
  <2>1. claimed' = claimed /\ nativeClaim' = nativeClaim
    BY <1>1 DEF dictVars, add_extra
  <2> QED
    BY <1>1, <1>2, <2>1 DEF BatchHeld
<1>11. TypeOK'
  BY <1>1, <1>5, <1>9 DEF WorkPlaced, TypeOK
<1> QED
  BY <1>1, <1>2, <1>8, <1>10, <1>11
     DEF WorkPlaced, TypeOK, ClaimsPlaced, ChunkPlaced, Processing, Calibrating, Parking, Ended
\* Releasing an event takes it out of hand, whether its callback raised or not.
LEMMA ReleaseEventWork ==
  ASSUME WorkPlaced, ControlPlaced, UNCHANGED scanVars, ReleaseEvent
  PROVE  WorkPlaced'
<1> DEFINE q == batch[event + 1]
<1>1. /\ wpc = "release" /\ cursor' = event + 1
      /\ UNCHANGED <<batch, isRange, event, offset, total, error, processed, quitting, saved>>
      /\ (wpc' = "check" /\ error = "none") \/ (wpc' = "leave" /\ error # "none")
      /\ ReleasePart(event, event + 1)
  BY DEF ReleaseEvent, WorkerAt, callVars, scanVars, End
<1>2. /\ BatchHeld /\ batch \in Seq(Paths) /\ cursor \in Nat /\ event \in Nat /\ offset \in Nat
      /\ event = cursor /\ event < offset /\ event < Len(batch) /\ Len(batch) \in Nat
  BY <1>1, ChunkFacts DEF Processing
<1>3. \A p : Occurrences(SubSeq(batch, event + 1, event + 1), p) = IF q = p THEN 1 ELSE 0
  BY <1>2, OneOfBatch
<1>4. /\ DictTypeOK' /\ RangeInFlight' /\ BatchHeld'
      /\ \A p : Outstanding(p)
                  = Outstanding(p)' + Occurrences(SubSeq(batch, event + 1, event + 1), p)
  <2>1. DictTypeOK /\ RangeInFlight
    BY DEF WorkPlaced, TypeOK
  <2>2. event + 1 \in Nat /\ cursor < event + 1 /\ event + 1 <= Len(batch)
    BY <1>2
  <2>3. ReleasePart(cursor, event + 1) /\ batch' = batch /\ isRange' = isRange /\ cursor' = event + 1
    BY <1>1, <1>2
  <2> DEFINE to == event + 1
  <2> HIDE DEF to
  <2>4. /\ to \in Nat /\ cursor < to /\ to <= Len(batch)
        /\ ReleasePart(cursor, to) /\ cursor' = to
    BY <2>2, <2>3 DEF to
  <2>5. /\ DictTypeOK' /\ RangeInFlight' /\ BatchHeld'
        /\ \A p : Outstanding(p)
                    = Outstanding(p)' + Occurrences(SubSeq(batch, cursor + 1, to), p)
    BY <1>2, <2>1, <2>3, <2>4, ReleaseHeld
  <2> QED
    BY <1>2, <2>5 DEF to
<1>5. Due' = Due
  BY <1>1 DEF ReleasePart, release_native_claims, release_claims, Due
<1>6. \A p : InHand(p) = (IF q = p THEN 1 ELSE 0) /\ InHand(p)' = 0
  BY <1>1 DEF InHand
<1>7. Accounted'
  <2>1. SUFFICES ASSUME NEW p \in Paths
                 PROVE  processed'[p] + Outstanding(p)' = Due'[p] + InHand(p)'
    BY DEF Accounted
  <2>2. processed[p] + Outstanding(p) = Due[p] + InHand(p)
    BY DEF WorkPlaced, Accounted
  <2>3. processed[p] \in Nat /\ Outstanding(p)' \in Nat /\ Due[p] \in Nat
    BY <1>4, QueuePartsNext, DueType DEF WorkPlaced, TypeOK
  <2>4. /\ Outstanding(p) = Outstanding(p)' + InHand(p)
        /\ Due'[p] = Due[p] /\ processed' = processed /\ InHand(p)' = 0
        /\ InHand(p) \in {0, 1}
    BY <1>1, <1>3, <1>4, <1>5, <1>6
  <2> QED
    BY <2>2, <2>3, <2>4
<1>8. TypeOK'
  BY <1>1, <1>2, <1>4 DEF WorkPlaced, TypeOK
<1> QED
  BY <1>1, <1>2, <1>4, <1>7, <1>8
     DEF WorkPlaced, TypeOK, ClaimsPlaced, ChunkPlaced, Processing, Calibrating, Parking, Ended
\* A step of another thread that only raises or clears events: what the worker was
\* told to drop it is still told to drop.
LEMMA EventsWork ==
  ASSUME WorkPlaced, UNCHANGED dictVars, UNCHANGED workerVars, UNCHANGED <<total, offset>>,
         quitting' \in [{"main", "timer"} -> 0 .. Len(QuitSteps)], SavedStateOK(saved'),
         wpc # "none" /\ quit => quit',
         wpc \in {"scan", "check", "leave", "consume", "after"} /\ Stop => Stop'
  PROVE  WorkPlaced'
<1> USE DEF dictVars, workerVars, batchVars
<1>1. TypeOK'
  BY DEF WorkPlaced, TypeOK, DictTypeOK, RangeInFlight, SavedStateOK
<1>2. Accounted'
  <2>1. /\ Due' = Due
        /\ \A p : Outstanding(p)' = Outstanding(p)
    BY DEF Due, Outstanding, NativeOutstanding, PendingExtra, PendingItems
  <2>2. \A p : InHand(p)' = InHand(p)
    BY DEF InHand
  <2> QED
    BY <2>1, <2>2 DEF WorkPlaced, Accounted
<1>3. /\ NothingHeld' <=> NothingHeld
      /\ Exhausted' <=> Exhausted
      /\ BatchHeld' <=> BatchHeld
  BY DEF NothingHeld, Exhausted, BatchHeld
<1>4. ClaimsPlaced'
  BY <1>3 DEF WorkPlaced, ClaimsPlaced, Calibrating, Parking, Ended, Processing
<1>5. ChunkPlaced'
  BY DEF WorkPlaced, ChunkPlaced, Ended
<1> QED
  BY <1>1, <1>2, <1>4, <1>5 DEF WorkPlaced

\* Steps of the handler, of quit(), of the timer and of the user.
LEMMA OthersWork ==
  ASSUME WorkPlaced, ControlPlaced,
         \/ HandlerStep \/ TimerFires \/ Signal \/ Over
         \/ \E thread \in {"main", "timer"} : quit_in(thread)
  PROVE  WorkPlaced'
<1> USE DEF scanVars, mainVars, timerVars, handlerVars, eventVars, backendVars, batchVars,
            workerVars, fuzzerVars, callVars
<1>1. /\ quitting \in [{"main", "timer"} -> 0 .. Len(QuitSteps)] /\ SavedStateOK(saved)
      /\ DictTypeOK /\ RangeInFlight /\ Len(QuitSteps) = 4
  BY DEF WorkPlaced, TypeOK, QuitSteps
<1>2. CASE HandlerStep
  <2>1. UNCHANGED dictVars /\ UNCHANGED workerVars /\ UNCHANGED <<total, offset>>
    BY <1>2 DEF HandlerStep, PauseStarted, PauseNotStarted, PauseClear, PauseCancel,
       PauseAcknowledged, PauseTimeout, ChooseContinue, ContinueUnpause, ContinuePlay,
       ChooseNext, ChooseSkip, ChooseQuit, ChooseSave, HandlerStays, RaiseInMain,
       ResetBackend, CancelBackend, SetCancelled
  <2>2. UNCHANGED quit
    BY <1>2 DEF HandlerStep, PauseStarted, PauseNotStarted, PauseClear, PauseCancel,
       PauseAcknowledged, PauseTimeout, ChooseContinue, ContinueUnpause, ContinuePlay,
       ChooseNext, ChooseSkip, ChooseQuit, ChooseSave, HandlerStays, RaiseInMain
  <2>3. play' = play \/ ~play' \/ ContinuePlay
    BY <1>2 DEF HandlerStep, PauseStarted, PauseNotStarted, PauseClear, PauseCancel,
       PauseAcknowledged, PauseTimeout, ChooseContinue, ContinueUnpause,
       ChooseNext, ChooseSkip, ChooseQuit, ChooseSave, HandlerStays, RaiseInMain
  <2>4. wpc \in {"scan", "check", "leave", "consume", "after"} /\ Stop => Stop'
    <3>1. CASE ContinuePlay
      BY <3>1 DEF ContinuePlay, ControlPlaced, Handshake
    <3>2. CASE ~ContinuePlay
      BY <2>2, <2>3, <3>2 DEF Stop
    <3> QED
      BY <3>1, <3>2
  <2>5. quitting' \in [{"main", "timer"} -> 0 .. Len(QuitSteps)]
    <3>1. \/ quitting' = quitting
          \/ quitting' = [quitting EXCEPT !["main"] = 1]
          \/ quitting' = [quitting EXCEPT !["main"] = IF Alive THEN 1 ELSE 0]
      BY <1>2 DEF HandlerStep, PauseStarted, PauseNotStarted, PauseClear, PauseCancel,
         PauseAcknowledged, PauseTimeout, ChooseContinue, ContinueUnpause, ContinuePlay,
         ChooseNext, ChooseSkip, ChooseQuit, ChooseSave, HandlerStays, RaiseInMain
    <3> QED
      BY <1>1, <3>1
  <2>6. SavedStateOK(saved')
    <3>1. saved' = saved \/ saved' = getstate
      BY <1>2 DEF HandlerStep, PauseStarted, PauseNotStarted, PauseClear, PauseCancel,
         PauseAcknowledged, PauseTimeout, ChooseContinue, ContinueUnpause, ContinuePlay,
         ChooseNext, ChooseSkip, ChooseQuit, ChooseSave, HandlerStays
    <3>2. SavedStateOK(getstate)
      BY <1>1, GetstateOutstanding
    <3> QED
      BY <1>1, <3>1, <3>2
  <2> QED
    BY <2>1, <2>2, <2>4, <2>5, <2>6, EventsWork
<1>3. CASE TimerFires \/ Signal \/ Over
  <2>1. /\ UNCHANGED dictVars /\ UNCHANGED workerVars
        /\ UNCHANGED <<total, offset, quit, play, saved>>
    BY <1>3 DEF TimerFires, Signal, Over, vars, fuzzerVars
  <2>2. quitting' \in [{"main", "timer"} -> 0 .. Len(QuitSteps)]
    <3>1. quitting' = quitting \/ quitting' = [quitting EXCEPT !["timer"] = 1]
      BY <1>3 DEF TimerFires, Signal, Over, vars
    <3> QED
      BY <1>1, <3>1
  <2> QED
    BY <1>1, <2>1, <2>2, EventsWork DEF Stop
<1>4. CASE \E thread \in {"main", "timer"} : quit_in(thread)
  <2>1. PICK thread \in {"main", "timer"} : quit_in(thread)
    BY <1>4
  <2>2. quitting[thread] \in 1 .. 4
    BY <1>1, <2>1 DEF quit_in
  <2>3. quitting[thread] > 1 => quit
    BY <1>1 DEF ControlPlaced, ThreadsPlaced
  <2>4. \/ quitting[thread] = 1 /\ QuitStep("quit")
        \/ quit /\ (QuitStep("unpause") \/ QuitStep("play") \/ QuitStep("cancel"))
    BY <2>1, <2>2, <2>3 DEF quit_in, QuitSteps
  <2>5. /\ UNCHANGED dictVars /\ UNCHANGED workerVars /\ UNCHANGED <<total, offset, saved>>
        /\ quit'
    BY <2>1, <2>4 DEF quit_in, QuitStep, CancelBackend, SetCancelled
  <2>6. quitting' \in [{"main", "timer"} -> 0 .. Len(QuitSteps)]
    <3>1. quitting' = [quitting EXCEPT ![thread] = IF @ = 4 THEN 0 ELSE @ + 1]
      BY <1>1, <2>1 DEF quit_in
    <3> QED
      BY <1>1, <2>2, <3>1
  <2> QED
    BY <1>1, <2>5, <2>6, EventsWork DEF Stop
<1> QED
  BY <1>2, <1>3, <1>4
\* Steps of the main thread outside the handler: a directory begins and ends with
\* nothing held.
LEMMA MainWork ==
  ASSUME WorkPlaced, ControlPlaced, MainStep
  PROVE  WorkPlaced'
<1> USE DEF scanVars, mainVars, timerVars, handlerVars, eventVars, backendVars, batchVars,
            workerVars, fuzzerVars, callVars
<1>1. CASE TimeAlreadyUp \/ Poll \/ StopTimer \/ JoinTimeout \/ Resolve \/ LeaveUnsafe
  <2>1. /\ UNCHANGED dictVars /\ UNCHANGED workerVars
        /\ UNCHANGED <<total, offset, quit, play, saved, quitting>>
    BY <1>1 DEF TimeAlreadyUp, Poll, StopTimer, JoinTimeout, Resolve, LeaveUnsafe
  <2> QED
    BY <2>1, EventsWork DEF Stop, WorkPlaced, TypeOK
<1>2. CASE Prepare
  <2>1. wpc = "none"
    BY <1>2 DEF Prepare, ControlPlaced, ThreadsPlaced
  <2>2. /\ UNCHANGED dictVars /\ UNCHANGED workerVars
        /\ UNCHANGED <<total, offset, saved, quitting>>
    BY <1>2 DEF Prepare, prepare_start, ResetBackend, SetCancelled
  <2> QED
    BY <2>1, <2>2, EventsWork DEF WorkPlaced, TypeOK
<1>3. CASE Spawn
  <2>1. /\ wpc = "none" /\ wpc' = "new"
        /\ UNCHANGED dictVars /\ UNCHANGED <<batch, isRange, cursor, event, error, processed>>
        /\ UNCHANGED <<total, offset, quit, play, saved, quitting>>
    BY <1>3 DEF Spawn, ControlPlaced, ThreadsPlaced
  <2>2. /\ DictTypeOK' /\ RangeInFlight' /\ batch' \in Seq(Paths)
        /\ processed' \in [Paths -> Nat] /\ Accounted'
        /\ NothingHeld' <=> NothingHeld
    BY <2>1, FrameWork DEF WorkPlaced
  <2>3. TypeOK'
    BY <2>1, <2>2 DEF WorkPlaced, TypeOK
  <2>4. NothingHeld /\ error = "none"
    BY <2>1 DEF WorkPlaced, ClaimsPlaced, ChunkPlaced, Ended
  <2> QED
    BY <2>1, <2>2, <2>3, <2>4
       DEF WorkPlaced, ClaimsPlaced, ChunkPlaced, Calibrating, Parking, Ended, Processing
<1>4. CASE LeaveDirectory
  <2>1. /\ reset /\ wpc' = "none" /\ batch' = <<>> /\ cursor' = 0 /\ event' = 0
        /\ error' = "none" /\ processed' = [p \in Paths |-> 0]
        /\ UNCHANGED <<total, offset, saved, quitting>>
    BY <1>4 DEF LeaveDirectory, NoWorker, NoBatchLocals
  <2>2. /\ DictTypeOK' /\ RangeInFlight'
        /\ \A p : Outstanding(p)' = Occurrences(Wordlist, p)
    BY <2>1, ResetOutstanding DEF WorkPlaced, TypeOK
  <2>3. extraMembership' = {} /\ NothingHeld'
    BY <2>1 DEF reset, NothingHeld
  <2>4. Accounted'
    <3>1. SUFFICES ASSUME NEW p \in Paths
                   PROVE  processed'[p] + Outstanding(p)' = Due'[p] + InHand(p)'
      BY DEF Accounted
    <3>2. Occurrences(Wordlist, p) \in Nat
      BY DictionaryAssumption, OccurrencesType
    <3>3. Due'[p] = Occurrences(Wordlist, p) + 0
      BY <2>3 DEF Due
    <3>4. InHand(p)' = 0 /\ processed'[p] = 0
      BY <2>1 DEF InHand
    <3> QED
      BY <2>2, <3>2, <3>3, <3>4
  <2>5. batch' \in Seq(Paths) /\ processed' \in [Paths -> Nat]
    BY <2>1, EmptySeq
  <2>6. TypeOK'
    BY <2>1, <2>2, <2>5 DEF WorkPlaced, TypeOK
  <2> QED
    BY <2>1, <2>3, <2>4, <2>6
       DEF WorkPlaced, ClaimsPlaced, ChunkPlaced, Calibrating, Parking, Ended, Processing
<1> QED
  BY <1>1, <1>2, <1>3, <1>4 DEF MainStep

\* Every step of the worker.
LEMMA WorkerWork ==
  ASSUME WorkPlaced, ControlPlaced, UNCHANGED scanVars, WorkerStep \/ EngineWorkerStops
  PROVE  WorkPlaced'
<1>1. CASE EngineWorkerStops
  <2>1. /\ UNCHANGED dictVars /\ UNCHANGED workerVars
        /\ UNCHANGED <<total, offset, quit, play, saved, quitting>>
    BY <1>1 DEF EngineWorkerStops, WorkerStops, fuzzerVars, scanVars, eventVars
  <2> QED
    BY <2>1, EventsWork DEF Stop, WorkPlaced, TypeOK
<1>2. CASE WorkerStep
  BY <1>2, WorkerRestsWork, WorkerBatchWork, WorkerFilteredWork, ProcessEventWork,
     ReleaseEventWork DEF WorkerStep
<1> QED
  BY <1>1, <1>2

-----------------------------------------------------------------------------
(* The theorems                                                            *)

\* Nothing is held, settled or signalled before the scan starts.
LEMMA InitIInv == Init => IInv
<1> SUFFICES ASSUME Init PROVE IInv
  OBVIOUS
<1> USE DEF Init, DictInit, CallInit, FuzzerInit
<1>1. Wordlist \in Seq(Paths) /\ Len(Wordlist) \in Nat /\ \A p : Occurrences(Wordlist, p) \in Nat
  BY DictionaryAssumption, LenProperties, OccurrencesType
<1>2. TypeOK
  <2>1. <<>> \in Seq(Paths) /\ Len(<<>>) = 0
    BY EmptySeq
  <2>2. DictTypeOK /\ RangeInFlight
    BY <1>1, <2>1, DictionaryAssumption DEF DictTypeOK, RangeInFlight, NativeClaims, NoClaim
  <2>3. SavedStateOK(saved)
    BY <1>1, <2>1 DEF SavedStateOK, DictStates, NoSession
  <2>4. quitting \in [{"main", "timer"} -> 0 .. Len(QuitSteps)]
    BY DEF QuitSteps
  <2> QED
    BY <2>1, <2>2, <2>3, <2>4 DEF TypeOK
<1>3. ControlPlaced
  BY DEF ControlPlaced, ThreadsPlaced, CallPlaced, CancelPlaced, EventsPlaced, Handshake,
     Calibrating, Parking, Delivering, Batching, Ended, Processing
<1>4. ClaimsPlaced /\ ChunkPlaced
  BY DEF ClaimsPlaced, ChunkPlaced, NothingHeld, Calibrating, Parking, Ended, Processing
<1>5. Accounted
  <2>1. SUFFICES ASSUME NEW p \in Paths PROVE processed[p] + Outstanding(p) = Due[p] + InHand(p)
    BY DEF Accounted
  <2>2. /\ PendingItems = Wordlist /\ PendingExtra = <<>> /\ NativeOutstanding = <<>>
    <3>1. SubSeq(Wordlist, 0 + 1, Len(Wordlist)) = Wordlist
      BY <1>1, SubSeqFull
    <3> QED
      BY <1>1, <3>1, SubSeqEmpty DEF PendingItems, PendingExtra, NativeOutstanding, NoClaim
  <2>3. Outstanding(p) = Occurrences(Wordlist, p)
    BY <1>1, <2>2, OccurrencesEmpty DEF Outstanding
  <2>4. Due[p] = Occurrences(Wordlist, p) + 0
    BY DEF Due
  <2> QED
    BY <1>1, <2>3, <2>4 DEF InHand
<1> QED
  BY <1>2, <1>3, <1>4, <1>5 DEF IInv

\* Every step keeps the strengthening, or makes a pause give up.
LEMMA NextIInv == IInv /\ [Next]_vars => IInv'
<1> SUFFICES ASSUME IInv, [Next]_vars, ~gaveUp' PROVE IInv'
  BY DEF IInv
<1>1. ~gaveUp
  BY DEF Next, vars, scanVars, handlerVars, MainStep, TimeAlreadyUp, Prepare, Spawn, Poll, StopTimer,
     JoinTimeout, Resolve, LeaveDirectory, LeaveUnsafe, TimerFires, quit_in, Signal, HandlerStep,
     PauseStarted, PauseNotStarted, PauseClear, PauseCancel, PauseAcknowledged, PauseTimeout,
     ChooseContinue, ContinueUnpause, ContinuePlay, ChooseNext, ChooseSkip, ChooseQuit,
     ChooseSave, HandlerStays, RaiseInMain, Over
<1>2. WorkPlaced /\ ControlPlaced
  BY <1>1 DEF IInv, WorkPlaced
<1>3. TypeOK
  BY <1>2 DEF WorkPlaced
<1>4. SUFFICES WorkPlaced' /\ ControlPlaced'
  BY DEF IInv, WorkPlaced
<1>5. CASE WorkerStep /\ UNCHANGED scanVars
  BY <1>2, <1>3, <1>5, WorkerControl, WorkerWork
<1>6. CASE EngineWorkerStops /\ UNCHANGED scanVars
  BY <1>2, <1>3, <1>6, OthersControl, WorkerWork
<1>7. CASE MainStep
  BY <1>2, <1>3, <1>7, MainControl, MainWork
<1>8. CASE TimerFires \/ Signal \/ Over
  BY <1>2, <1>3, <1>8, OthersControl, OthersWork
<1>9. CASE \E thread \in {"main", "timer"} : quit_in(thread)
  BY <1>2, <1>3, <1>9, QuitControl, OthersWork
<1>10. CASE HandlerStep
  BY <1>2, <1>3, <1>10, HandlerControl, OthersWork
<1>11. CASE UNCHANGED vars
  <2>1. ControlPlaced'
    BY <1>2, <1>11 DEF vars, ControlPlaced, ThreadsPlaced, CallPlaced, CancelPlaced, EventsPlaced,
       Handshake, scanVars, mainVars, timerVars, handlerVars, eventVars, backendVars, batchVars,
       workerVars, fuzzerVars, callVars
  <2>2. /\ UNCHANGED dictVars /\ UNCHANGED workerVars
        /\ UNCHANGED <<total, offset, quit, play, saved, quitting>>
    BY <1>11 DEF vars, scanVars, fuzzerVars, eventVars, callVars
  <2> QED
    BY <1>2, <1>3, <2>1, <2>2, EventsWork DEF Stop, TypeOK
<1> QED
  BY <1>5, <1>6, <1>7, <1>8, <1>9, <1>10, <1>11 DEF Next

LEMMA ScanInvariant == Spec => []IInv
<1>1. Init => IInv
  BY InitIInv
<1>2. IInv /\ [Next]_vars => IInv'
  BY NextIInv
<1> QED
  BY <1>1, <1>2, PTL DEF Spec
\* The worker is always at a place of its own, and fails in a known way.
LEMMA StatesWorker ==
  ASSUME StatesOK, WorkerStep, UNCHANGED scanVars
  PROVE  StatesOK'
<1> USE DEF StatesOK, WorkerStates, Results, scanVars, mainVars, timerVars, handlerVars, eventVars,
            backendVars, batchVars, workerVars, fuzzerVars, callVars, WorkerAt, WorkerRests,
            LockCancel, SetCancelled, Enter, Leave, Deliver, End, Finish
<1>1. CASE WorkerStart
  BY <1>1 DEF WorkerStart
<1>2. CASE CalibrateLock
  BY <1>2 DEF CalibrateLock
<1>3. CASE CalibrateEnter
  BY <1>3 DEF CalibrateEnter
<1>4. CASE CalibrateEnds
  BY <1>4 DEF CalibrateEnds
<1>5. CASE CalibrateLeave
  BY <1>5 DEF CalibrateLeave
<1>6. CASE CalibrateConsume
  BY <1>6 DEF CalibrateConsume
<1>7. CASE Begin
  BY <1>7 DEF Begin
<1>8. CASE LoopQuit
  BY <1>8 DEF LoopQuit
<1>9. CASE LoopGate
  BY <1>9 DEF LoopGate
<1>10. CASE Requeue
  BY <1>10 DEF Requeue
<1>11. CASE Acknowledge
  BY <1>11 DEF Acknowledge
<1>12. CASE WakeUp
  BY <1>12 DEF WakeUp
<1>13. CASE Resume
  BY <1>13 DEF Resume
<1>14. CASE ClaimBatch
  BY <1>14 DEF ClaimBatch
<1>15. CASE NoBatch
  BY <1>15 DEF NoBatch
<1>16. CASE ScanLock
  BY <1>16 DEF ScanLock
<1>17. CASE ScanEnter
  BY <1>17 DEF ScanEnter
<1>18. CASE DeliverChunk
  BY <1>18 DEF DeliverChunk
<1>19. CASE ScanEnds
  BY <1>19 DEF ScanEnds
<1>20. CASE ScanLeave
  BY <1>20 DEF ScanLeave
<1>21. CASE ScanConsume
  BY <1>21 DEF ScanConsume
<1>22. CASE BatchDone
  BY <1>22 DEF BatchDone
<1>23. CASE ChunkCheck
  BY <1>23 DEF ChunkCheck
<1>24. CASE FilteredGap
  BY <1>24 DEF FilteredGap
<1>25. CASE ChunkRecheck
  BY <1>25 DEF ChunkRecheck
<1>26. CASE ProcessEvent
  BY <1>26 DEF ProcessEvent
<1>27. CASE ReleaseEvent
  BY <1>27 DEF ReleaseEvent
<1>28. CASE FilteredTail
  BY <1>28 DEF FilteredTail
<1>29. CASE WorkerFinish
  BY <1>29 DEF WorkerFinish
<1> QED
  BY <1>1, <1>2, <1>3, <1>4, <1>5, <1>6, <1>7, <1>8, <1>9, <1>10, <1>11, <1>12, <1>13, <1>14, <1>15, <1>16, <1>17, <1>18, <1>19, <1>20, <1>21, <1>22, <1>23, <1>24, <1>25, <1>26, <1>27, <1>28, <1>29 DEF WorkerStep
\* So are the main thread and the handler, the timer and the call.
LEMMA StatesMain ==
  ASSUME StatesOK, MainStep \/ HandlerStep
  PROVE  StatesOK'
<1> USE DEF StatesOK, WorkerStates, Results, scanVars, mainVars, timerVars, handlerVars, eventVars,
            backendVars, batchVars, workerVars, fuzzerVars, callVars,
            prepare_start, ResetBackend, CancelBackend, SetCancelled, NoWorker, HandlerStays, RaiseInMain,
            TimeLimits, Verdict
<1>1. CASE TimeAlreadyUp
  BY <1>1 DEF TimeAlreadyUp
<1>2. CASE Prepare
  BY <1>2 DEF Prepare
<1>3. CASE Spawn
  BY <1>3 DEF Spawn
<1>4. CASE Poll
  BY <1>4 DEF Poll
<1>5. CASE StopTimer
  BY <1>5 DEF StopTimer
<1>6. CASE JoinTimeout
  BY <1>6 DEF JoinTimeout
<1>7. CASE Resolve
  BY <1>7 DEF Resolve
<1>8. CASE LeaveDirectory
  BY <1>8 DEF LeaveDirectory
<1>9. CASE LeaveUnsafe
  BY <1>9 DEF LeaveUnsafe
<1>10. CASE PauseStarted
  BY <1>10 DEF PauseStarted
<1>11. CASE PauseNotStarted
  BY <1>11 DEF PauseNotStarted
<1>12. CASE PauseClear
  BY <1>12 DEF PauseClear
<1>13. CASE PauseCancel
  BY <1>13 DEF PauseCancel
<1>14. CASE PauseAcknowledged
  BY <1>14 DEF PauseAcknowledged
<1>15. CASE PauseTimeout
  BY <1>15 DEF PauseTimeout
<1>16. CASE ChooseContinue
  BY <1>16 DEF ChooseContinue
<1>17. CASE ContinueUnpause
  BY <1>17 DEF ContinueUnpause
<1>18. CASE ContinuePlay
  BY <1>18 DEF ContinuePlay
<1>19. CASE ChooseNext
  BY <1>19 DEF ChooseNext
<1>20. CASE ChooseSkip
  BY <1>20 DEF ChooseSkip
<1>21. CASE ChooseQuit
  BY <1>21 DEF ChooseQuit
<1>22. CASE ChooseSave
  BY <1>22 DEF ChooseSave
<1> QED
  BY <1>1, <1>2, <1>3, <1>4, <1>5, <1>6, <1>7, <1>8, <1>9, <1>10, <1>11, <1>12, <1>13, <1>14, <1>15, <1>16, <1>17, <1>18, <1>19, <1>20, <1>21, <1>22 DEF MainStep, HandlerStep

\* The threads stay at the places of the code, whatever fails, is signalled or
\* times out.
THEOREM ScanStates == Spec => []StatesOK
<1>1. Init => StatesOK
  BY DEF Init, CallInit, FuzzerInit, StatesOK, WorkerStates, Results
<1>2. ASSUME StatesOK, [Next]_vars PROVE StatesOK'
  <2> USE DEF scanVars, mainVars, timerVars, handlerVars, eventVars, backendVars, batchVars,
              workerVars, fuzzerVars, callVars
  <2>1. CASE WorkerStep /\ UNCHANGED scanVars
    BY <1>2, <2>1, StatesWorker
  <2>2. CASE MainStep \/ HandlerStep
    BY <1>2, <2>2, StatesMain
  <2>3. CASE EngineWorkerStops /\ UNCHANGED scanVars
    BY <1>2, <2>3 DEF EngineWorkerStops, WorkerStops, StatesOK
  <2>4. CASE TimerFires
    BY <1>2, <2>4 DEF TimerFires, StatesOK
  <2>5. CASE \E thread \in {"main", "timer"} : quit_in(thread)
    <3>1. PICK thread \in {"main", "timer"} : quit_in(thread)
      BY <2>5
    <3>2. /\ UNCHANGED <<wpc, error, main, pending, outcome, handler>>
          /\ timer' \in {"off", timer}
      BY <3>1 DEF quit_in
    <3>3. UNCHANGED <<phase, result>> /\ stopped' \in {stopped, "missed"}
      BY <3>1 DEF quit_in, QuitStep, CancelBackend, SetCancelled
    <3> QED
      BY <1>2, <3>2, <3>3 DEF StatesOK
  <2>6. CASE Signal
    BY <1>2, <2>6 DEF Signal, StatesOK
  <2>7. CASE Over \/ UNCHANGED vars
    BY <1>2, <2>7 DEF Over, vars, StatesOK
  <2> QED
    BY <1>2, <2>1, <2>2, <2>3, <2>4, <2>5, <2>6, <2>7 DEF Next
<1> QED
  BY <1>1, <1>2, PTL DEF Spec

\* While no pause has timed out, every path due in the directory is settled or
\* still owed, exactly once, and a worker that ends its loop on its own has
\* settled everything: _process_native_chunk, requeue_claims and pause().
THEOREM ScanAccountsHolds == Spec => []ScanAccounts
<1>1. IInv => ScanAccounts
  <2>1. SUFFICES ASSUME IInv, ~gaveUp, NEW p \in Paths
                 PROVE  /\ processed[p] + Outstanding(p) = Due[p] + InHand(p)
                        /\ wpc = "dead" /\ Running /\ ~quit /\ error = "none" =>
                             Outstanding(p) = 0
    BY DEF ScanAccounts
  <2>2. processed[p] + Outstanding(p) = Due[p] + InHand(p)
    BY <2>1 DEF IInv, Accounted
  <2>3. ASSUME wpc = "dead", ~quit, error = "none" PROVE Outstanding(p) = 0
    <3>1. NothingHeld /\ Exhausted /\ DictTypeOK
      BY <2>1, <2>3 DEF IInv, ClaimsPlaced, Ended, TypeOK
    <3>2. /\ claimed = <<>> /\ nativeClaim = NoClaim
          /\ extra \in Seq(Paths) /\ Wordlist \in Seq(Paths)
          /\ Len(extra) \in Nat /\ Len(Wordlist) \in Nat
          /\ extraIndex = Len(extra) /\ index = Len(Wordlist)
      BY <3>1, DictionaryAssumption, LenProperties DEF NothingHeld, Exhausted, DictTypeOK
    <3>3. /\ SubSeq(extra, Len(extra) + 1, Len(extra)) = <<>>
          /\ SubSeq(Wordlist, Len(Wordlist) + 1, Len(Wordlist)) = <<>>
          /\ SubSeq(Wordlist, 0 + 0 + 1, 0 + 0) = <<>>
      BY <3>2, SubSeqEmpty
    <3>4. PendingExtra = <<>> /\ PendingItems = <<>> /\ NativeOutstanding = <<>>
      BY <3>2, <3>3 DEF PendingExtra, PendingItems, NativeOutstanding, NoClaim
    <3>5. Occurrences(<<>>, p) = 0
      BY OccurrencesEmpty
    <3> QED
      BY <3>2, <3>4, <3>5 DEF Outstanding
  <2> QED
    BY <2>2, <2>3
<1> QED
  BY <1>1, ScanInvariant, PTL

\* Where the worker is while the menu of an acknowledged pause is shown.
LEMMA MenuQuiescent ==
  ASSUME IInv, ~gaveUp, handler = "menu"
  PROVE  /\ wpc \notin Processing
         /\ ~quit /\ ~finished => claimed = <<>> /\ ~NativeClaimActive
<1>1. \/ wpc = "parked"
      \/ wpc \in {"woken", "loop", "finish"} /\ quit
      \/ wpc \in {"finish2", "finish3", "dead"} /\ finished
  BY DEF IInv, ControlPlaced, Handshake, EventsPlaced
<1>2. wpc = "parked" => claimed = <<>> /\ ~NativeClaimActive
  BY DEF IInv, ClaimsPlaced, Parking, NothingHeld, NoClaim, NativeClaimActive
<1> QED
  BY <1>1, <1>2 DEF Processing

\* A pause that was acknowledged leaves nothing in progress and, unless the
\* deadline or the end of the scan intervenes, nothing claimed: pause() and the
\* acknowledgement in start().
THEOREM PauseQuiescentHolds == Spec => []PauseQuiescent
<1>1. IInv => PauseQuiescent
  BY MenuQuiescent DEF PauseQuiescent
<1> QED
  BY <1>1, ScanInvariant, PTL

\* [c]ontinue goes on with the scan: the worker finds no lost claims and no call
\* cut short by a cancellation that _reset_native_cancellation withdrew.
THEOREM ContinueSoundHolds == Spec => []ContinueSound
<1>1. IInv => ContinueSound
  BY DEF IInv, ChunkPlaced, ContinueSound
<1> QED
  BY <1>1, ScanInvariant, PTL

\* A session saved from the menu holds exactly what is not settled: _export under
\* __getstate__.
THEOREM CheckpointExactHolds == Spec => CheckpointExact
<1>1. ASSUME IInv, [Next]_vars, saved' # saved, ~gaveUp, NEW p \in Paths
      PROVE  processed[p] + StateOutstanding(saved', p) = Due[p]
  <2>1. ChooseSave
    BY <1>1 DEF Next, vars, scanVars, MainStep, TimeAlreadyUp, Prepare, Spawn, Poll, StopTimer,
       JoinTimeout, Resolve, LeaveDirectory, LeaveUnsafe, TimerFires, quit_in, Signal, HandlerStep,
       PauseStarted, PauseNotStarted, PauseClear, PauseCancel, PauseAcknowledged, PauseTimeout,
       ChooseContinue, ContinueUnpause, ContinuePlay, ChooseNext, ChooseSkip, ChooseQuit,
       HandlerStays, Over
  <2>2. handler = "menu" /\ saved' = getstate
    BY <2>1 DEF ChooseSave
  <2>3. DictTypeOK /\ RangeInFlight
    BY <1>1 DEF IInv, TypeOK
  <2>4. StateOutstanding(getstate, p) = Outstanding(p)
    BY <2>3, GetstateOutstanding
  <2>5. wpc # "release"
    BY <1>1, <2>2, MenuQuiescent DEF Processing
  <2>6. processed[p] + Outstanding(p) = Due[p] + InHand(p) /\ InHand(p) = 0
    BY <1>1, <2>5 DEF IInv, Accounted, InHand
  <2>7. Due[p] \in Nat
    BY DueType
  <2> QED
    BY <2>2, <2>4, <2>6, <2>7
<1>2. IInv /\ [Next]_vars =>
        [saved' # saved /\ ~gaveUp =>
           \A p \in Paths : processed[p] + StateOutstanding(saved', p) = Due[p]]_vars
  BY <1>1
<1> QED
  BY <1>2, ScanInvariant, PTL DEF Spec, CheckpointExact

=============================================================================
