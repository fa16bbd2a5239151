---------------------------- MODULE NativeFuzzer ----------------------------
(***************************************************************************)
(* NativeFuzzer of lib/core/fuzzer.py with NativeHTTPBackend of            *)
(* lib/connection/native.py: the worker thread that hands batches of the   *)
(* dictionary to the Rust engine and settles their results, and the        *)
(* operations other threads use to pause, continue and stop it.            *)
(*                                                                         *)
(* The worker is inside one engine call at a time (EngineCall).  wpc says  *)
(* where it is:                                                            *)
(*   none, new              not started; at the top of start()             *)
(*   cal, calEnter, calScan, calLeave, calConsume    in setup_scanners     *)
(*   loop, gate             reads the quit event, then the play event      *)
(*   requeue, ack, parked, woken                     acknowledging a pause *)
(*   claim, lock, enter, scan, leave, consume        one batch             *)
(*   check, gap, recheck, event, release, tail       its callback          *)
(*   after                  leaving the batch                              *)
(*   finish, finish2, finish3, dead                  the last finally      *)
(***************************************************************************)
EXTENDS Dictionary, EngineCall

CONSTANTS
  ClaimSize,      \* chunk_size of _next_chunk
  Calibrations,   \* requests setup_scanners makes
  Link, NoPath,   \* Link[p]: a path that crawling the response to p yields
  Failures        \* what may go wrong, a subset of Faults

Faults == {"calibration", "engine", "skip", "quit"}

ASSUME NativeFuzzerAssumption ==
  /\ ClaimSize \in Nat \ {0}
  /\ Calibrations \in Nat
  /\ NoPath \notin Paths
  /\ Link \in [Paths -> Paths \cup {NoPath}]
  /\ Failures \subseteq Faults

VARIABLES
  play, quit, finished, pausedEvent, startedEvent, prepared,
  hasBackend,     \* self._native_backend is not None
  hasEngine,      \* NativeHTTPBackend._engine is not None
  cancelPending,  \* _cancel_generation # _consumed_cancel_generation
  wpc,
  left,           \* calibration requests still to make
  batch,          \* paths of the call, as a list
  isRange,        \* the batch is a NativeWordlistChunk
  cursor,         \* next_index of _process_native_chunk
  event,          \* index of its next event
  error,          \* what the worker thread raises
  processed       \* history: results of each path settled in this directory

eventVars == <<play, quit, finished, pausedEvent, startedEvent, prepared>>
backendVars == <<hasBackend, hasEngine, cancelPending>>
batchVars == <<batch, isRange, cursor, event>>
workerVars == <<wpc, left, batchVars, error, processed>>
fuzzerVars == <<eventVars, backendVars, workerVars>>

WorkerStates ==
  {"none", "new", "cal", "calEnter", "calScan", "calLeave", "calConsume",
   "loop", "gate", "requeue", "ack", "parked", "woken",
   "claim", "lock", "enter", "scan", "leave", "consume",
   "check", "gap", "recheck", "event", "release", "tail",
   "after", "finish", "finish2", "finish3", "dead"}

\* Between the check of the events and the end of the callback.
Processing == {"gap", "recheck", "event", "release", "tail"}
Alive == wpc \notin {"none", "dead"}

FuzzerInit ==
  /\ play = FALSE /\ quit = FALSE /\ finished = FALSE
  /\ pausedEvent = FALSE /\ startedEvent = FALSE /\ prepared = FALSE
  /\ hasBackend \in BOOLEAN
  /\ hasEngine = FALSE /\ cancelPending = FALSE
  /\ wpc = "none"
  /\ left = 0
  /\ batch = <<>> /\ isRange = FALSE /\ cursor = 0 /\ event = 0
  /\ error = "none"
  /\ processed = [p \in Paths |-> 0]

-----------------------------------------------------------------------------
(* Operations of other threads, one step for each event or flag they touch *)

\* NativeHTTPBackend.cancel and reset_cancel; nothing without a backend.  A
\* generation is consumed or not: only that is kept of the two counters.
CancelBackend ==
  /\ cancelPending' = (cancelPending \/ hasBackend)
  /\ SetCancelled(cancelled \/ (hasBackend /\ hasEngine))
  /\ UNCHANGED <<hasBackend, hasEngine>>

ResetBackend ==
  /\ cancelPending' = (cancelPending /\ ~hasBackend)
  /\ SetCancelled(cancelled /\ ~(hasBackend /\ hasEngine))
  /\ UNCHANGED <<hasBackend, hasEngine>>

\* A prepare_start that leaves the end of the last directory acknowledged.
prepare_start_paused ==
  /\ quit' = FALSE /\ finished' = FALSE
  /\ startedEvent' = FALSE
  /\ prepared' = TRUE
  /\ ResetBackend
  /\ UNCHANGED <<play, pausedEvent>>

\* prepare_start, under the lifecycle lock, before the worker exists.
prepare_start ==
  /\ quit' = FALSE /\ finished' = FALSE
  /\ pausedEvent' = FALSE /\ startedEvent' = FALSE
  /\ prepared' = TRUE
  /\ ResetBackend
  /\ UNCHANGED play

\* A quit() that does not wake the worker.
QuitSteps_silent == <<"quit", "unpause", "cancel">>

\* The steps of quit(): it must wake a parked worker before it cancels.
QuitSteps == <<"quit", "unpause", "play", "cancel">>

QuitStep(step) ==
  \/ /\ step = "quit" /\ quit' = TRUE
     /\ UNCHANGED <<play, finished, pausedEvent, startedEvent, prepared, backendVars, callVars>>
  \/ /\ step = "unpause" /\ pausedEvent' = FALSE
     /\ UNCHANGED <<play, quit, finished, startedEvent, prepared, backendVars, callVars>>
  \/ /\ step = "play" /\ play' = TRUE
     /\ UNCHANGED <<quit, finished, pausedEvent, startedEvent, prepared, backendVars, callVars>>
  \/ step = "cancel" /\ CancelBackend /\ UNCHANGED eventVars

-----------------------------------------------------------------------------
(* The worker: start() up to its loop                                      *)

WorkerAt(from, to) == wpc = from /\ wpc' = to

\* start() clears the events itself unless prepare_start has done so; nobody
\* sees the steps up to setup_scanners one by one.
WorkerStart ==
  /\ WorkerAt("new", "cal")
  /\ prepared
  /\ prepared' = FALSE
  /\ hasBackend' = TRUE
  /\ left' = Calibrations
  /\ UNCHANGED <<dictVars, callVars, play, quit, finished, pausedEvent, startedEvent,
                 hasEngine, cancelPending, batchVars, error, processed>>

\* _scan and scan_chunks under the cancel lock: a pending cancellation is
\* passed on to the engine, which is built here.
LockCancel ==
  /\ hasEngine' = TRUE
  /\ SetCancelled(cancelled \/ cancelPending)
  /\ UNCHANGED <<hasBackend, cancelPending>>

CalibrateLock ==
  /\ left > 0
  /\ WorkerAt("cal", "calEnter")
  /\ LockCancel
  /\ UNCHANGED <<dictVars, eventVars, left, batchVars, error, processed>>

\* collect_scan: refused when a cancellation is waiting.
CalibrateEnter ==
  /\ wpc = "calEnter"
  /\ wpc' = IF cancelled THEN "calConsume" ELSE "calScan"
  /\ Enter(1)
  /\ UNCHANGED <<dictVars, eventVars, backendVars, left, batchVars, error, processed>>

CalibrateEnds ==
  /\ WorkerAt("calScan", "calLeave")
  /\ phase' = "leaving"
  /\ \/ stopped = "no" /\ result' = "complete"
     \/ (cancelled \/ stopped # "no") /\ result' = "cancelled"
     \/ "calibration" \in Failures /\ result' = "failed"
  /\ UNCHANGED <<dictVars, cancelled, total, offset, stopped, eventVars, backendVars,
                 left, batchVars, error, processed>>

CalibrateLeave ==
  /\ WorkerAt("calLeave", "calConsume")
  /\ Leave
  /\ UNCHANGED <<dictVars, eventVars, backendVars, left, batchVars, error, processed>>

\* An empty answer is the RequestException "Native request was cancelled".
CalibrateConsume ==
  /\ wpc = "calConsume"
  /\ cancelPending' = FALSE
  /\ IF result = "complete"
       THEN wpc' = "cal" /\ left' = left - 1 /\ error' = error
       ELSE wpc' = "finish" /\ left' = left /\ error' = "request"
  /\ UNCHANGED <<dictVars, callVars, eventVars, hasBackend, hasEngine, batchVars, processed>>

\* super().play(), then the started event: nobody reads play in between.
Begin ==
  /\ left = 0
  /\ WorkerAt("cal", "loop")
  /\ play' = TRUE
  /\ startedEvent' = TRUE
  /\ UNCHANGED <<dictVars, callVars, quit, finished, pausedEvent, prepared, backendVars,
                 left, batchVars, error, processed>>

-----------------------------------------------------------------------------
(* The worker: pausing                                                     *)

WorkerRests ==
  UNCHANGED <<callVars, backendVars, left, batchVars, error, processed>>

LoopQuit ==
  /\ wpc = "loop"
  /\ wpc' = IF quit THEN "finish" ELSE "gate"
  /\ WorkerRests
  /\ UNCHANGED <<dictVars, eventVars>>

LoopGate ==
  /\ wpc = "gate"
  /\ wpc' = IF play THEN "claim" ELSE "requeue"
  /\ WorkerRests
  /\ UNCHANGED <<dictVars, eventVars>>

Requeue ==
  /\ WorkerAt("requeue", "ack")
  /\ requeue_claims
  /\ WorkerRests
  /\ UNCHANGED eventVars

Acknowledge ==
  /\ WorkerAt("ack", "parked")
  /\ pausedEvent' = TRUE
  /\ WorkerRests
  /\ UNCHANGED <<dictVars, play, quit, finished, startedEvent, prepared>>

WakeUp ==
  /\ play
  /\ WorkerAt("parked", "woken")
  /\ WorkerRests
  /\ UNCHANGED <<dictVars, eventVars>>

Resume ==
  /\ WorkerAt("woken", "loop")
  /\ pausedEvent' = FALSE
  /\ WorkerRests
  /\ UNCHANGED <<dictVars, play, quit, finished, startedEvent, prepared>>

-----------------------------------------------------------------------------
(* The worker: one batch                                                   *)

\* _next_chunk returns a corpus range exactly when the claim list is bypassed.
ClaimBatch ==
  /\ WorkerAt("claim", "lock")
  /\ claim_native_many(ClaimSize)
  /\ isRange' = (nativeClaim' # NoClaim)
  /\ batch' = IF isRange'
                THEN SubSeq(Wordlist, index + 1, index')
                ELSE SubSeq(claimed', Len(claimed) + 1, Len(claimed'))
  /\ cursor' = 0 /\ event' = 0
  /\ UNCHANGED <<callVars, eventVars, backendVars, left, error, processed>>

\* An empty list ends the loop; a range that is still claimed is an error.
NoBatch ==
  /\ WorkerAt("claim", "finish")
  /\ NativeClaimActive \/ Exhausted
  /\ error' = IF NativeClaimActive THEN "runtime" ELSE error
  /\ UNCHANGED <<dictVars, callVars, eventVars, backendVars, left, batchVars, processed>>

ScanLock ==
  /\ WorkerAt("lock", "enter")
  /\ LockCancel
  /\ UNCHANGED <<dictVars, eventVars, left, batchVars, error, processed>>

ScanEnter ==
  /\ wpc = "enter"
  /\ wpc' = IF cancelled THEN "consume" ELSE "scan"
  /\ Enter(Len(batch))
  /\ UNCHANGED <<dictVars, eventVars, backendVars, left, batchVars, error, processed>>

\* The Rust tasks leave on their own when they see the flag.
EngineWorkerStops ==
  /\ WorkerStops
  /\ UNCHANGED <<dictVars, fuzzerVars>>

DeliverChunk ==
  /\ WorkerAt("scan", "check")
  /\ \E count \in 1 .. (total - offset) : Deliver(count)
  /\ cursor' = offset
  /\ UNCHANGED <<dictVars, eventVars, backendVars, left, batch, isRange, event, error, processed>>

ScanEnds ==
  /\ WorkerAt("scan", "leave")
  /\ \E reason \in Results :
       /\ End(reason)
       /\ reason = "failed" => "engine" \in Failures
       /\ error' = CASE reason = "short" -> "runtime"
                     [] reason = "failed" -> "engine"
                     [] OTHER -> error
  /\ UNCHANGED <<dictVars, eventVars, backendVars, left, batchVars, processed>>

ScanLeave ==
  /\ WorkerAt("leave", "consume")
  /\ Leave
  /\ UNCHANGED <<dictVars, eventVars, backendVars, left, batchVars, error, processed>>

ScanConsume ==
  /\ wpc = "consume"
  /\ cancelPending' = FALSE
  /\ wpc' = "after"
  /\ UNCHANGED <<dictVars, callVars, eventVars, hasBackend, hasEngine, left, batchVars, error,
                 processed>>

NoBatchLocals == batch' = <<>> /\ isRange' = FALSE /\ cursor' = 0 /\ event' = 0

\* The except clause ("must not strand claims") and the finally clause of a
\* batch.  A second requeue finds nothing to requeue.
BatchDone ==
  /\ wpc = "after"
  /\ wpc' = IF error = "none" THEN "loop" ELSE "finish"
  /\ IF play /\ error = "none" THEN UNCHANGED dictVars ELSE requeue_claims
  /\ NoBatchLocals
  /\ UNCHANGED <<callVars, eventVars, backendVars, left, error, processed>>

-----------------------------------------------------------------------------
(* The worker: _process_native_chunk, for the range cursor .. offset       *)

\* _should_stop_processing
Stop == quit \/ ~play

\* Requests [from, to) of the call are settled: counted, then released.
Settle(from, to) ==
  processed' = [p \in Paths |->
    processed[p] + Occurrences(SubSeq(batch, from + 1, to), p)]

ReleasePart(from, to) ==
  IF isRange THEN release_native_claims(to - from)
             ELSE release_claims(SubSeq(batch, from + 1, to))

\* Rust decides which requests are events; the rest of the range is filtered.
ChunkCheck ==
  /\ wpc = "check"
  /\ \/ /\ Stop
        /\ wpc' = "scan" /\ event' = event
     \/ /\ ~Stop
        /\ \E next \in cursor .. (offset - 1) :
             /\ event' = next
             /\ wpc' = IF next > cursor THEN "gap" ELSE "recheck"
     \/ /\ ~Stop
        /\ wpc' = IF cursor < offset THEN "tail" ELSE "scan"
        /\ event' = event
  /\ UNCHANGED <<dictVars, callVars, eventVars, backendVars, left, batch, isRange, cursor,
                 error, processed>>

FilteredGap ==
  /\ WorkerAt("gap", "recheck")
  /\ Settle(cursor, event)
  /\ ReleasePart(cursor, event)
  /\ cursor' = event
  /\ UNCHANGED <<callVars, eventVars, backendVars, left, batch, isRange, event, error>>

ChunkRecheck ==
  /\ wpc = "recheck"
  /\ wpc' = IF Stop THEN "scan" ELSE "event"
  /\ WorkerRests
  /\ UNCHANGED <<dictVars, eventVars>>

\* _process_native_result: crawling may queue a path, a callback may raise.
ProcessEvent ==
  /\ WorkerAt("event", "release")
  /\ Settle(event, event + 1)
  /\ \/ UNCHANGED dictVars
     \/ LET link == Link[batch[event + 1]]
        IN  link # NoPath /\ add_extra(link)
  /\ error' \in {"none"} \cup (Failures \cap {"skip", "quit"})
  /\ UNCHANGED <<callVars, eventVars, backendVars, left, batchVars>>

\* The finally clause of the event releases it even when a callback raised; the
\* exception then ends the call.
ReleaseEvent ==
  /\ wpc = "release"
  /\ \/ error = "none" /\ wpc' = "check" /\ UNCHANGED callVars
     \/ error # "none" /\ wpc' = "leave" /\ End("failed")
  /\ ReleasePart(event, event + 1)
  /\ cursor' = event + 1
  /\ UNCHANGED <<eventVars, backendVars, left, batch, isRange, event, error, processed>>

FilteredTail ==
  /\ WorkerAt("tail", "scan")
  /\ Settle(cursor, offset)
  /\ ReleasePart(cursor, offset)
  /\ cursor' = offset
  /\ UNCHANGED <<callVars, eventVars, backendVars, left, batch, isRange, event, error>>

-----------------------------------------------------------------------------
(* The worker: the last finally clause, in its order                       *)

Finish ==
  \/ /\ WorkerAt("finish", "finish2")
     /\ finished' = TRUE
     /\ UNCHANGED <<pausedEvent, startedEvent>>
  \/ /\ WorkerAt("finish2", "finish3")
     /\ startedEvent' = TRUE
     /\ UNCHANGED <<finished, pausedEvent>>
  \/ /\ WorkerAt("finish3", "dead")
     /\ pausedEvent' = TRUE
     /\ UNCHANGED <<finished, startedEvent>>

WorkerFinish ==
  /\ Finish
  /\ WorkerRests
  /\ UNCHANGED <<dictVars, play, quit, prepared>>

WorkerStep ==
  \/ WorkerStart
  \/ CalibrateLock \/ CalibrateEnter \/ CalibrateEnds \/ CalibrateLeave
  \/ CalibrateConsume \/ Begin
  \/ LoopQuit \/ LoopGate \/ Requeue \/ Acknowledge \/ WakeUp \/ Resume
  \/ ClaimBatch \/ NoBatch \/ ScanLock \/ ScanEnter \/ DeliverChunk
  \/ ScanEnds \/ ScanLeave \/ ScanConsume \/ BatchDone
  \/ ChunkCheck \/ FilteredGap \/ ChunkRecheck \/ ProcessEvent \/ ReleaseEvent
  \/ FilteredTail \/ WorkerFinish
=============================================================================
