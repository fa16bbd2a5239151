----------------------------- MODULE NativeScan -----------------------------
(***************************************************************************)
(* One target scanned by the native backend: Controller.start,             *)
(* start_native_fuzzer and handle_pause of lib/controller/controller.py,   *)
(* composed with the worker thread of NativeFuzzer and the deadline timer. *)
(*                                                                         *)
(* main is where start_native_fuzzer is:                                   *)
(*   prepare, spawn, poll    in its try clause                             *)
(*   finally, join           after it                                      *)
(*   leave                   in the finally clause of Controller.start     *)
(*   over                    the target is left                            *)
(* handler is where handle_pause is, on the main thread:                   *)
(*   off, started, clear, cancel, wait (NativeFuzzer.pause), menu,         *)
(*   resume, unpause (NativeFuzzer.play)                                   *)
(* quitting[a] is the next step of NativeFuzzer.quit in the main or the    *)
(* timer thread, 0 when it is not running there.                           *)
(***************************************************************************)
EXTENDS NativeFuzzer

CONSTANTS
  Directories,  \* len(self.directories) when the target's scan begins
  MoreUrls,     \* len(options["urls"]) > 1
  Deadlines,    \* options["max_time"] or options["target_max_time"] is set
  MaxSignals    \* bound: signals the user sends

ASSUME NativeScanAssumption ==
  /\ Directories \in Nat \ {0}
  /\ MoreUrls \in BOOLEAN
  /\ Deadlines \in BOOLEAN
  /\ MaxSignals \in Nat

VARIABLES
  main, pending,        \* pending: pending_error, then what start raises
  outcome,              \* how the target was left
  directories,          \* len(self.directories)
  timer, deadline,      \* the Timer thread and deadline_reached
  quitting,
  handler,
  signals,              \* history: signals sent
  gaveUp,               \* history: NativeFuzzer.pause has returned False
  saved                 \* the dictionary of the session file

mainVars == <<main, pending, outcome, directories>>
timerVars == <<timer, deadline>>
handlerVars == <<handler, signals, gaveUp>>
scanVars == <<mainVars, timerVars, quitting, handlerVars, saved>>
vars == <<dictVars, callVars, fuzzerVars, scanVars>>

\* How often each path is due in a directory.
Due == [p \in Paths |-> Occurrences(Wordlist, p) + (IF p \in extraMembership THEN 1 ELSE 0)]

NoSession == [index |-> 0, extra |-> <<>>, extraIndex |-> 0]

Init ==
  /\ DictInit /\ CallInit /\ FuzzerInit
  /\ main = "prepare" /\ pending = "none" /\ outcome = "running"
  /\ directories = Directories
  /\ timer = "off" /\ deadline = FALSE
  /\ quitting = [main |-> 0, timer |-> 0]
  /\ handler = "off"
  /\ signals = 0 /\ gaveUp = FALSE
  /\ saved = NoSession

-----------------------------------------------------------------------------
(* start_native_fuzzer                                                     *)

MainFree == handler = "off" /\ quitting["main"] = 0

\* What get_time_limit raises or returns: target_max_time skips the target,
\* max_time quits.
TimeLimits == {"skip", "quit"}

\* get_time_limit raises when the limit has passed between two directories.
TimeAlreadyUp ==
  /\ main = "prepare" /\ MainFree
  /\ Deadlines
  /\ main' = "leave"
  /\ pending' \in TimeLimits
  /\ UNCHANGED <<dictVars, callVars, fuzzerVars, outcome, directories, timerVars, quitting,
                 handlerVars, saved>>

Prepare ==
  /\ main = "prepare" /\ MainFree
  /\ main' = "spawn"
  /\ prepare_start
  /\ deadline' = FALSE
  /\ UNCHANGED <<dictVars, workerVars, pending, outcome, directories, timer, quitting,
                 handler, signals, gaveUp, saved>>

Spawn ==
  /\ main = "spawn" /\ MainFree
  /\ main' = "poll"
  /\ wpc' = "new"
  /\ timer' = IF Deadlines THEN "armed" ELSE "off"
  /\ UNCHANGED <<dictVars, callVars, eventVars, backendVars, left, batchVars, error, processed,
                 pending, outcome, directories, deadline, quitting, handlerVars, saved>>

Poll ==
  /\ main = "poll" /\ MainFree
  /\ ~Alive \/ deadline
  /\ main' = "finally"
  /\ UNCHANGED <<dictVars, callVars, fuzzerVars, pending, outcome, directories, timerVars,
                 quitting, handlerVars, saved>>

\* timer.cancel(); timer.join()
StopTimer ==
  /\ main = "finally" /\ MainFree
  /\ timer # "fired"
  /\ timer' = "off"
  /\ main' = "join"
  /\ UNCHANGED <<dictVars, callVars, fuzzerVars, pending, outcome, directories, deadline,
                 quitting, handlerVars, saved>>

\* NATIVE_WORKER_SHUTDOWN_TIMEOUT: "Native scan did not stop safely".
JoinTimeout ==
  /\ main = "join"
  /\ Alive
  /\ main' = "leave"
  /\ pending' = "unsafe"
  /\ UNCHANGED <<dictVars, callVars, fuzzerVars, outcome, directories, timerVars, quitting,
                 handlerVars, saved>>

\* The worker is joined.  Then pending_error, the worker's error, the deadline,
\* the late recheck: in order.
Resolve ==
  /\ main = "join"
  /\ ~Alive
  /\ main' = "leave"
  /\ \/ pending # "none" /\ pending' = pending
     \/ pending = "none" /\ error # "none" /\ pending' = error
     \/ pending = "none" /\ error = "none" /\ Deadlines /\ pending' \in TimeLimits
     \/ pending = "none" /\ error = "none" /\ ~deadline /\ pending' = "none"
  /\ UNCHANGED <<dictVars, callVars, fuzzerVars, outcome, directories, timerVars, quitting,
                 handlerVars, saved>>

\* Controller.run on the exception: RuntimeError is not one it handles.  The
\* message of "engine" is the engine's, that of "runtime" is about lost claims.
Verdict ==
  CASE pending = "none" -> IF directories = 1 THEN "completed" ELSE "running"
    [] pending \in {"request", "skip"} -> "abandoned"
    [] pending \in {"engine", "runtime"} -> "crashed"
    [] OTHER -> "quit"

\* The worker object is gone, and so are its locals.
NoWorker ==
  /\ wpc' = "none"
  /\ left' = 0
  /\ NoBatchLocals
  /\ error' = "none"
  /\ processed' = [p \in Paths |-> 0]

\* The finally clause of Controller.start, and run() after it.
LeaveDirectory ==
  /\ main = "leave"
  /\ wpc \in {"none", "dead"}
  /\ reset
  /\ directories' = directories - 1
  /\ outcome' = Verdict
  /\ main' = IF Verdict = "running" THEN "prepare" ELSE "over"
  /\ NoWorker
  /\ UNCHANGED <<callVars, eventVars, backendVars, pending, timerVars, quitting, handlerVars,
                 saved>>

\* A worker that is still alive keeps its dictionary; the program quits.
LeaveUnsafe ==
  /\ main = "leave"
  /\ Alive
  /\ outcome' = "quit"
  /\ main' = "over"
  /\ UNCHANGED <<dictVars, callVars, fuzzerVars, pending, directories, timerVars, quitting,
                 handlerVars, saved>>

MainStep ==
  \/ TimeAlreadyUp \/ Prepare \/ Spawn \/ Poll \/ StopTimer
  \/ JoinTimeout \/ Resolve \/ LeaveDirectory \/ LeaveUnsafe

-----------------------------------------------------------------------------
(* stop_at_deadline, and quit() wherever it runs                           *)

TimerFires ==
  /\ timer = "armed"
  /\ timer' = "fired"
  /\ deadline' = TRUE
  /\ quitting' = [quitting EXCEPT !["timer"] = 1]
  /\ UNCHANGED <<dictVars, callVars, fuzzerVars, mainVars, handlerVars, saved>>

quit_in(thread) ==
  /\ quitting[thread] # 0
  /\ QuitStep(QuitSteps[quitting[thread]])
  /\ quitting' = [quitting EXCEPT ![thread] = IF @ = Len(QuitSteps) THEN 0 ELSE @ + 1]
  /\ timer' = IF thread = "timer" /\ quitting[thread] = Len(QuitSteps) THEN "off" ELSE timer
  /\ UNCHANGED <<dictVars, workerVars, mainVars, deadline, handlerVars, saved>>

-----------------------------------------------------------------------------
(* handle_pause                                                            *)

\* SIGINT, while the main thread is in the try clause of start_native_fuzzer.
Signal ==
  /\ main \in {"spawn", "poll"} /\ MainFree
  /\ signals < MaxSignals
  /\ signals' = signals + 1
  /\ handler' = "started"
  /\ UNCHANGED <<dictVars, callVars, fuzzerVars, mainVars, timerVars, quitting, gaveUp,
                 saved>>

HandlerStays ==
  UNCHANGED <<dictVars, workerVars, mainVars, timerVars, quitting, signals, saved>>

\* pause(): the worker must have started ...
PauseStarted ==
  /\ handler = "started"
  /\ startedEvent
  /\ handler' = "clear"
  /\ HandlerStays
  /\ UNCHANGED <<callVars, eventVars, backendVars, gaveUp>>

PauseNotStarted ==
  /\ handler = "started"
  /\ ~startedEvent
  /\ handler' = "menu"
  /\ gaveUp' = (gaveUp \/ ~finished)
  /\ HandlerStays
  /\ UNCHANGED <<callVars, eventVars, backendVars>>

PauseClear ==
  /\ handler = "clear"
  /\ play' = FALSE
  /\ handler' = "cancel"
  /\ HandlerStays
  /\ UNCHANGED <<callVars, quit, finished, pausedEvent, startedEvent, prepared, backendVars,
                 gaveUp>>

\* ... and is cancelled unless it has finished ...
PauseCancel ==
  /\ handler = "cancel"
  /\ IF finished
       THEN /\ handler' = "menu"
            /\ UNCHANGED <<callVars, backendVars>>
       ELSE /\ handler' = "wait"
            /\ CancelBackend
  /\ HandlerStays
  /\ UNCHANGED <<eventVars, gaveUp>>

\* ... until it acknowledges.
PauseAcknowledged ==
  /\ handler = "wait"
  /\ pausedEvent
  /\ handler' = "menu"
  /\ HandlerStays
  /\ UNCHANGED <<callVars, eventVars, backendVars, gaveUp>>

PauseTimeout ==
  /\ handler = "wait"
  /\ ~pausedEvent
  /\ handler' = "menu"
  /\ gaveUp' = TRUE
  /\ HandlerStays
  /\ UNCHANGED <<callVars, eventVars, backendVars>>

\* play() without _reset_native_cancellation.
ChooseContinue_cancelled ==
  /\ handler = "menu"
  /\ handler' = "unpause"
  /\ HandlerStays
  /\ UNCHANGED <<callVars, eventVars, backendVars, gaveUp>>

\* play(): the cancellation, the paused event, the play event.
ChooseContinue ==
  /\ handler = "menu"
  /\ handler' = "unpause"
  /\ ResetBackend
  /\ HandlerStays
  /\ UNCHANGED <<eventVars, gaveUp>>

ContinueUnpause ==
  /\ handler = "unpause"
  /\ handler' = "resume"
  /\ pausedEvent' = FALSE
  /\ HandlerStays
  /\ UNCHANGED <<callVars, play, quit, finished, startedEvent, prepared, backendVars, gaveUp>>

ContinuePlay ==
  /\ handler = "resume"
  /\ handler' = "off"
  /\ play' = TRUE
  /\ HandlerStays
  /\ UNCHANGED <<callVars, quit, finished, pausedEvent, startedEvent, prepared, backendVars,
                 gaveUp>>

ChooseNext ==
  /\ handler = "menu"
  /\ directories > 1
  /\ handler' = "off"
  /\ quitting' = [quitting EXCEPT !["main"] = 1]
  /\ UNCHANGED <<dictVars, callVars, fuzzerVars, mainVars, timerVars, signals, gaveUp, saved>>

\* An exception out of the handler: pending_error, and quit() for a live worker.
RaiseInMain(exception) ==
  /\ handler' = "off"
  /\ pending' = exception
  /\ main' = "finally"
  /\ quitting' = [quitting EXCEPT !["main"] = IF Alive THEN 1 ELSE 0]
  /\ UNCHANGED <<dictVars, callVars, fuzzerVars, outcome, directories, timerVars, signals,
                 gaveUp>>

ChooseSkip == handler = "menu" /\ MoreUrls /\ RaiseInMain("skip") /\ UNCHANGED saved

ChooseQuit == handler = "menu" /\ RaiseInMain("quit") /\ UNCHANGED saved

\* _export: the dictionary is read as it is at this moment.
ChooseSave ==
  /\ handler = "menu"
  /\ saved' = getstate
  /\ RaiseInMain("quit")

HandlerStep ==
  \/ PauseStarted \/ PauseNotStarted \/ PauseClear \/ PauseCancel
  \/ PauseAcknowledged \/ PauseTimeout
  \/ ChooseContinue \/ ContinueUnpause \/ ContinuePlay
  \/ ChooseNext \/ ChooseSkip \/ ChooseQuit \/ ChooseSave

-----------------------------------------------------------------------------

Over == main = "over" /\ UNCHANGED vars

\* A program that has quit runs no further step of its daemon threads.
Running == main # "over"

Next ==
  \/ Running /\ WorkerStep /\ UNCHANGED scanVars
  \/ Running /\ EngineWorkerStops /\ UNCHANGED scanVars
  \/ MainStep
  \/ TimerFires
  \/ \E thread \in {"main", "timer"} : quit_in(thread)
  \/ Signal
  \/ HandlerStep
  \/ Over

Spec == Init /\ [][Next]_vars

\* The operating system runs every thread, requests have timeouts, and the
\* user answers the menu.
FairSpec ==
  /\ Spec
  /\ WF_vars(Running /\ WorkerStep /\ UNCHANGED scanVars)
  /\ WF_vars(MainStep)
  /\ \A thread \in {"main", "timer"} : WF_vars(quit_in(thread))
  /\ WF_vars(HandlerStep)

-----------------------------------------------------------------------------
(* Properties                                                              *)

\* The path whose event is settled and not yet released.
InHand(path) == IF wpc = "release" /\ batch[event + 1] = path THEN 1 ELSE 0

\* While no pause has timed out, every path due in the directory is settled or
\* still owed, never both and never neither, through any sequence of pauses,
\* cancelled and refused calls, partial chunks and failures; a worker that
\* ends its loop on its own has settled everything.
ScanAccounts ==
  ~gaveUp =>
    \A p \in Paths :
      /\ processed[p] + Outstanding(p) = Due[p] + InHand(p)
      /\ wpc = "dead" /\ Running /\ ~quit /\ error = "none" =>
           Outstanding(p) = 0

\* "Acknowledge pause only after claims are recoverable": while the menu of an
\* acknowledged pause is shown no result is processed, and unless the deadline
\* or the end of the scan intervenes nothing is claimed.
PauseQuiescent ==
  handler = "menu" /\ ~gaveUp =>
    /\ wpc \notin Processing
    /\ ~quit /\ ~finished => claimed = <<>> /\ ~NativeClaimActive

\* A session saved from such a menu holds exactly what is not settled.
CheckpointExact ==
  [][saved' # saved /\ ~gaveUp =>
       \A p \in Paths : processed[p] + StateOutstanding(saved', p) = Due[p]]_vars

\* However signals, deadlines and failures fall, the target is left.
TargetEnds == <>(main = "over")

\* [c]ontinue goes on with the scan: as long as no pause has timed out, the
\* worker never finds its range still claimed or its engine call cut short by a
\* cancellation that was withdrawn.
ContinueSound == error = "runtime" => gaveUp

-----------------------------------------------------------------------------
(* The inductive strengthening of the properties.  All of it is about scans *)
(* where no pause has timed out; gaveUp never becomes FALSE again.          *)

Calibrating == {"cal", "calEnter", "calScan", "calLeave", "calConsume"}
Parking == {"requeue", "ack", "parked", "woken"}
Delivering == Processing \cup {"scan", "check"}
Batching == {"lock", "enter", "leave", "consume", "after"} \cup Delivering
Ended == {"finish", "finish2", "finish3", "dead"}

TypeOK ==
  /\ DictTypeOK /\ RangeInFlight
  /\ batch \in Seq(Paths) /\ cursor \in Nat /\ event \in Nat
  /\ total \in Nat /\ offset \in 0 .. total
  /\ processed \in [Paths -> Nat]
  /\ quitting \in [{"main", "timer"} -> 0 .. Len(QuitSteps)]
  /\ SavedStateOK(saved)

\* The places the threads and the call can be in, and how each can fail.
StatesOK ==
  /\ wpc \in WorkerStates
  /\ error \in {"none", "request", "engine", "runtime", "skip", "quit"}
  /\ phase \in {"idle", "running", "leaving"}
  /\ result \in Results
  /\ stopped \in {"no", "seen", "missed"}
  /\ main \in {"prepare", "spawn", "poll", "finally", "join", "leave", "over"}
  /\ pending \in {"none", "request", "engine", "runtime", "skip", "quit", "unsafe"}
  /\ outcome \in {"running", "completed", "abandoned", "crashed", "quit"}
  /\ timer \in {"off", "armed", "fired"}
  /\ handler \in {"off", "started", "clear", "cancel", "wait", "menu", "unpause", "resume"}

\* Which threads run when: the worker exists from spawn on, the handler runs in
\* the try clause only, the timer is joined before the worker is.
ThreadsPlaced ==
  /\ main \in {"prepare", "spawn"} => wpc = "none" /\ timer = "off"
  /\ main \in {"poll", "finally", "join"} => wpc # "none"
  /\ main = "over" \/ main = "leave" => timer = "off"
  /\ main = "join" => timer = "off"
  /\ handler # "off" => main \in {"spawn", "poll"}
  /\ handler \notin {"off", "started"} => main = "poll"
  /\ quitting["main"] # 0 => main \in {"poll", "finally"} /\ handler = "off"
  /\ quitting["timer"] # 0 => timer = "fired"
  /\ \A thread \in {"main", "timer"} : quitting[thread] > 1 => quit

\* Whether the engine has a call, and how a call relates to the batch.
CallPlaced ==
  /\ wpc \in {"none", "new", "cal", "calEnter", "calConsume", "consume", "after", "loop", "gate",
             "claim", "lock", "enter"} \cup Parking \cup Ended =>
       phase = "idle" /\ stopped = "no"
  /\ wpc = "calScan" \/ wpc \in Delivering => phase = "running"
  /\ wpc \in {"calLeave", "leave"} => phase = "leaving"
  /\ wpc \in Delivering => total = Len(batch)
  /\ wpc \in Delivering \cup {"calScan", "calLeave", "leave"} => stopped # "missed"
  /\ stopped = "seen" => cancelled
  /\ cancelled => hasEngine
  /\ hasEngine \/ cancelPending \/ wpc \notin {"none", "new"} => hasBackend

\* A cancellation is there for a reason: a quit, or a pause being made.
CancelPlaced ==
  /\ cancelled \/ cancelPending =>
       \/ quit \/ handler \in {"wait", "menu"} \/ quitting["main"] = 1
       \/ wpc \in {"none", "dead"}
  /\ main = "spawn" => ~cancelled /\ ~cancelPending

\* What the events say about the worker.
EventsPlaced ==
  /\ main = "spawn" => ~finished /\ ~startedEvent /\ ~pausedEvent /\ ~quit
  /\ wpc # "none" => (finished <=> wpc \in {"finish2", "finish3", "dead"})
  /\ wpc \in {"new"} \cup Calibrating => ~startedEvent /\ handler \in {"off", "started"}
  /\ pausedEvent /\ wpc # "none" => wpc \in {"parked", "woken", "dead"}
  /\ pausedEvent /\ wpc = "woken" => quit

\* The handshake of pause() and play() with the worker.  A worker parked under a
\* cleared play event goes on only when the handler or a quit() sets it again.
Handshake ==
  /\ handler \in {"cancel", "wait"} => quit \/ ~play
  /\ ~play /\ wpc \in {"loop", "gate", "claim", "requeue", "ack", "woken"} \cup Batching =>
       quit \/ handler \in {"cancel", "wait"}
  /\ wpc \in {"requeue", "ack"} => quit \/ ~play
  /\ wpc = "parked" /\ pausedEvent /\ play => quit
  /\ wpc = "parked" /\ pausedEvent /\ ~quit =>
       handler \in {"cancel", "wait", "menu", "unpause"} \/ quitting["main"] = 1
  /\ handler \in {"menu", "unpause", "resume"} \/ quitting["main"] = 1 =>
       \/ wpc = "parked" /\ (play => quit)
       \/ wpc \in {"woken", "loop", "finish"} /\ quit
       \/ wpc \in {"finish2", "finish3", "dead"}

\* What the dictionary holds as claimed is the batch from the cursor on.
BatchHeld ==
  /\ cursor <= Len(batch)
  /\ IF isRange
       THEN /\ claimed = <<>>
            /\ IF cursor = Len(batch)
                 THEN nativeClaim = NoClaim
                 ELSE /\ nativeClaim.size = Len(batch) /\ nativeClaim.released = cursor
                      /\ batch = SubSeq(Wordlist, nativeClaim.start + 1,
                                                 nativeClaim.start + nativeClaim.size)
       ELSE /\ nativeClaim = NoClaim
            /\ claimed = SubSeq(batch, cursor + 1, Len(batch))

NothingHeld == claimed = <<>> /\ nativeClaim = NoClaim

\* Results are skipped, and their claims kept, only while the worker is told to
\* stop; it then ends the directory or gives everything back.
ClaimsPlaced ==
  /\ wpc \in {"none", "new", "gate", "claim"} \cup Calibrating \cup Parking => NothingHeld
  /\ wpc = "loop" => quit \/ NothingHeld
  /\ wpc \in Ended => quit \/ (NothingHeld /\ (error # "none" \/ Exhausted))
  /\ wpc \in Processing => BatchHeld
  /\ wpc \in {"lock", "enter"} => BatchHeld /\ cursor = 0
  /\ wpc \in {"scan", "check"} => Stop \/ BatchHeld
  /\ wpc = "scan" => Stop \/ cursor = offset
  /\ wpc \in {"leave", "consume", "after"} => Stop \/ NothingHeld \/ error # "none"

\* Where in the delivered range the worker is.
ChunkPlaced ==
  /\ wpc \in {"check", "recheck", "event", "release"} => cursor <= offset
  /\ wpc \in {"gap", "recheck", "event", "release"} => cursor <= event /\ event < offset
  /\ wpc = "gap" => cursor < event
  /\ wpc \in {"recheck", "event", "release"} => event = cursor
  /\ wpc = "tail" => cursor < offset
  /\ error # "none" => wpc \in {"release", "leave", "consume", "after"} \cup Ended
  /\ error # "runtime"

Accounted ==
  \A p \in Paths : processed[p] + Outstanding(p) = Due[p] + InHand(p)

\* Everything but the work: who is where, and why.
ControlPlaced ==
  ThreadsPlaced /\ CallPlaced /\ CancelPlaced /\ EventsPlaced /\ Handshake

IInv == gaveUp \/ (TypeOK /\ ControlPlaced /\ ClaimsPlaced /\ ChunkPlaced /\ Accounted)
=============================================================================
