------------------------------ MODULE AsyncScan ------------------------------
(***************************************************************************)
(* A target scanned by AsyncFuzzer: Controller.start with its coroutine,   *)
(* the tasks, report rows written by an executor thread, and handle_pause. *)
(*                                                                         *)
(* Coroutines share one thread: a step of this module is what the loop     *)
(* runs from one await to the next.  The signal handler runs on the same   *)
(* thread, so nothing but the executor moves while its menu is open.       *)
(*                                                                         *)
(* phase is where the main thread is: idle between directories, wait and   *)
(* ending in start_coroutines, leave in the finally clause of start, over  *)
(* when the target is left, broken when an exception that nobody expects   *)
(* ends the process.                                                       *)
(***************************************************************************)
EXTENDS DictionaryClaims

CONSTANTS
  Directories,  \* number of directories to scan
  BatchSize,    \* rows per commit of the report
  MaxSignals    \* bound

ASSUME AsyncAssumption ==
  /\ Directories \in Nat /\ BatchSize \in Nat \ {0} /\ MaxSignals \in Nat

VARIABLES
  phase, left,    \* left: directories that remain
  outcome,        \* the exception that leaves start_coroutines, or none
  future,         \* self.pause_future: missing, pending, or its exception
  fz, result,     \* AsyncFuzzer.start: off, setup, gather, drain, done; how it ends
  pc,             \* pc[w]: none, gate, request, queue, write, done, cancelled, failed
  cancel,         \* cancel[w]: a cancellation has been requested
  playing,        \* _play_event
  job,            \* the report save in the executor, with the task that awaits it
  rows,           \* rows in the open transaction of the report
  menu, handling, signals,
  owed,           \* history: paths that matched and whose row is not durable
  abandoned,      \* history: a path of this directory was released before it was processed
  ahead           \* history: a session was saved ahead of the durable rows

scanVars == <<phase, left, outcome, future>>
fuzzerVars == <<fz, result, pc, cancel, playing>>
rowVars == <<job, rows, owed>>
menuVars == <<menu, handling, signals>>
asyncVars == <<vars, scanVars, fuzzerVars, rowVars, menuVars, abandoned, ahead>>

NoJob == [task |-> NoPath, state |-> "none"]
Stopped == {"none", "done", "cancelled", "failed"}
Leaving == {"leave", "over", "idle"}

AsyncInit ==
  /\ Init
  /\ phase = "idle" /\ left = Directories /\ outcome = "none" /\ future = "missing"
  /\ fz = "off" /\ result = "none"
  /\ pc = [w \in Workers |-> "none"] /\ cancel = [w \in Workers |-> FALSE]
  /\ playing = FALSE
  /\ job = NoJob /\ rows = {} /\ owed = {}
  /\ menu = "off" /\ handling = FALSE /\ signals = 0
  /\ abandoned = FALSE /\ ahead = FALSE

-----------------------------------------------------------------------------
(* Controller.start and start_coroutines                                   *)

Loop == menu = "off" /\ phase # "broken" /\ UNCHANGED <<menuVars, ahead>>

\* A new future for every directory; the time limit may have passed already.
BeginDirectory ==
  /\ Loop /\ phase = "idle" /\ left > 0
  /\ future' = "pending"
  /\ \/ /\ phase' = "wait" /\ fz' = "setup" /\ result' = "none" /\ outcome' = "none"
     \/ /\ phase' = "leave" /\ outcome' \in {"skip", "quit"} /\ UNCHANGED <<fz, result>>
  /\ UNCHANGED <<vars, left, pc, cancel, playing, rowVars, abandoned>>

\* task.cancel on the task of AsyncFuzzer.start.
CancelFuzzer ==
  /\ fz' = IF fz = "setup" THEN "done" ELSE IF fz = "gather" THEN "drain" ELSE fz
  /\ cancel' = [w \in Workers |-> pc[w] \notin Stopped]

\* asyncio.wait returns because the menu answered, ...
WakeAnswered ==
  /\ Loop /\ phase = "wait" /\ future \in {"skip", "quit"}
  /\ phase' = "ending" /\ outcome' = future
  /\ CancelFuzzer
  /\ UNCHANGED <<vars, left, future, result, pc, playing, rowVars, abandoned>>

\* ... because the fuzzer is done, ...
WakeDone ==
  /\ Loop /\ phase = "wait" /\ fz = "done" /\ future = "pending"
  /\ phase' = "ending" /\ outcome' = result
  /\ UNCHANGED <<vars, left, future, fuzzerVars, rowVars, abandoned>>

\* ... or because time is up.
WakeTimeout ==
  /\ Loop /\ phase = "wait"
  /\ phase' = "ending" /\ outcome' \in {"skip", "quit"}
  /\ CancelFuzzer
  /\ UNCHANGED <<vars, left, future, result, pc, playing, rowVars, abandoned>>

\* An early exit that does not wait for the fuzzer's task.
Ended_early ==
  /\ Loop /\ phase = "ending"
  /\ phase' = "leave"
  /\ UNCHANGED <<vars, left, outcome, future, fuzzerVars, rowVars, abandoned>>

\* The last gather of start_coroutines.
Ended ==
  /\ Loop /\ phase = "ending" /\ fz = "done"
  /\ phase' = "leave"
  /\ UNCHANGED <<vars, left, outcome, future, fuzzerVars, rowVars, abandoned>>

\* The finally clause of start.  A cancellation is [n]ext; run handles the rest.
LeaveDirectory ==
  /\ Loop /\ phase = "leave"
  /\ reset
  /\ settled' = None /\ accepted' = None
  /\ left' = left - 1
  /\ phase' = IF outcome \in {"none", "cancelled"} /\ left > 1 THEN "idle" ELSE "over"
  /\ pc' = [w \in Workers |-> "none"] /\ cancel' = [w \in Workers |-> FALSE]
  /\ fz' = "off" /\ owed' = owed \cap rows /\ abandoned' = FALSE
  /\ UNCHANGED <<held, batch, saved, outcome, future, result, playing, job, rows>>

-----------------------------------------------------------------------------
(* AsyncFuzzer.start                                                       *)

Fuzz == Loop /\ UNCHANGED <<scanVars, rowVars>>

SetupDone ==
  /\ Fuzz /\ fz = "setup"
  /\ fz' = "gather" /\ playing' = TRUE
  /\ \E tasks \in SUBSET Workers :
       /\ Cardinality(tasks) = AtMost(Cardinality(Workers), Len(Wordlist))
       /\ pc' = [w \in Workers |-> IF w \in tasks THEN "gate" ELSE "none"]
  /\ UNCHANGED <<vars, result, cancel, abandoned>>

\* A calibration request fails: RequestException.
SetupRaises ==
  /\ Fuzz /\ fz = "setup"
  /\ fz' = "done" /\ result' = "skip"
  /\ UNCHANGED <<vars, pc, cancel, playing, abandoned>>

\* gather returns when every task has returned, ...
GatherDone ==
  /\ Fuzz /\ fz = "gather"
  /\ \A w \in Workers : pc[w] \in {"none", "done"}
  /\ fz' = "done"
  /\ UNCHANGED <<vars, result, pc, cancel, playing, abandoned>>

\* ... and raises with the first one that fails; the others are cancelled.
GatherRaises ==
  /\ Fuzz /\ fz = "gather"
  /\ \E w \in Workers : pc[w] \in {"failed", "cancelled"}
  /\ CancelFuzzer
  /\ UNCHANGED <<vars, result, pc, playing, abandoned>>

Drained ==
  /\ Fuzz /\ fz = "drain"
  /\ \A w \in Workers : pc[w] \in Stopped
  /\ fz' = "done"
  /\ UNCHANGED <<vars, result, pc, cancel, playing, abandoned>>

-----------------------------------------------------------------------------
(* AsyncFuzzer.task_proc                                                   *)

\* The outcome of the first task that raises is the fuzzer's; the gather that
\* drains the others only returns their exceptions.
Raises(exception) ==
  result' = IF fz = "gather" /\ \A w \in Workers : pc[w] \notin {"failed", "cancelled"}
              THEN exception ELSE result

\* Task w runs from one await to the next.
Step(w, from, to) ==
  /\ Loop /\ pc[w] = from
  /\ pc' = [pc EXCEPT ![w] = to]
  /\ UNCHANGED <<scanVars, fz, cancel, playing>>

TaskClaim(w) ==
  /\ ~cancel[w] /\ playing
  /\ Step(w, "gate", "request") /\ Claim(w)
  /\ UNCHANGED <<result, rowVars, abandoned>>

TaskExhausted(w) ==
  /\ ~cancel[w] /\ playing /\ Exhausted
  /\ Step(w, "gate", "done")
  /\ UNCHANGED <<vars, result, rowVars, abandoned>>

\* Not found, filtered, or an error below the limit.
Miss(w) ==
  /\ ~cancel[w]
  /\ Step(w, "request", "gate") /\ Release(w)
  /\ UNCHANGED <<result, rowVars, abandoned>>

\* A callback ends the target: skip_on_status, the error limit, exit_on_error.
CallbackRaises(w) ==
  /\ ~cancel[w]
  /\ Step(w, "request", "failed") /\ Release(w)
  /\ Raises("skip") \/ Raises("quit")
  /\ abandoned' = TRUE
  /\ UNCHANGED rowVars

\* match_callback may find a path; then the report's turn comes.
Match(w) ==
  /\ ~cancel[w]
  /\ Step(w, "request", "queue")
  /\ owed' = owed \cup {held[w]}
  /\ \/ \E p \in Paths : Discover(p)
     \/ UNCHANGED vars
  /\ UNCHANGED <<result, job, rows, abandoned>>

\* _async_save_lock, and the save begins in a thread.
SubmitSave(w) ==
  /\ ~cancel[w] /\ job = NoJob
  /\ Step(w, "queue", "write")
  /\ job' = [task |-> w, state |-> "running"]
  /\ UNCHANGED <<vars, result, rows, owed, abandoned>>

\* A save_async that does not shield its thread.
SaveReturns_unshielded(w) ==
  \/ /\ cancel[w] /\ job.task = w
     /\ Step(w, "write", "cancelled") /\ Release(w)
     /\ Raises("cancelled") /\ abandoned' = TRUE
     /\ UNCHANGED rowVars
  \/ /\ job.task = w /\ job.state = "saved" /\ ~cancel[w]
     /\ job' = NoJob
     /\ Step(w, "write", "gate") /\ Release(w)
     /\ UNCHANGED <<result, rows, owed, abandoned>>

\* save_async returns; a cancellation meanwhile is raised only now.
SaveReturns(w) ==
  /\ job.task = w /\ job.state = "saved"
  /\ job' = NoJob
  /\ \/ cancel[w] /\ Step(w, "write", "cancelled") /\ Raises("cancelled")
     \/ ~cancel[w] /\ Step(w, "write", "gate") /\ UNCHANGED result
  /\ Release(w)
  /\ UNCHANGED <<rows, owed, abandoned>>

SaveRaises(w) ==
  /\ job.task = w /\ job.state = "failed"
  /\ job' = NoJob
  /\ Step(w, "write", "failed") /\ Release(w)
  /\ Raises("error") /\ abandoned' = TRUE
  /\ UNCHANGED <<rows, owed>>

\* CancelledError at an await; a save in the executor is waited for.
Cancelled(w) ==
  /\ cancel[w]
  /\ \/ Step(w, "gate", "cancelled") /\ UNCHANGED <<vars, abandoned>>
     \/ /\ Step(w, "request", "cancelled") \/ Step(w, "queue", "cancelled")
        /\ Release(w) /\ abandoned' = TRUE
  /\ Raises("cancelled") /\ UNCHANGED rowVars

Task(w) ==
  \/ TaskClaim(w) \/ TaskExhausted(w) \/ Miss(w) \/ CallbackRaises(w) \/ Match(w)
  \/ SubmitSave(w) \/ SaveReturns(w) \/ SaveRaises(w) \/ Cancelled(w)

-----------------------------------------------------------------------------
(* The executor thread and the report's transaction                        *)

\* ReportManager.save with a report that commits every BatchSize rows.
JobSaves ==
  /\ job.state = "running" /\ phase # "broken"
  /\ job' = [job EXCEPT !.state = "saved"]
  /\ LET written == rows \cup {held[job.task]}
     IN  IF Cardinality(written) >= BatchSize
           THEN rows' = {} /\ owed' = owed \ written
           ELSE rows' = written /\ UNCHANGED owed
  /\ UNCHANGED <<vars, scanVars, fuzzerVars, menuVars, abandoned, ahead>>

JobFails ==
  /\ job.state = "running" /\ phase # "broken"
  /\ job' = [job EXCEPT !.state = "failed"]
  /\ UNCHANGED <<vars, scanVars, fuzzerVars, rows, owed, menuVars, abandoned, ahead>>

-----------------------------------------------------------------------------
(* handle_pause                                                            *)

Handler == UNCHANGED <<left, outcome, fz, result, pc, job, abandoned>>

Signal ==
  /\ phase \notin {"over", "broken"} /\ ~handling /\ signals < MaxSignals
  /\ signals' = signals + 1 /\ handling' = TRUE /\ menu' = "open"
  /\ playing' = FALSE
  /\ Handler /\ UNCHANGED <<vars, phase, future, cancel, rows, owed, ahead>>

\* A [c]ontinue that does not set the event.
ChooseContinue_silent ==
  /\ menu = "open"
  /\ menu' = "off" /\ handling' = FALSE
  /\ Handler /\ UNCHANGED <<vars, phase, future, cancel, playing, rows, owed, signals, ahead>>

ChooseContinue ==
  /\ menu = "open"
  /\ menu' = "off" /\ handling' = FALSE /\ playing' = TRUE
  /\ Handler /\ UNCHANGED <<vars, phase, future, cancel, rows, owed, signals, ahead>>

\* AsyncFuzzer.quit cancels the tasks there are.
ChooseNext ==
  /\ menu = "open" /\ left > 1
  /\ menu' = "off" /\ handling' = FALSE
  /\ cancel' = [w \in Workers |-> pc[w] \notin Stopped]
  /\ Handler /\ UNCHANGED <<vars, phase, future, playing, rows, owed, signals, ahead>>

\* pause_future.set_exception: there may be no future yet, or it has its exception.
Answer(exception) ==
  IF future = "pending" THEN future' = exception /\ UNCHANGED phase
                        ELSE phase' = "broken" /\ UNCHANGED future

ChooseSkip ==
  /\ menu = "open"
  /\ menu' = "off" /\ handling' = FALSE
  /\ Answer("skip")
  /\ Handler /\ UNCHANGED <<vars, cancel, playing, rows, owed, signals, ahead>>

ChooseQuit ==
  /\ menu = "open"
  /\ menu' = "off"
  /\ Answer("quit")
  /\ Handler /\ UNCHANGED <<vars, cancel, playing, rows, owed, handling, signals, ahead>>

\* An _export without the flush.
ChooseSave_unflushed ==
  /\ menu = "open"
  /\ menu' = "flushed"
  /\ Handler
  /\ UNCHANGED <<vars, phase, future, cancel, playing, rows, owed, handling, signals, ahead>>

\* _export: the report is flushed, ...
ChooseSave ==
  /\ menu = "open"
  /\ menu' = "flushed"
  /\ rows' = {} /\ owed' = owed \ rows
  /\ Handler /\ UNCHANGED <<vars, phase, future, cancel, playing, handling, signals, ahead>>

\* ... and the session is written.
SaveSession ==
  /\ menu = "flushed"
  /\ menu' = "off"
  /\ Save
  /\ ahead' = (ahead \/ (~abandoned /\ ~(owed \subseteq {held[w] : w \in Workers})))
  /\ Answer("quit")
  /\ Handler /\ UNCHANGED <<cancel, playing, rows, owed, handling, signals>>

\* A flush or a write that fails raises out of the handler.
SaveFails ==
  /\ menu \in {"open", "flushed"}
  /\ menu' = "off" /\ phase' = "broken"
  /\ Handler
  /\ UNCHANGED <<vars, future, cancel, playing, rows, owed, handling, signals, ahead>>

-----------------------------------------------------------------------------
MainStep ==
  \/ BeginDirectory \/ WakeAnswered \/ WakeDone \/ Ended \/ LeaveDirectory

FuzzerStep ==
  \/ SetupDone \/ SetupRaises \/ GatherDone \/ GatherRaises \/ Drained

HandlerStep ==
  \/ ChooseContinue \/ ChooseNext \/ ChooseSkip \/ ChooseQuit
  \/ ChooseSave \/ SaveSession \/ SaveFails

AsyncNext ==
  \/ MainStep \/ WakeTimeout \/ FuzzerStep
  \/ \E w \in Workers : Task(w)
  \/ JobSaves \/ JobFails
  \/ Signal \/ HandlerStep

\* The loop runs every ready task and the executor every save; the user answers.
AsyncFairness ==
  /\ WF_asyncVars(MainStep) /\ WF_asyncVars(FuzzerStep)
  /\ \A w \in Workers : WF_asyncVars(Task(w))
  /\ WF_asyncVars(JobSaves \/ JobFails)
  /\ WF_asyncVars(HandlerStep)

AsyncSpec == AsyncInit /\ [][AsyncNext]_asyncVars /\ AsyncFairness

-----------------------------------------------------------------------------
\* "A saved session must never advance beyond durable report rows" (_export): with
\* coroutines it does not, even while the executor writes, because the path of a
\* row is released only after save_async returned.  What cancellation or an
\* exception released unprocessed is the exception.
AsyncCheckpoint == ~ahead

\* "checkpoints and reporter shutdown cannot race a late write" (save_async):
\* however often tasks are cancelled, no report save is in the executor once the
\* directory is left.
NoLateWrite == phase \in Leaving => job = NoJob

\* Every use that the coroutines make of the dictionary is one DictionaryClaims
\* allows, so what is proved of its callers holds of them.
ImplementsClaims == Spec

\* Every target is left, whatever is cancelled, raised, answered or paused.
AsyncEnds == <>(phase \in {"over", "broken"})

=============================================================================
