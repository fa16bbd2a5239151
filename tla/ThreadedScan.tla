---------------------------- MODULE ThreadedScan ----------------------------
(***************************************************************************)
(* One target scanned with threads: Controller.start, process,             *)
(* handle_pause and _export of lib/controller/controller.py on the main    *)
(* thread, composed with the worker threads of Fuzzer and the Dictionary.  *)
(*                                                                         *)
(* SIGINT may arrive between any two steps of the main thread; its handler *)
(* runs there, so the main thread stands still until it returns or raises, *)
(* while the workers go on until they are paused.                          *)
(*                                                                         *)
(* main is where Controller.start is:                                      *)
(*   next     `while self.directories`                                     *)
(*   setup, play, clear, launch    in Fuzzer.start                         *)
(*   process  in Controller.process                                        *)
(*   stop, join    in Fuzzer.stop, called from the finally clause          *)
(*   reset    stop returned True                                           *)
(*   unwind   an exception reached Controller.run                          *)
(*   over     the target is left                                           *)
(* handler is where handle_pause is:                                       *)
(*   off, pausing, acquiring (in Fuzzer.pause), menu (in input()),         *)
(*   state, dict (in SessionStore.save)                                    *)
(***************************************************************************)
EXTENDS Fuzzer

CONSTANTS
  Dirs, NoDir,      \* directories of the target
  Subdirs,          \* options["subdirs"]: where the target's scan begins
  Child,            \* Child[d][p]: the directory recursion finds at p in d
  Link,             \* Link[p]: a path that crawling the response to p yields
  CommitBatchSize,  \* options["sqlite_commit_batch_size"]
  MoreUrls,         \* len(options["urls"]) > 1
  Deadlines,        \* options["max_time"] or options["target_max_time"] is set
  Failures,         \* what requests and callbacks may raise
  MaxSignals        \* bound: signals the user sends

ASSUME ScanAssumption ==
  /\ NoDir \notin Dirs
  /\ Subdirs \in Seq(Dirs)
  /\ Child \in [Dirs -> [Paths -> Dirs \cup {NoDir}]]
  /\ Link \in [Paths -> Paths \cup {NoPath}]
  /\ CommitBatchSize \in Nat \ {0}
  /\ MoreUrls \in BOOLEAN
  /\ Deadlines \in BOOLEAN
  /\ Failures \subseteq Exceptions
  /\ MaxSignals \in Nat

VARIABLES
  main, pending, outcome,  \* pending: the exception on its way out of start
  directories, passed,     \* self.directories and self.passed_urls
  base,                    \* the directory Fuzzer.set_base_path was given
  handler, handling,       \* handling: self._handling_pause
  position,                \* the thread Fuzzer.pause has come to
  paused,                  \* what the last Fuzzer.pause returned
  uncommitted, durable,    \* report rows written, and committed
  snapshot,                \* the controller state SessionStore.save has read
  saved,                   \* the session file
  signals, timedOut        \* history: signals sent; some pause timed out

reportVars == <<uncommitted, durable>>
sessionVars == <<snapshot, saved>>
handlerVars == <<handler, handling, position, paused, signals, timedOut>>
mainVars == <<main, pending, outcome, directories, passed, base>>
vars == <<dictVars, fuzzerVars, mainVars, handlerVars, reportVars, sessionVars>>

NoSession ==
  [valid |-> FALSE, trusted |-> FALSE, state |-> [index |-> 0, extra |-> <<>>, extraIndex |-> 0],
   directories |-> <<>>, passed |-> {}, settled |-> {}]

\* add_directory has queued each of the distinct start directories.
Init ==
  /\ DictInit
  /\ FuzzerInit
  /\ main = "next" /\ pending = "none" /\ outcome = "running"
  /\ directories = Subdirs
  /\ passed = ToSet(Subdirs)
  /\ base = NoDir
  /\ handler = "off" /\ handling = FALSE /\ position = 1 /\ paused = FALSE
  /\ uncommitted = <<>> /\ durable = {}
  /\ snapshot = [directories |-> <<>>, passed |-> {}]
  /\ saved = NoSession
  /\ signals = 0 /\ timedOut = FALSE

-----------------------------------------------------------------------------
(* Reports: rows reach the file when their batch, a flush or finish commits *)

Row(path) == <<base, path>>

Commit == uncommitted' = <<>> /\ durable' = durable \cup ToSet(uncommitted)

SaveRow(row) ==
  IF Len(uncommitted) + 1 >= CommitBatchSize
    THEN /\ uncommitted' = <<>>
         /\ durable' = durable \cup ToSet(uncommitted) \cup {row}
    ELSE uncommitted' = Append(uncommitted, row) /\ UNCHANGED durable

-----------------------------------------------------------------------------
(* Worker threads: the callbacks of a scan                                 *)

add_directory(dir) ==
  IF dir = NoDir \/ dir \in passed
    THEN UNCHANGED <<directories, passed>>
    ELSE /\ directories' = Append(directories, dir)
         /\ passed' = passed \cup {dir}

\* A filtered response, or an error below the limit: nothing is recorded.
Miss(t) ==
  /\ pc[t] = "request"
  /\ MoveTo(t, "release")
  /\ UNCHANGED <<dictVars, mainVars, handlerVars, reportVars, sessionVars>>

\* skip_on_status, exit_on_error, too many errors, or an unforeseen exception.
RequestRaises(t) ==
  /\ pc[t] = "request"
  /\ \E kind \in Failures : ScanRaises(t, kind)
  /\ UNCHANGED <<dictVars, mainVars, handlerVars, reportVars, sessionVars>>

\* match_callback, first half: recursion.
Match(t) ==
  /\ pc[t] = "request"
  /\ add_directory(Child[base][held[t]])
  /\ MoveTo(t, "crawl")
  /\ UNCHANGED <<dictVars, main, pending, outcome, base, handlerVars, reportVars,
                 sessionVars>>

\* match_callback, second half: crawled links and backup names.
Crawl(t) ==
  /\ pc[t] = "crawl"
  /\ IF Link[held[t]] = NoPath THEN UNCHANGED dictVars ELSE add_extra(Link[held[t]])
  /\ MoveTo(t, "save")
  /\ UNCHANGED <<mainVars, handlerVars, reportVars, sessionVars>>

Report(t) ==
  /\ pc[t] = "save"
  /\ SaveRow(Row(held[t]))
  /\ MoveTo(t, "release")
  /\ UNCHANGED <<dictVars, mainVars, handlerVars, sessionVars>>

\* replay_request raises once recursion is queued, reporter.save once everything
\* is: the row is not written, or is in a transaction that did not commit.
CallbackRaises(t) ==
  /\ pc[t] \in {"crawl", "save"}
  /\ "error" \in Failures
  /\ ScanRaises(t, "error")
  /\ \/ UNCHANGED uncommitted
     \/ /\ pc[t] = "save" /\ Len(uncommitted) + 1 >= CommitBatchSize
        /\ uncommitted' = Append(uncommitted, Row(held[t]))
  /\ UNCHANGED <<dictVars, mainVars, handlerVars, durable, sessionVars>>

ThreadStep(t) ==
  /\ outcome \in {"running", "skipped"}
  /\ \/ Miss(t) \/ RequestRaises(t) \/ Match(t) \/ Crawl(t) \/ Report(t)
     \/ CallbackRaises(t)
     \/ /\ \/ ThreadClaim(t) \/ ThreadExhausted(t)
           \/ ThreadRelease(t) \/ ThreadReleaseFails(t) \/ ThreadRaise(t)
           \/ ThreadTail(t) \/ ThreadWait(t) \/ ThreadCheck(t)
        /\ UNCHANGED <<mainVars, handlerVars, reportVars, sessionVars>>

-----------------------------------------------------------------------------
(* The main thread, outside the signal handler                             *)

GoTo(where) == main' = where /\ UNCHANGED <<pending, outcome, directories, passed, base>>

\* An exception leaves the try block of Controller.start.
Leave(kind) ==
  /\ main' = "stop"
  /\ pending' = kind
  /\ UNCHANGED <<outcome, directories, passed, base>>

BeginDirectory ==
  /\ main = "next"
  /\ directories # <<>>
  /\ main' = "setup"
  /\ base' = Head(directories)
  /\ UNCHANGED <<pending, outcome, directories, passed, dictVars, fuzzerVars, reportVars>>

\* run() closes the reporter after the last target.
TargetDone ==
  /\ main = "next"
  /\ directories = <<>>
  /\ main' = "over" /\ outcome' = "completed"
  /\ IF MoreUrls THEN UNCHANGED reportVars ELSE Commit
  /\ UNCHANGED <<pending, directories, passed, base, dictVars, fuzzerVars>>

SetupDone ==
  /\ main = "setup"
  /\ setup_threads
  /\ GoTo("play")
  /\ UNCHANGED <<dictVars, reportVars>>

\* A calibration request of setup_scanners raised RequestException.
SetupRaises ==
  /\ main = "setup"
  /\ "skip" \in Failures
  /\ Leave("skip")
  /\ UNCHANGED <<dictVars, fuzzerVars, reportVars>>

StartPlay == main = "play" /\ SetPlay /\ GoTo("clear") /\ UNCHANGED <<dictVars, reportVars>>

StartClear == main = "clear" /\ ClearQuit /\ GoTo("launch") /\ UNCHANGED <<dictVars, reportVars>>

Launch ==
  /\ main = "launch"
  /\ \E t \in Threads : StartThread(t)
  /\ IF pc'[ThreadCount] = "new" THEN UNCHANGED mainVars ELSE GoTo("process")
  /\ UNCHANGED <<dictVars, reportVars>>

\* is_finished: no thread is alive; a recorded exception is raised.
Finished ==
  /\ main = "process"
  /\ NoneAlive
  /\ Leave(exc)
  /\ UNCHANGED <<dictVars, fuzzerVars, reportVars>>

DeadlinePassed ==
  /\ main = "process"
  /\ Deadlines
  /\ ~NoneAlive
  /\ \E kind \in {"quit", "skip"} : Leave(kind)
  /\ UNCHANGED <<dictVars, fuzzerVars, reportVars>>

StopIdle ==
  /\ main = "stop"
  /\ NoneAlive
  /\ GoTo("reset")
  /\ UNCHANGED <<dictVars, fuzzerVars, reportVars>>

StopWorkers ==
  /\ main = "stop"
  /\ ~NoneAlive
  /\ SetQuit
  /\ GoTo("join")
  /\ UNCHANGED <<dictVars, reportVars>>

\* stop that returns before its workers have ended.
Joined_early ==
  /\ main = "join"
  /\ GoTo("reset")
  /\ UNCHANGED <<dictVars, fuzzerVars, reportVars>>

Joined ==
  /\ main = "join"
  /\ NoneAlive
  /\ GoTo("reset")
  /\ UNCHANGED <<dictVars, fuzzerVars, reportVars>>

\* "Threaded scan did not stop safely": QuitInterrupt replaces what is pending.
JoinTimeout ==
  /\ main = "join"
  /\ ~NoneAlive
  /\ main' = "unwind" /\ pending' = "quit"
  /\ UNCHANGED <<outcome, directories, passed, base, dictVars, fuzzerVars, reportVars>>

\* The end of the finally clause, whether or not an exception is pending.
EndDirectory ==
  /\ main = "reset"
  /\ reset
  /\ directories' = Tail(directories)
  /\ main' = IF pending = "none" THEN "next" ELSE "unwind"
  /\ UNCHANGED <<pending, outcome, passed, base, fuzzerVars, reportVars>>

\* The except clauses of Controller.run.
SkipTarget ==
  /\ main = "unwind"
  /\ pending = "skip"
  /\ directories' = <<>>
  /\ reset
  /\ main' = "over" /\ outcome' = "skipped"
  /\ IF MoreUrls THEN UNCHANGED reportVars ELSE Commit
  /\ UNCHANGED <<pending, passed, base, fuzzerVars>>

Exit ==
  /\ main = "unwind"
  /\ pending \in {"quit", "error"}
  /\ Commit
  /\ main' = "over" /\ outcome' = IF pending = "quit" THEN "quit" ELSE "failed"
  /\ UNCHANGED <<pending, directories, passed, base, dictVars, fuzzerVars>>

OutsideHandler ==
  /\ handler = "off"
  /\ UNCHANGED <<handler, handling, position, paused, signals, timedOut, sessionVars>>

MainStep ==
  /\ OutsideHandler
  /\ \/ BeginDirectory \/ TargetDone \/ SetupDone \/ SetupRaises \/ StartPlay \/ StartClear
     \/ Launch \/ Finished \/ StopIdle \/ StopWorkers \/ Joined
     \/ JoinTimeout \/ EndDirectory \/ SkipTarget \/ Exit

Deadline == OutsideHandler /\ DeadlinePassed

-----------------------------------------------------------------------------
(* The signal handler, on the main thread                                  *)

\* handle_pause begins and Fuzzer.pause clears the play event.
Signal ==
  /\ handler = "off"
  /\ main \notin {"unwind", "over"}
  /\ ~handling
  /\ signals < MaxSignals
  /\ signals' = signals + 1
  /\ handling' = TRUE
  /\ ClearPlay
  /\ handler' = "pausing" /\ position' = 1
  /\ UNCHANGED <<paused, timedOut, mainVars, dictVars, reportVars, sessionVars>>

PauseReturns(value) == handler' = "menu" /\ paused' = value /\ UNCHANGED position

PauseCheck ==
  /\ handler = "pausing"
  /\ IF position > ThreadCount
       THEN PauseReturns(TRUE)
       ELSE /\ IF Alive(position)
                 THEN handler' = "acquiring" /\ UNCHANGED position
                 ELSE position' = position + 1 /\ UNCHANGED handler
            /\ UNCHANGED paused
  /\ UNCHANGED <<handling, signals, timedOut, mainVars, dictVars, fuzzerVars,
                 reportVars, sessionVars>>

PauseAcquire ==
  /\ handler = "acquiring"
  /\ AcquireToken
  /\ handler' = "pausing" /\ position' = position + 1
  /\ UNCHANGED <<handling, paused, signals, timedOut, mainVars, dictVars, reportVars,
                 sessionVars>>

PauseTimeout ==
  /\ handler = "acquiring"
  /\ sem = 0
  /\ PauseReturns(FALSE)
  /\ timedOut' = TRUE
  /\ UNCHANGED <<handling, signals, mainVars, dictVars, fuzzerVars, reportVars,
                 sessionVars>>

\* An exception of the handler surfaces where the main thread stood: in the
\* try block, or in the finally clause (or the loop test), which it leaves.
RaiseInMain(kind) ==
  /\ main' = IF main \in {"setup", "play", "clear", "launch", "process"}
               THEN "stop" ELSE "unwind"
  /\ pending' = kind
  /\ handler' = "off"
  /\ UNCHANGED <<outcome, directories, passed, base>>

ChooseContinue ==
  /\ handler = "menu"
  /\ handling' = FALSE
  /\ SetPlay
  /\ handler' = "off"
  /\ UNCHANGED <<position, paused, signals, timedOut, mainVars, dictVars, reportVars,
                 sessionVars>>

ChooseNext ==
  /\ handler = "menu"
  /\ Len(directories) > 1
  /\ handling' = FALSE
  /\ SetQuit
  /\ handler' = "off"
  /\ UNCHANGED <<position, paused, signals, timedOut, mainVars, dictVars, reportVars,
                 sessionVars>>

ChooseSkip ==
  /\ handler = "menu"
  /\ MoreUrls
  /\ handling' = FALSE
  /\ RaiseInMain("skip")
  /\ UNCHANGED <<position, paused, signals, timedOut, dictVars, fuzzerVars, reportVars,
                 sessionVars>>

ChooseQuit ==
  /\ handler = "menu"
  /\ RaiseInMain("quit")
  /\ UNCHANGED <<handling, position, paused, signals, timedOut, dictVars, fuzzerVars,
                 reportVars, sessionVars>>

\* _export that leaves the flush to the end of the scan.
ChooseSave_unflushed ==
  /\ handler = "menu"
  /\ handler' = "state"
  /\ UNCHANGED <<handling, position, paused, signals, timedOut, mainVars, dictVars,
                 fuzzerVars, reportVars, sessionVars>>

\* _export: the reports are flushed first.
ChooseSave ==
  /\ handler = "menu"
  /\ Commit
  /\ handler' = "state"
  /\ UNCHANGED <<handling, position, paused, signals, timedOut, mainVars, dictVars,
                 fuzzerVars, sessionVars>>

\* SessionStore.save reads the controller's state ...
SaveState ==
  /\ handler = "state"
  /\ snapshot' = [directories |-> directories, passed |-> passed]
  /\ handler' = "dict"
  /\ UNCHANGED <<handling, position, paused, signals, timedOut, mainVars, dictVars,
                 fuzzerVars, reportVars, saved>>

\* Reported rows that a scan resumed from `state` would not visit again.
Settled(state) ==
  {row \in durable \cup ToSet(uncommitted) :
     directories = <<>> \/ row[1] # Head(directories) \/ StateOutstanding(state, row[2]) = 0}

\* ... and then the dictionary's, and replaces the session file.
SaveDictionary ==
  /\ handler = "dict"
  /\ saved' = [valid |-> TRUE, trusted |-> paused /\ ~timedOut /\ exc = "none", state |-> getstate,
               directories |-> snapshot.directories, passed |-> snapshot.passed,
               settled |-> Settled(getstate)]
  /\ RaiseInMain("quit")
  /\ UNCHANGED <<handling, position, paused, signals, timedOut, dictVars, fuzzerVars,
                 reportVars, snapshot>>

\* The flush or the write of the session file failed: the exception leaves the
\* handler, which goes on ignoring signals.
SaveFails ==
  /\ handler \in {"menu", "dict"}
  /\ "error" \in Failures
  /\ RaiseInMain("error")
  /\ UNCHANGED <<handling, position, paused, signals, timedOut, dictVars, fuzzerVars,
                 reportVars, sessionVars>>

HandlerStep ==
  \/ PauseCheck \/ PauseAcquire \/ PauseTimeout
  \/ ChooseContinue \/ ChooseNext \/ ChooseSkip \/ ChooseQuit
  \/ ChooseSave \/ SaveState \/ SaveDictionary \/ SaveFails

-----------------------------------------------------------------------------

Over == main = "over" /\ UNCHANGED vars

Next ==
  \/ \E t \in Threads : ThreadStep(t)
  \/ MainStep
  \/ Deadline
  \/ Signal
  \/ HandlerStep
  \/ Over

Spec == Init /\ [][Next]_vars

\* Requests and joins end (they have timeouts), the operating system runs every
\* thread, and the user answers the menu.  No deadline has to pass.
FairSpec ==
  /\ Spec
  /\ \A t \in Threads : WF_vars(ThreadStep(t))
  /\ WF_vars(MainStep)
  /\ WF_vars(HandlerStep)

-----------------------------------------------------------------------------
(* Properties                                                              *)

\* Fuzzer.pause: "Returns True if all threads paused successfully".  No thread
\* touches the dictionary, the reports or the directories while the menu of a
\* successful pause is shown.
PauseAck ==
  paused /\ handler \in {"menu", "state", "dict"} =>
    \A t \in Threads : pc[t] \notin Working

\* That is so as long as no pause has given up on a thread (one that announces
\* itself later leaves a token for the next pause) and no scan has raised an
\* exception (which ends the threads that had announced themselves).
PauseTrusted == paused /\ ~timedOut /\ exc = "none"
PauseSound == PauseTrusted => PauseAck

\* Every directory that recursion found at a path the session will not visit
\* again is a directory the session knows.
CheckpointDirectories ==
  saved.valid =>
    \A row \in saved.settled :
      Child[row[1]][row[2]] \in saved.passed \cup {NoDir}

\* "A saved session must never advance beyond durable report rows."
CheckpointDurable == saved.valid => saved.settled \subseteq durable

\* A session saved from a sound pause is consistent: its three parts, read one
\* after the other, belong to one moment of the scan.
CheckpointSound ==
  saved.valid /\ saved.trusted => CheckpointDirectories /\ CheckpointDurable

\* Every thread finds its path among the claims when it comes to release it,
\* as long as the controller has not left the target to another.
ClaimsIntact ==
  outcome = "running" =>
    \A t \in Threads : held[t] # NoPath => held[t] \in ToSet(claimed)

\* A directory whose threads ended on their own was scanned in full, however
\* late a thread discovered a path that others had stopped waiting for.
DrainedAtFinish ==
  main = "stop" /\ pending = "none" /\ ~quit => Exhausted /\ claimed = <<>>

\* However signals, timeouts and exceptions fall, the target is left, without
\* help from --max-time or --target-max-time.
ScanEnds == <>(main = "over")

-----------------------------------------------------------------------------
(* The inductive strengthening of the properties                           *)

Quiet == {"acked", "parked"}
Holding == {"request", "crawl", "save", "release"}
InMenu == {"menu", "state", "dict"}

TypeOK ==
  /\ DictTypeOK
  /\ pc \in [Threads -> Working \cup Quiet \cup {"new", "check", "dead"}]
  /\ held \in [Threads -> Paths \cup {NoPath}]
  /\ raised \in [Threads -> Exceptions \cup {"none"}]
  /\ leaving \in SUBSET Threads
  /\ exc \in Exceptions \cup {"none"}
  /\ play \in BOOLEAN /\ quit \in BOOLEAN /\ sem \in Nat
  /\ main \in {"next", "setup", "play", "clear", "launch", "process", "stop", "join",
               "reset", "unwind", "over"}
  /\ pending \in Exceptions \cup {"none"}
  /\ outcome \in {"running", "completed", "skipped", "quit", "failed"}
  /\ directories \in Seq(Dirs) /\ passed \in SUBSET Dirs /\ base \in Dirs \cup {NoDir}
  /\ handler \in InMenu \cup {"off", "pausing", "acquiring"}
  /\ handling \in BOOLEAN /\ paused \in BOOLEAN /\ timedOut \in BOOLEAN
  /\ position \in 1 .. ThreadCount + 1
  /\ signals \in Nat
  /\ uncommitted \in Seq(Dirs \X Paths) /\ durable \in SUBSET (Dirs \X Paths)

\* Where the threads can be, by where Controller.start is: they run only between
\* their launch and the end of Fuzzer.stop, or once the target has been left.
Placement ==
  /\ main \in {"next", "setup", "reset"} => NoneAlive
  /\ main \in {"play", "clear"} => \A t \in Threads : pc[t] = "new" /\ t \notin leaving
  /\ main = "launch" => pc[ThreadCount] = "new"
  /\ main = "process" => \A t \in Threads : pc[t] # "new"
  /\ main \in {"next", "setup", "play", "clear", "launch", "process"} => pending = "none"
  /\ main = "over" <=> outcome # "running"
  /\ main \notin {"next", "unwind", "over"} => directories # <<>> /\ base \in Dirs
  /\ base \in Dirs \/ NoneAlive
  /\ handler # "off" => main \notin {"unwind", "over"}
  /\ handler = "acquiring" => position <= ThreadCount

\* What a thread's place says of its claim, its exception and its leaving.
ThreadState ==
  \A t \in Threads :
    /\ held[t] # NoPath <=> pc[t] \in Holding
    /\ pc[t] = "raise" => raised[t] # "none"
    /\ t \in leaving => pc[t] \in Quiet \cup {"tail", "check", "dead"}

\* The claims are what the threads hold, until the target is left.
ClaimsHeld ==
  /\ nativeClaim = NoClaim
  /\ outcome = "running" =>
       \A p \in Paths :
         Occurrences(claimed, p) = Cardinality({t \in Threads : held[t] = p})

\* A thread that ends by itself leaves work only to a thread that will look for
\* work again.
Draining ==
  /\ main \in {"launch", "process"} /\ ~quit =>
       /\ \A t \in Threads : pc[t] = "dead" => t \in leaving
       /\ Exhausted \/ leaving # Threads
  /\ main = "stop" /\ pending = "none" =>
       NoneAlive /\ (~quit => Exhausted /\ claimed = <<>>)

\* Announcements are counted: those not yet acquired, and one for each live
\* thread Fuzzer.pause has passed, come from threads that have stopped.
NoneWorking == \A t \in Threads : pc[t] \notin Working \cup {"check"}
Announced ==
  /\ main \in {"clear", "launch"} /\ handler = "off" => play
  /\ ~timedOut /\ exc = "none" =>
       /\ handler # "off" => ~play
       /\ handler \in {"pausing", "acquiring"} =>
            sem + Cardinality({t \in Threads : t < position /\ Alive(t)})
              <= Cardinality({t \in Threads : pc[t] \in Quiet})
       /\ handler \in InMenu => sem = 0 /\ NoneWorking
       /\ handler = "off" => sem = 0 /\ (play \/ NoneWorking)

\* A row is written only after its directory is queued; a session that is being
\* saved from a sound pause has flushed the rows and read the directories.
RowsKnown ==
  /\ \A row \in durable \cup ToSet(uncommitted) :
       Child[row[1]][row[2]] \in passed \cup {NoDir}
  /\ \A t \in Threads :
       pc[t] \in {"crawl", "save"} => Child[base][held[t]] \in passed \cup {NoDir}
  /\ ~timedOut /\ exc = "none" =>
       /\ handler \in {"state", "dict"} => uncommitted = <<>>
       /\ handler = "dict" => snapshot.passed = passed

IInv ==
  /\ TypeOK /\ Placement /\ ThreadState /\ ClaimsHeld /\ Draining /\ Announced
  /\ RowsKnown /\ CheckpointSound

=============================================================================
