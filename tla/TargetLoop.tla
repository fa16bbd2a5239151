----------------------------- MODULE TargetLoop -----------------------------
(***************************************************************************)
(* A scan of several targets over several processes: Controller.__init__,  *)
(* setup, _import, run, start, the error limit, the pause menu and force   *)
(* quit, with sessions saved, resumed, deleted and interrupted.            *)
(*                                                                         *)
(* A directory's scan is one request after another here; what concurrent   *)
(* workers do within it is the business of ThreadedScan, NativeScan and    *)
(* AsyncScan.  phase is where the main thread is:                          *)
(*   off                                 no process                        *)
(*   boot                                before the first target           *)
(*   targets, queue, prepare, crawl      in Controller.run                 *)
(*   dirs, scan, reset, pop              in Controller.start               *)
(*   unwind                              start's finally, on an exception  *)
(*   clear, clearReset, shift            run's except and finally clauses  *)
(*   completed, delete                   after the last target             *)
(*   exit                                the process ends                  *)
(* menu is where the signal handler is: off, open, saving to saveTo, or    *)
(* migrating: removing the files that the new checkpoint supersedes.       *)
(***************************************************************************)
EXTENDS SessionStore, Naturals

CONSTANTS
  Targets,     \* options["urls"]
  Subdirs,     \* options["subdirs"]
  Found,       \* directories that recursion may find
  Refused,     \* directories excluded by the user or too deep
  Words,       \* number of entries of the wordlist
  MaxErrors,   \* MAX_CONSECUTIVE_REQUEST_ERRORS
  Threshold,   \* 1 as StandardForceQuitHandler, SIGINT_FORCE_QUIT_THRESHOLD in PyInstaller builds
  MaxSignals, MaxProcesses  \* bounds

ASSUME LoopAssumption ==
  /\ Words \in Nat \ {0} /\ MaxErrors \in Nat /\ Threshold \in Nat \ {0}
  /\ MaxSignals \in Nat /\ MaxProcesses \in Nat
  /\ Targets \in Seq(ToSet(Targets)) /\ Subdirs \in Seq(ToSet(Subdirs))

VARIABLES
  phase, menu, saveTo,
  ctl,           \* what a session saves of the controller, the options and the dictionary
  hist,          \* histories that travel with a session
  subdirsLeft,   \* start directories that the loop in run has yet to queue
  blacklists,    \* the blacklist files have been read
  sessionFile,   \* options["session_file"]
  sigints,       \* PyInstallerLinuxForceQuitHandler._sigint_count
  signals, processes,   \* signals sent and processes started, for the bounds
  redone,        \* history: a request that the scan had recorded was repeated
  misjudged      \* history: the error limit was not what decided about a target

runVars == <<subdirsLeft, blacklists, sessionFile>>
handlerVars == <<menu, saveTo, sigints, signals>>
vars == <<phase, ctl, hist, runVars, handlerVars, storeVars, processes, redone, misjudged>>

NoFile == "none"

Fresh == [urls |-> Targets, directories |-> <<>>, passed |-> {}, index |-> 0,
          consecutive |-> 0]

\* done: requests sent; waived: directories given up; streak: failures of the
\* current target since it last answered anything; spoke: that answer was to a
\* request for a word; gap: the session was saved where the code does not keep
\* its place.
NoHistory == [done |-> {}, waived |-> {}, streak |-> 0, spoke |-> FALSE, gap |-> FALSE]

\* What the saved values range over.
Dirs == ToSet(Subdirs) \cup Found
Controls ==
  [urls : Seq(ToSet(Targets)), directories : Seq(Dirs),
   passed : SUBSET (ToSet(Targets) \X Dirs), index : 0..Words, consecutive : Nat]
Histories ==
  [done : SUBSET (ToSet(Targets) \X Dirs \X (1..Words)),
   waived : SUBSET (ToSet(Targets) \X Dirs), streak : Nat, spoke : BOOLEAN, gap : BOOLEAN]
Payloads == [ctl : Controls, hist : Histories]

\* What an earlier release saved before its first request.
Legacy == [ctl |-> Fresh, hist |-> NoHistory]

ASSUME SessionAssumption == LegacySession = Legacy /\ NoSession \notin Payloads

Init ==
  /\ StoreInit
  /\ phase = "off" /\ menu = "off" /\ saveTo = NoFile
  /\ ctl = Fresh /\ hist = NoHistory
  /\ subdirsLeft = <<>> /\ blacklists = FALSE /\ sessionFile = NoFile
  /\ sigints = 0 /\ signals = 0 /\ processes = 0
  /\ redone = FALSE /\ misjudged = FALSE

Url == Head(ctl.urls)
Directory == Head(ctl.directories)

-----------------------------------------------------------------------------
(* A process begins                                                        *)

Start ==
  /\ phase = "off"
  /\ processes < MaxProcesses
  /\ processes' = processes + 1
  /\ phase' = "boot"
  /\ UNCHANGED <<handlerVars, subdirsLeft, storeVars, redone, misjudged>>

setup ==
  /\ Start
  /\ \A s \in Stores : store[s].checkpoint = NoSession  \* a bound: sessions are resumed
  /\ ctl' = Fresh /\ hist' = NoHistory
  /\ blacklists' = TRUE /\ sessionFile' = NoFile

\* A resume that forgets which directories have been queued before.
import_unpassed(s) ==
  /\ Start
  /\ load(s) # NoSession
  /\ ctl' = [load(s).ctl EXCEPT !.passed = {}] /\ hist' = load(s).hist
  /\ blacklists' = FALSE
  /\ sessionFile' \in {s, NoFile}

\* _import: the user resumes s and chooses whether the next save replaces it.
import(s) ==
  /\ Start
  /\ load(s) # NoSession
  /\ ctl' = load(s).ctl /\ hist' = load(s).hist
  /\ blacklists' = FALSE
  /\ sessionFile' \in {s, NoFile}

-----------------------------------------------------------------------------
(* Controller.run up to start                                              *)

\* A step of the main thread from one phase to another.
Main(from, to) ==
  /\ phase = from /\ menu = "off"
  /\ phase' = to
  /\ UNCHANGED <<handlerVars, processes>>

LeaveAlone == UNCHANGED <<blacklists, sessionFile, storeVars, redone, misjudged>>

\* set_target refuses the URL, or accepts it; the loop over subdirs runs only if
\* no session brought directories along.
NextTarget ==
  /\ \E from \in {"boot", "targets"} :
       \/ ctl.urls # <<>> /\ Main(from, "queue")
          /\ subdirsLeft' = IF ctl.directories = <<>> THEN Subdirs ELSE <<>>
       \/ ctl.urls # <<>> /\ Main(from, "clear") /\ subdirsLeft' = <<>>
       \/ ctl.urls = <<>> /\ Main(from, "completed") /\ subdirsLeft' = <<>>
  /\ LeaveAlone /\ UNCHANGED <<ctl, hist>>

\* The directories and the passed URLs after add_directory, in a state c.
add_directory(c, dir) ==
  IF dir \in Refused \/ <<Head(c.urls), dir>> \in c.passed
    THEN c
    ELSE [c EXCEPT !.directories = Append(@, dir),
                   !.passed = @ \cup {<<Head(c.urls), dir>>}]

QueueSubdir ==
  /\ subdirsLeft # <<>>
  /\ Main("queue", "queue")
  /\ ctl' = add_directory(ctl, Head(subdirsLeft))
  /\ subdirsLeft' = Tail(subdirsLeft)
  /\ LeaveAlone /\ UNCHANGED hist

QueueDone ==
  /\ subdirsLeft = <<>>
  /\ Main("queue", "prepare")
  /\ LeaveAlone /\ UNCHANGED <<ctl, hist, subdirsLeft>>

\* reporter.prepare opens the report files of the target, or refuses to.
Prepare ==
  /\ Main("prepare", "crawl") \/ Main("prepare", "clear")
  /\ LeaveAlone /\ UNCHANGED <<ctl, hist, subdirsLeft>>

\* raise_error: what one failed request leaves, and whether it ends the target.
Counted(c) == [c EXCEPT !.consecutive = @ + 1]
TooMany(c) == Counted(c).consecutive > MaxErrors

\* The target's own record: an answer to no word or a new target, a failure, and
\* what is wrong with a decision on it.
Unspoken(h) == [h EXCEPT !.streak = 0, !.spoke = FALSE]
Missed(h) == [h EXCEPT !.streak = @ + 1]
Misjudges(givesUp, h) ==
  \/ givesUp /\ h.spoke /\ h.streak <= MaxErrors
  \/ ~givesUp /\ h.streak > MaxErrors

\* crawl_target: an answer does not reset the count.
CrawlTarget ==
  /\ \/ /\ Main("crawl", "dirs")
        /\ \/ UNCHANGED hist           \* not asked for
           \/ hist' = Unspoken(hist)   \* answered
        /\ UNCHANGED <<ctl, misjudged>>
     \/ /\ Main("crawl", IF TooMany(ctl) THEN "clear" ELSE "dirs")
        /\ ctl' = Counted(ctl)
        /\ hist' = Missed(hist)
        /\ misjudged' = (misjudged \/ Misjudges(TooMany(ctl), hist'))
  /\ UNCHANGED <<runVars, storeVars, redone>>

-----------------------------------------------------------------------------
(* Controller.start                                                        *)

BeginDirectory ==
  /\ IF ctl.directories = <<>> THEN Main("dirs", "shift") ELSE Main("dirs", "scan")
  /\ LeaveAlone /\ UNCHANGED <<ctl, hist, subdirsLeft>>

\* The request for the next word, recorded as sent.
Sent == <<Url, Directory, ctl.index + 1>>

\* A callback list without reset_consecutive_errors.
reset_consecutive_errors_missing(c) == c

reset_consecutive_errors(c) == [c EXCEPT !.consecutive = 0]

\* A response: recursion may queue a directory, reset_consecutive_errors runs last.
Answered ==
  /\ ctl.index < Words
  /\ Main("scan", "scan")
  /\ \E c \in {ctl} \cup {add_directory(ctl, dir) : dir \in Found} :
       ctl' = [reset_consecutive_errors(c) EXCEPT !.index = @ + 1]
  /\ hist' = [hist EXCEPT !.done = @ \cup {Sent}, !.streak = 0, !.spoke = TRUE]
  /\ redone' = (redone \/ Sent \in hist.done)
  /\ UNCHANGED <<runVars, storeVars, misjudged>>

Failed ==
  /\ ctl.index < Words
  /\ Main("scan", IF TooMany(ctl) THEN "unwind" ELSE "scan")
  /\ ctl' = [Counted(ctl) EXCEPT !.index = @ + 1]
  /\ hist' = [Missed(hist) EXCEPT !.done = @ \cup {Sent}]
  /\ redone' = (redone \/ Sent \in hist.done)
  /\ misjudged' = (misjudged \/ Misjudges(TooMany(ctl), hist'))
  /\ UNCHANGED <<runVars, storeVars>>

\* target_max_time, skip_on_status; max_time and exit_on_error end the process.
Interrupted ==
  /\ Main("scan", "unwind") \/ Main("scan", "exit")
  /\ LeaveAlone /\ UNCHANGED <<ctl, hist, subdirsLeft>>

ScanDone ==
  /\ ctl.index = Words
  /\ Main("scan", "reset")
  /\ LeaveAlone /\ UNCHANGED <<ctl, hist, subdirsLeft>>

Reset(c) == [c EXCEPT !.index = 0]
Pop(c) == [c EXCEPT !.directories = Tail(@)]

\* The finally clause of start, on its way to the next directory.
ResetDictionary ==
  /\ Main("reset", "pop")
  /\ ctl' = Reset(ctl)
  /\ LeaveAlone /\ UNCHANGED <<hist, subdirsLeft>>

PopDirectory ==
  /\ Main("pop", "dirs")
  /\ ctl' = Pop(ctl)
  /\ LeaveAlone /\ UNCHANGED <<hist, subdirsLeft>>

\* The same clause under an exception that run handles.
Unwind ==
  /\ Main("unwind", "clear")
  /\ ctl' = Pop(Reset(ctl))
  /\ hist' = [hist EXCEPT !.waived = @ \cup {<<Url, Directory>>}]
  /\ LeaveAlone /\ UNCHANGED subdirsLeft

-----------------------------------------------------------------------------
(* The except and finally clauses of run, and what follows the last target *)

ClearDirectories ==
  /\ Main("clear", "clearReset")
  /\ ctl' = [ctl EXCEPT !.directories = <<>>]
  /\ hist' = [hist EXCEPT !.waived = @ \cup ({Url} \X Dirs)]
  /\ LeaveAlone /\ UNCHANGED subdirsLeft

\* A run that skips a target without resetting the dictionary.
ClearReset_missing ==
  /\ Main("clearReset", "shift")
  /\ LeaveAlone /\ UNCHANGED <<ctl, hist, subdirsLeft>>

ClearReset ==
  /\ Main("clearReset", "shift")
  /\ ctl' = Reset(ctl)
  /\ LeaveAlone /\ UNCHANGED <<hist, subdirsLeft>>

PopUrl ==
  /\ Main("shift", "targets")
  /\ ctl' = [ctl EXCEPT !.urls = Tail(@)]
  /\ hist' = Unspoken(hist)
  /\ LeaveAlone /\ UNCHANGED subdirsLeft

\* Task Completed; the resumed session is no longer needed.
Completed ==
  /\ \/ sessionFile = NoFile /\ Main("completed", "exit") /\ UNCHANGED storeVars
     \/ sessionFile # NoFile /\ Main("completed", "delete") /\ delete(sessionFile)
  /\ UNCHANGED <<ctl, hist, runVars, redone, misjudged>>

\* An OSError ends the deletion with a message.
DeleteSession ==
  /\ \/ Main("delete", "delete") /\ RemoveFile(sessionFile)
     \/ Main("delete", "exit") /\ UNCHANGED storeVars
  /\ UNCHANGED <<ctl, hist, runVars, redone, misjudged>>

\* Of a process that has ended only its files remain.
Gone ==
  /\ phase' = "off" /\ menu' = "off" /\ saveTo' = NoFile /\ sigints' = 0
  /\ ctl' = Fresh /\ hist' = NoHistory
  /\ subdirsLeft' = <<>> /\ blacklists' = FALSE /\ sessionFile' = NoFile
  /\ removing' = <<>> /\ redone' = FALSE /\ misjudged' = FALSE
  /\ UNCHANGED <<store, newest, doomed, signals, processes>>

\* The finally clauses of __init__.
Exit == phase = "exit" /\ Gone

\* An exception that nothing handles, or a kill.
Crash == phase # "off" /\ Gone

-----------------------------------------------------------------------------
(* The signal handler, which runs on the main thread                       *)

Handler ==
  UNCHANGED <<ctl, hist, runVars, processes, redone, misjudged>>

\* handle_pause; on_pause_start counts the first signal.
Signal ==
  /\ phase \notin {"off", "boot", "exit"} /\ menu = "off"
  /\ signals < MaxSignals
  /\ signals' = signals + 1
  /\ menu' = "open" /\ sigints' = 1
  /\ Handler /\ UNCHANGED <<phase, saveTo, storeVars>>

\* check_force_quit: within the window or after it.
SignalAgain ==
  /\ menu # "off"
  /\ signals < MaxSignals
  /\ signals' = signals + 1
  /\ sigints' \in {sigints + 1, 1}
  /\ IF sigints' >= Threshold THEN phase' = "exit" /\ menu' = "off" ELSE UNCHANGED <<phase, menu>>
  /\ Handler /\ UNCHANGED <<saveTo, storeVars>>

Choose(to) ==
  /\ menu = "open"
  /\ menu' = "off" /\ sigints' = 0
  /\ phase' = to
  /\ UNCHANGED <<saveTo, signals, storeVars, runVars, ctl, processes, redone, misjudged>>

ChooseContinue == Choose(phase) /\ UNCHANGED hist

\* fuzzer.quit stops the directory that is being scanned; elsewhere nothing hears it.
ChooseNext ==
  /\ Len(ctl.directories) > 1
  /\ \/ phase = "scan" /\ Choose("reset")
        /\ hist' = [hist EXCEPT !.waived = @ \cup {<<Url, Directory>>}]
     \/ phase # "scan" /\ Choose(phase) /\ UNCHANGED hist

\* Where an exception raised by the handler leaves the main thread.
Raised ==
  CASE phase \in {"scan", "unwind"} -> "unwind"
    [] phase = "dirs" -> IF ctl.directories = <<>> THEN "clear" ELSE "unwind"
    [] phase \in {"queue", "prepare", "crawl", "reset", "pop"} -> "clear"
    [] OTHER -> "exit"

ChooseSkip ==
  /\ Len(ctl.urls) > 1
  /\ Choose(Raised) /\ UNCHANGED hist

ChooseQuit == Choose("exit") /\ UNCHANGED hist

ChooseSave(s) ==
  /\ menu = "open"
  /\ menu' = "saving" /\ saveTo' = s
  /\ Handler /\ UNCHANGED <<phase, sigints, signals, storeVars>>

\* A session saved here does not keep its place: the loop over subdirs is not
\* taken up again, the finished directory is still first, the exception that run
\* handles is forgotten, or the next target begins in the middle of the wordlist.
Gap ==
  \/ phase = "queue" /\ ctl.directories # <<>> /\ subdirsLeft # <<>>
  \/ phase \in {"pop", "clear"}
  \/ phase = "clearReset" /\ ctl.index > 0

\* Everything save serialises.
Payload == [ctl |-> ctl, hist |-> [hist EXCEPT !.gap = @ \/ Gap]]

SaveCheckpoint ==
  /\ menu = "saving"
  /\ WriteCheckpoint(saveTo, Payload)
  /\ menu' = "migrating"
  /\ Handler /\ UNCHANGED <<phase, saveTo, sigints, signals>>

\* After the last file the handler raises QuitInterrupt, which also abandons a
\* deletion it interrupted; any failure before ends the process as well.
SaveRemove ==
  /\ menu = "migrating"
  /\ RemoveFile(saveTo)
  /\ IF Len(removing) = 1 THEN phase' = "exit" /\ menu' = "off" ELSE UNCHANGED <<phase, menu>>
  /\ Handler /\ UNCHANGED <<saveTo, sigints, signals>>

-----------------------------------------------------------------------------
MainStep ==
  \/ NextTarget \/ QueueSubdir \/ QueueDone \/ Prepare \/ CrawlTarget
  \/ BeginDirectory \/ Answered \/ Failed \/ Interrupted \/ ScanDone
  \/ ResetDictionary \/ PopDirectory \/ Unwind
  \/ ClearDirectories \/ ClearReset \/ PopUrl \/ Completed \/ DeleteSession \/ Exit

HandlerStep ==
  \/ ChooseContinue \/ ChooseNext \/ ChooseSkip \/ ChooseQuit
  \/ SaveCheckpoint \/ SaveRemove
  \/ \E s \in Stores : ChooseSave(s)

Next ==
  \/ setup \/ \E s \in Stores : import(s)
  \/ MainStep \/ HandlerStep
  \/ Signal \/ SignalAgain \/ Crash

Spec == Init /\ [][Next]_vars

-----------------------------------------------------------------------------
\* When the task is completed, however many processes it took, every start
\* directory and every directory that recursion queued has been requested word
\* for word, unless the user or an error gave it up (run, start, add_directory,
\* SessionStore.save and apply_to_controller).
NothingLost ==
  phase = "completed" /\ ~hist.gap =>
    \A t \in ToSet(Targets), d \in Dirs \ Refused :
      (d \in ToSet(Subdirs) \/ <<t, d>> \in ctl.passed) /\ <<t, d>> \notin hist.waived
        => \A w \in 1..Words : <<t, d, w>> \in hist.done

\* No request is sent twice, within a process or after a resume.
NothingRepeated == hist.gap \/ ~redone

\* Whatever was interrupted, a session directory holds what was saved last or,
\* once its deletion has begun, nothing that can be loaded; what is listed can be
\* loaded (SessionStore.save, delete, load, _summarize_session_dir).
SessionSound ==
  \A s \in Stores :
    /\ load(s) = newest[s] \/ (s \in doomed /\ load(s) = NoSession)
    /\ listed(s) => load(s) # NoSession

\* Whatever targets and sessions came before, the controller's one counter
\* decides about a target by that target's own requests: once more than MaxErrors
\* of them have failed since it last answered, it is given up ("Too many request
\* errors") at that failure; and one that has answered a request for a word is
\* not given up before more than MaxErrors have failed since (raise_error,
\* reset_consecutive_errors, crawl_target, SessionStore.save and
\* apply_to_controller).  Until its first such answer a target also pays for what
\* failed before it, as crawl_target's answers and a new target reset nothing.
ErrorsEarned == ~misjudged

\* The filter by blacklists is in force whenever requests are sent.
BlacklistsApplied == phase = "scan" => blacklists

-----------------------------------------------------------------------------
(* The inductive strengthening of the invariants above                     *)

Begun == {"queue", "prepare", "crawl", "dirs", "scan", "reset", "pop", "unwind",
          "clear", "clearReset", "shift"}
Scanning == {"scan", "reset", "pop", "unwind"}
Between == {"targets", "clearReset", "shift", "completed", "delete"}
Absent == {"off", "boot", "exit"}

TypeOK ==
  /\ phase \in Begun \cup Between \cup Absent
  /\ menu \in {"off", "open", "saving", "migrating"}
  /\ ctl \in Controls /\ hist \in Histories
  /\ subdirsLeft \in Seq(ToSet(Subdirs))
  /\ sessionFile \in Stores \cup {NoFile}
  /\ saveTo \in Stores \cup {NoFile}
  /\ redone \in BOOLEAN /\ misjudged \in BOOLEAN
  /\ store \in [Stores -> [checkpoint : Payloads \cup {NoSession},
                          legacy : SUBSET ToSet(FILES)]]
  /\ newest \in [Stores -> Payloads \cup {NoSession}]
  /\ doomed \subseteq Stores

\* What is queued at a step of the main thread, in memory and in a session.
Located ==
  /\ phase \in Begun => ctl.urls # <<>>
  /\ phase \in Scanning => ctl.directories # <<>>
  /\ phase \in Between => ctl.directories = <<>>
  /\ phase \in {"completed", "delete"} => ctl.urls = <<>>
  /\ menu # "off" => phase \notin Absent
  /\ menu \in {"saving", "migrating"} => saveTo \in Stores
  /\ ctl.directories # <<>> => ctl.urls # <<>>
  /\ \A s \in Stores : store[s].checkpoint # NoSession =>
       (store[s].checkpoint.ctl.directories # <<>> => store[s].checkpoint.ctl.urls # <<>>)

\* How far a save or a deletion has come with the files of its session.
Removing ==
  /\ menu = "migrating" =>
       /\ store[saveTo].checkpoint # NoSession
       /\ \E k \in 1..4 : removing = SubSeq(FILES, k, 4)
  /\ phase = "delete" /\ menu # "migrating" =>
       /\ sessionFile \in doomed
       /\ \E k \in 1..6 :
            /\ removing = SubSeq(Append(FILES, "checkpoint"), k, 5)
            /\ k > 1 => "meta" \notin store[sessionFile].legacy

\* What is on disk, by whether there is a checkpoint.
Kept ==
  \A s \in Stores :
    /\ store[s].checkpoint # NoSession => newest[s] = store[s].checkpoint
    /\ store[s].checkpoint = NoSession =>
         \/ store[s].legacy = ToSet(FILES) /\ newest[s] = LegacySession
         \/ "meta" \notin store[s].legacy /\ (s \in doomed \/ newest[s] = NoSession)

\* The counter has every failure of the target's streak, and no other one once
\* the target has answered a request for a word.
Tallied(c, h) ==
  /\ h.streak <= c.consecutive
  /\ h.spoke => c.consecutive <= h.streak

Counting ==
  /\ Tallied(ctl, hist)
  /\ \A s \in Stores : store[s].checkpoint # NoSession =>
       Tallied(store[s].checkpoint.ctl, store[s].checkpoint.hist)

\* The queued directories are distinct, and passed by the current target.
Queued(c) ==
  /\ IsInjective(c.directories)
  /\ \A d \in ToSet(c.directories) : <<Head(c.urls), d>> \in c.passed

\* Only passed directories have requests; of the queued ones only the first,
\* and none beyond word `last`.
Recorded(c, h, last) ==
  \A t \in ToSet(Targets), d \in Dirs, w \in 1..Words : <<t, d, w>> \in h.done =>
    /\ <<t, d>> \in c.passed
    /\ d \in ToSet(c.directories) /\ t = Head(c.urls) =>
         d = Head(c.directories) /\ w <= last

\* The words before the saved index have been requested.
Progress(c, h) ==
  c.directories # <<>> =>
    \A w \in 1..c.index : <<Head(c.urls), Head(c.directories), w>> \in h.done

Complete(h, t, d) == \A w \in 1..Words : <<t, d, w>> \in h.done

\* What is to be scanned has been, has been given up, is queued, or is to be
\* queued: by a later target, or by this one if the directory is among `ahead`.
Covered(c, h, ahead) ==
  \A t \in ToSet(Targets), d \in Dirs \ Refused :
    d \in ToSet(Subdirs) \/ <<t, d>> \in c.passed =>
      \/ <<t, d>> \in h.waived
      \/ Complete(h, t, d)
      \/ d \in ToSet(c.directories) /\ t = Head(c.urls)
      \/ /\ <<t, d>> \notin c.passed /\ c.urls # <<>>
         /\ t \in ToSet(Tail(c.urls)) \/ (t = Head(c.urls) /\ d \in ahead)

\* What run queues for the first target of a process.
Unqueued(c) == IF c.directories = <<>> THEN Dirs ELSE {}

\* What the next process finds in a session that kept its place.
Resumable(c, h) ==
  /\ Queued(c) /\ Progress(c, h) /\ Recorded(c, h, c.index)
  /\ Covered(c, h, Unqueued(c))
  /\ c.directories = <<>> => c.index = 0

\* The same in memory, step by step of the main thread.
Ahead ==
  CASE phase \in {"boot", "targets"} -> Unqueued(ctl)
    [] phase = "queue"               -> ToSet(subdirsLeft)
    [] phase = "clear"               -> Dirs
    [] OTHER                         -> {}

Placed ==
  /\ Queued(ctl) /\ Progress(ctl, hist)
  /\ Recorded(ctl, hist, IF phase \in {"pop", "clear"} THEN Words ELSE ctl.index)
  /\ Covered(ctl, hist, Ahead)
  /\ ctl.directories = <<>> /\ phase # "clearReset" => ctl.index = 0
  /\ phase = "reset" => ctl.index = Words \/ <<Url, Directory>> \in hist.waived
  /\ phase = "pop" => /\ ctl.index = 0
                      /\ Complete(hist, Url, Directory) \/ <<Url, Directory>> \in hist.waived

Conserved ==
  /\ phase \notin {"off", "exit"} /\ ~hist.gap => Placed
  /\ phase = "off" => ~redone
  /\ \A s \in Stores : store[s].checkpoint # NoSession /\ ~store[s].checkpoint.hist.gap =>
       Resumable(store[s].checkpoint.ctl, store[s].checkpoint.hist)

=============================================================================
