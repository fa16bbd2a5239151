------------------------------- MODULE Fuzzer -------------------------------
(***************************************************************************)
(* The threaded scanner: lib/core/fuzzer.py, class Fuzzer.                 *)
(*                                                                         *)
(* Each thread of thread_proc claims a path, scans it, releases the claim  *)
(* and then looks at two events: while _play_event is clear it announces   *)
(* itself on the pause semaphore and waits; when _quit_event is set it     *)
(* ends.  pause, play, quit and stop are called by the controller, and     *)
(* quit also by a thread whose scan raised an exception.                   *)
(*                                                                         *)
(* A thread's pc:                                                          *)
(*   new      created by setup_threads, not started                        *)
(*   claim    about to call claim_next                                     *)
(*   request  waiting for the response to its path                         *)
(*   crawl    in match_callback, directory queued, links not yet           *)
(*   save     match_callback done, about to call reporter.save             *)
(*   release  scan() returned or raised                                    *)
(*   raise    claim released, exception about to be recorded               *)
(*   tail     about to look at _play_event                                 *)
(*   acked    announced on the semaphore, about to wait                    *)
(*   parked   blocked in _play_event.wait()                                *)
(*   check    about to look at _quit_event                                 *)
(*   dead     ended (or not created yet)                                   *)
(***************************************************************************)
EXTENDS Dictionary

CONSTANTS
  ThreadCount,  \* options["thread_count"]
  NoPath        \* a thread that holds no claim

ASSUME FuzzerAssumption ==
  /\ ThreadCount \in Nat \ {0}
  /\ NoPath \notin Paths

VARIABLES
  pc,       \* where each thread is
  held,     \* the path each thread has claimed and not released
  raised,   \* the exception its current scan raised
  leaving,  \* the threads that met StopIteration
  exc,      \* self._exc: the first exception recorded
  play,     \* _play_event is set
  quit,     \* _quit_event is set
  sem       \* the value of _pause_semaphore

fuzzerVars == <<pc, held, raised, leaving, exc, play, quit, sem>>

Threads == 1 .. ThreadCount

\* What a callback may raise, by what Controller.run does with it.
Exceptions == {"skip", "quit", "error"}

Working == {"claim", "request", "crawl", "save", "release", "raise", "tail"}
Alive(t) == pc[t] \notin {"new", "dead"}
NoneAlive == \A t \in Threads : ~Alive(t)

FuzzerInit ==
  /\ pc = [t \in Threads |-> "dead"]
  /\ held = [t \in Threads |-> NoPath]
  /\ raised = [t \in Threads |-> "none"]
  /\ leaving = {}
  /\ exc = "none"
  /\ play = FALSE
  /\ quit = FALSE
  /\ sem = 0

-----------------------------------------------------------------------------
(* The events.  Event.set wakes every waiter, whatever is cleared later.   *)

Woken(at) == [t \in Threads |-> IF at[t] = "parked" THEN "check" ELSE at[t]]

\* play() that wakes nobody.
SetPlay_silent ==
  /\ play' = TRUE
  /\ UNCHANGED <<pc, held, raised, leaving, exc, quit, sem>>

SetPlay ==
  /\ play' = TRUE
  /\ pc' = Woken(pc)
  /\ UNCHANGED <<held, raised, leaving, exc, quit, sem>>

SetQuit ==
  /\ quit' = TRUE
  /\ play' = TRUE
  /\ pc' = Woken(pc)
  /\ UNCHANGED <<held, raised, leaving, exc, sem>>

\* setup_threads: the threads of the last directory are dropped.
setup_threads ==
  /\ pc' = [t \in Threads |-> "new"]
  /\ leaving' = {}
  /\ UNCHANGED <<held, raised, exc, play, quit, sem>>

ClearQuit ==
  /\ quit' = FALSE
  /\ UNCHANGED <<pc, held, raised, leaving, exc, play, sem>>

ClearPlay ==
  /\ play' = FALSE
  /\ UNCHANGED <<pc, held, raised, leaving, exc, quit, sem>>

\* The threads are started in the order of the list.
StartThread(t) ==
  /\ pc[t] = "new"
  /\ \A u \in Threads : u < t => pc[u] # "new"
  /\ pc' = [pc EXCEPT ![t] = "claim"]
  /\ UNCHANGED <<held, raised, leaving, exc, play, quit, sem>>

\* One announcement that counts for every thread.
AcquireToken_kept ==
  /\ sem > 0
  /\ UNCHANGED fuzzerVars

\* _pause_semaphore.acquire succeeded.
AcquireToken ==
  /\ sem > 0
  /\ sem' = sem - 1
  /\ UNCHANGED <<pc, held, raised, leaving, exc, play, quit>>

-----------------------------------------------------------------------------
(* thread_proc                                                             *)

MoveTo(t, where) ==
  /\ pc' = [pc EXCEPT ![t] = where]
  /\ UNCHANGED <<held, raised, leaving, exc, play, quit, sem>>

ThreadClaim(t) ==
  /\ pc[t] = "claim"
  /\ claim_next
  /\ held' = [held EXCEPT ![t] = NextPath]
  /\ pc' = [pc EXCEPT ![t] = "request"]
  /\ UNCHANGED <<raised, leaving, exc, play, quit, sem>>

\* A thread that leaves at the end of the wordlist, extras or not.
ThreadExhausted_items(t) ==
  /\ pc[t] = "claim"
  /\ index >= Len(Wordlist)
  /\ leaving' = leaving \cup {t}
  /\ pc' = [pc EXCEPT ![t] = "tail"]
  /\ UNCHANGED <<dictVars, held, raised, exc, play, quit, sem>>

\* StopIteration: the thread leaves the loop, through the finally clause.
ThreadExhausted(t) ==
  /\ pc[t] = "claim"
  /\ Exhausted
  /\ leaving' = leaving \cup {t}
  /\ pc' = [pc EXCEPT ![t] = "tail"]
  /\ UNCHANGED <<dictVars, held, raised, exc, play, quit, sem>>

\* A callback raised; release_claim still runs.
ScanRaises(t, kind) ==
  /\ raised' = [raised EXCEPT ![t] = kind]
  /\ pc' = [pc EXCEPT ![t] = "release"]
  /\ UNCHANGED <<held, leaving, exc, play, quit, sem>>

ThreadRelease(t) ==
  /\ pc[t] = "release"
  /\ release_claim(held[t])
  /\ held' = [held EXCEPT ![t] = NoPath]
  /\ pc' = [pc EXCEPT ![t] = IF raised[t] = "none" THEN "tail" ELSE "raise"]
  /\ UNCHANGED <<raised, leaving, exc, play, quit, sem>>

\* list.remove raised ValueError: the claim is gone.
ThreadReleaseFails(t) ==
  /\ pc[t] = "release"
  /\ held[t] \notin ToSet(claimed)
  /\ held' = [held EXCEPT ![t] = NoPath]
  /\ raised' = [raised EXCEPT ![t] = "error"]
  /\ pc' = [pc EXCEPT ![t] = "raise"]
  /\ UNCHANGED <<dictVars, leaving, exc, play, quit, sem>>

\* _stop_with_exception: the first exception is kept, everybody is to quit.
ThreadRaise(t) ==
  /\ pc[t] = "raise"
  /\ exc' = IF exc = "none" THEN raised[t] ELSE exc
  /\ raised' = [raised EXCEPT ![t] = "none"]
  /\ quit' = TRUE
  /\ play' = TRUE
  /\ pc' = [Woken(pc) EXCEPT ![t] = "tail"]
  /\ UNCHANGED <<dictVars, held, leaving, sem>>

ThreadTail(t) ==
  /\ pc[t] = "tail"
  /\ pc' = [pc EXCEPT ![t] = IF play THEN "check" ELSE "acked"]
  /\ sem' = IF play THEN sem ELSE sem + 1
  /\ UNCHANGED <<dictVars, held, raised, leaving, exc, play, quit>>

ThreadWait(t) ==
  /\ pc[t] = "acked"
  /\ MoveTo(t, IF play THEN "check" ELSE "parked")
  /\ UNCHANGED dictVars

ThreadCheck(t) ==
  /\ pc[t] = "check"
  /\ MoveTo(t, IF quit \/ t \in leaving THEN "dead" ELSE "claim")
  /\ UNCHANGED dictVars

=============================================================================
