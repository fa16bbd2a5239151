---------------------------- MODULE ResultChunks ----------------------------
(***************************************************************************)
(* One call of the native engine that delivers ordered result chunks:      *)
(* deliver_chunks (native/src/engine.rs), deliver_result_chunks and        *)
(* run_scan_worker (native/src/scan.rs), CompletionWriter and              *)
(* OrderedChunkBuffer (native/src/chunks.rs).                              *)
(*                                                                         *)
(* Workers take request indexes from an atomic counter and complete them   *)
(* in any order.  An actionable result is inserted into pending_results,   *)
(* then the flag of its request is set: two steps.  The coordinator turns  *)
(* the completed prefix into chunks for the Python callback.  Indexes are  *)
(* those of Rust: 0 .. Count - 1.                                          *)
(***************************************************************************)
EXTENDS Integers, FiniteSets, Sequences, SequencesExt

CONSTANTS
  Workers,    \* the Tokio tasks of the call
  Count,      \* result_count, the paths of the call
  ChunkSize   \* chunk_size

ASSUME ResultChunksAssumption ==
  /\ IsFiniteSet(Workers) /\ Workers # {}
  /\ Count \in Nat \ {0}
  /\ ChunkSize \in Nat \ {0}

VARIABLES
  cancelled, phase, result,  \* as in EngineCall
  nextRequest,     \* ScanTask.next_request
  pc,              \* where each worker is
  held,            \* the request index of each worker
  joined,          \* workers the JoinSet no longer holds
  completed,       \* indexes whose completed flag is set
  pendingResults,  \* keys of pending_results
  coord,           \* where the coordinator is
  force,           \* force_flush
  chunkStart,      \* OrderedChunkBuffer.chunk_start
  nextIndex,       \* OrderedChunkBuffer.next_index
  readyResults,    \* OrderedChunkBuffer.ready_results, by request index
  answer,          \* history: what each request came to
  lowered,         \* history: the flag was reset after a worker had left on it
  delivered        \* history: the results given to the callback, by index

workerVars == <<nextRequest, pc, held, completed, pendingResults, answer>>
bufferVars == <<chunkStart, nextIndex, readyResults, delivered>>
callVars == <<cancelled, phase, result, lowered>>
vars == <<callVars, workerVars, joined, coord, force, bufferVars>>

Indexes == 0 .. Count - 1
Gone == {"stopped", "exhausted", "panicked"}
WorkerStates == {"idle", "pacing", "requesting", "insert", "publish"} \cup Gone

Init ==
  /\ cancelled = FALSE
  /\ phase = "idle"
  /\ result = "none"
  /\ lowered = FALSE
  /\ nextRequest = 0
  /\ pc = [w \in Workers |-> "idle"]
  /\ held = [w \in Workers |-> 0]
  /\ joined = {}
  /\ completed = {}
  /\ pendingResults = {}
  /\ coord = "select"
  /\ force = FALSE
  /\ chunkStart = 0
  /\ nextIndex = 0
  /\ readyResults = <<>>
  /\ answer = [i \in Indexes |-> "none"]
  /\ delivered = <<>>

-----------------------------------------------------------------------------
(* Python threads outside the call                                         *)

LeftEarly == \E w \in Workers : pc[w] = "stopped"

SetCancelled(flag) ==
  /\ cancelled' = flag
  /\ lowered' = (lowered \/ (~flag /\ LeftEarly))
  /\ UNCHANGED <<phase, result, workerVars, joined, coord, force, bufferVars>>

\* deliver_chunks: a cancellation that raced ahead is consumed.
Enter ==
  /\ phase = "idle" /\ result = "none"
  /\ cancelled' = FALSE
  /\ phase' = IF cancelled THEN "idle" ELSE "running"
  /\ result' = IF cancelled THEN "refused" ELSE "none"
  /\ UNCHANGED <<lowered, workerVars, joined, coord, force, bufferVars>>

Leave ==
  /\ phase = "leaving"
  /\ phase' = "idle"
  /\ cancelled' = FALSE
  /\ UNCHANGED <<result, lowered, workerVars, joined, coord, force, bufferVars>>

-----------------------------------------------------------------------------
(* run_scan_worker                                                         *)

Goto(w, place) == pc' = [pc EXCEPT ![w] = place]

\* A worker that takes the last index for one past the paths.
TakeRequest_short(w) ==
  /\ pc[w] = "idle"
  /\ \/ /\ cancelled
        /\ Goto(w, "stopped")
        /\ UNCHANGED <<nextRequest, held>>
     \/ /\ ~cancelled
        /\ nextRequest' = nextRequest + 1
        /\ held' = [held EXCEPT ![w] = nextRequest]
        /\ Goto(w, IF nextRequest < Count - 1 THEN "pacing" ELSE "exhausted")
  /\ UNCHANGED <<completed, pendingResults, answer>>

\* The flag, then the counter; an index past the paths ends the worker.
TakeRequest(w) ==
  /\ pc[w] = "idle"
  /\ \/ /\ cancelled
        /\ Goto(w, "stopped")
        /\ UNCHANGED <<nextRequest, held>>
     \/ /\ ~cancelled
        /\ nextRequest' = nextRequest + 1
        /\ held' = [held EXCEPT ![w] = nextRequest]
        /\ Goto(w, IF nextRequest < Count THEN "pacing" ELSE "exhausted")
  /\ UNCHANGED <<completed, pendingResults, answer>>

\* After the delay and the rate limiter the flag is read again.
SendRequest(w) ==
  /\ pc[w] = "pacing"
  /\ Goto(w, IF cancelled THEN "stopped" ELSE "requesting")
  /\ UNCHANGED <<nextRequest, held, completed, pendingResults, answer>>

\* omit_result: a filtered miss leaves no result.
Respond(w) ==
  /\ pc[w] = "requesting"
  /\ \/ /\ answer' = [answer EXCEPT ![held[w]] = "filtered"]
        /\ Goto(w, "publish")
     \/ /\ answer' = [answer EXCEPT ![held[w]] = "actionable"]
        /\ Goto(w, "insert")
  /\ UNCHANGED <<nextRequest, held, completed, pendingResults>>

Panic(w) ==
  /\ pc[w] = "requesting"
  /\ Goto(w, "panicked")
  /\ UNCHANGED <<nextRequest, held, completed, pendingResults, answer>>

\* A push that sets the flag before the result is in the map.
Insert_published(w) ==
  /\ pc[w] = "insert"
  /\ completed' = completed \cup {held[w]}
  /\ Goto(w, "publish")
  /\ UNCHANGED <<nextRequest, held, pendingResults, answer>>

\* CompletionWriter.push: the result first ...
Insert(w) ==
  /\ pc[w] = "insert"
  /\ pendingResults' = pendingResults \cup {held[w]}
  /\ Goto(w, "publish")
  /\ UNCHANGED <<nextRequest, held, completed, answer>>

\* ... then the flag.
Publish(w) ==
  /\ pc[w] = "publish"
  /\ completed' = completed \cup {held[w]}
  /\ Goto(w, "idle")
  /\ UNCHANGED <<nextRequest, held, pendingResults, answer>>

WorkerStep(w) ==
  /\ phase = "running"
  /\ TakeRequest(w) \/ SendRequest(w) \/ Respond(w) \/ Panic(w)
       \/ Insert(w) \/ Publish(w)
  /\ UNCHANGED <<callVars, joined, coord, force, bufferVars>>

-----------------------------------------------------------------------------
(* OrderedChunkBuffer.take_ready                                           *)

\* refresh_ready reads flags in order and stops at the first that is not set.
ReadyIndex ==
  CHOOSE j \in nextIndex .. Count :
    nextIndex .. (j - 1) \subseteq completed /\ j \notin completed

\* A set of indexes as a queue in request order.
Ascending(q) == \A i, j \in DOMAIN q : i < j => q[i] < q[j]
InOrder(S) == CHOOSE q \in SeqOf(S, Count) : Ascending(q) /\ ToSet(q) = S

NewResults == pendingResults \cap (nextIndex .. (ReadyIndex - 1))
Ready == readyResults \o InOrder(NewResults)
ReadyCount == ReadyIndex - chunkStart

HasChunk(flush) == ReadyCount > 0 /\ (flush \/ ReadyCount >= ChunkSize)

EndIndex == chunkStart + (IF ReadyCount < ChunkSize THEN ReadyCount ELSE ChunkSize)

\* Results pop_front takes off the queue for a chunk that ends at EndIndex.
Leading ==
  CHOOSE k \in 0 .. Len(Ready) :
    /\ \A i \in 1 .. k : Ready[i] < EndIndex
    /\ k < Len(Ready) => Ready[k + 1] >= EndIndex

\* refresh_ready happens whether or not there is a chunk to take.
Refresh ==
  /\ nextIndex' = ReadyIndex
  /\ pendingResults' = pendingResults \ NewResults

TakeNone ==
  /\ Refresh
  /\ readyResults' = Ready
  /\ UNCHANGED <<chunkStart, delivered>>

TakeChunk ==
  /\ Refresh
  /\ readyResults' = SubSeq(Ready, Leading + 1, Len(Ready))
  /\ delivered' = delivered \o SubSeq(Ready, 1, Leading)
  /\ chunkStart' = EndIndex

-----------------------------------------------------------------------------
(* deliver_result_chunks                                                   *)

CoordUnchanged == UNCHANGED <<nextRequest, pc, held, completed, answer>>

\* abort_and_drain: no step of a worker follows.
Return(reason) ==
  /\ phase' = "leaving"
  /\ result' = reason
  /\ UNCHANGED <<cancelled, lowered, workerVars, joined, coord, force, bufferVars>>

\* tokio::select: a worker is joined, or one of the two tickers fires.
SelectJoin ==
  /\ coord = "select"
  /\ \E w \in Workers \ joined :
       /\ pc[w] \in Gone \ {"panicked"}
       /\ joined' = joined \cup {w}
  /\ coord' = "check"
  /\ force' = FALSE
  /\ UNCHANGED <<callVars, workerVars, bufferVars>>

SelectPanicked ==
  /\ coord = "select"
  /\ \E w \in Workers : pc[w] = "panicked"
  /\ Return("failed")

SelectTick ==
  /\ coord = "select"
  /\ coord' = "check"
  /\ force' \in BOOLEAN
  /\ UNCHANGED <<callVars, workerVars, joined, bufferVars>>

Check ==
  /\ coord = "check"
  /\ \/ cancelled /\ Return("cancelled")
     \/ /\ ~cancelled
        /\ coord' = "take"
        /\ UNCHANGED <<callVars, workerVars, joined, force, bufferVars>>

\* After the last worker is joined: the flag again, then a forced drain.
FinalCheck ==
  /\ coord = "final"
  /\ \/ cancelled /\ Return("cancelled")
     \/ /\ ~cancelled
        /\ coord' = "rest"
        /\ force' = TRUE
        /\ UNCHANGED <<callVars, workerVars, joined, bufferVars>>

TakeReady ==
  /\ coord \in {"take", "rest"}
  /\ HasChunk(force)
  /\ TakeChunk
  /\ coord' = IF coord = "take" THEN "deliver" ELSE "deliverRest"
  /\ CoordUnchanged
  /\ UNCHANGED <<callVars, joined, force>>

\* A loop that does not ask whether tasks are left.
NothingReady_spins ==
  /\ coord = "take"
  /\ ~HasChunk(force)
  /\ TakeNone
  /\ coord' = "select"
  /\ CoordUnchanged
  /\ UNCHANGED <<callVars, joined, force>>

NothingReady ==
  /\ coord = "take"
  /\ ~HasChunk(force)
  /\ TakeNone
  /\ coord' = IF joined = Workers THEN "final" ELSE "select"
  /\ CoordUnchanged
  /\ UNCHANGED <<callVars, joined, force>>

\* The drain found nothing more: complete, or an error says what is missing.
Finish ==
  /\ coord = "rest"
  /\ ~HasChunk(TRUE)
  /\ Return(IF chunkStart = Count THEN "complete" ELSE "short")

\* deliver_chunk: the Python callback returns or raises.
CallbackReturns ==
  /\ coord \in {"deliver", "deliverRest"}
  /\ coord' = IF coord = "deliver" THEN "take" ELSE "rest"
  /\ UNCHANGED <<callVars, workerVars, joined, force, bufferVars>>

CallbackRaises ==
  /\ coord \in {"deliver", "deliverRest"}
  /\ Return("failed")

CoordStep ==
  /\ phase = "running"
  /\ SelectJoin \/ SelectPanicked \/ SelectTick \/ Check \/ FinalCheck
       \/ TakeReady \/ NothingReady \/ Finish \/ CallbackReturns \/ CallbackRaises

-----------------------------------------------------------------------------

Over == phase = "idle" /\ result # "none" /\ UNCHANGED vars

Next ==
  \/ \E flag \in BOOLEAN : SetCancelled(flag)
  \/ Enter \/ Leave
  \/ \E w \in Workers : WorkerStep(w)
  \/ CoordStep
  \/ Over

Spec == Init /\ [][Next]_vars

\* Tokio runs every task, requests end, the callback returns or raises.  The
\* coordinator does not starve: a ticker or a join is always ready, and a
\* worker that has left is joined before long.
FairSpec ==
  /\ Spec
  /\ \A w \in Workers : WF_vars(WorkerStep(w))
  /\ WF_vars(CoordStep)
  /\ SF_vars(phase = "running" /\ (SelectJoin \/ SelectPanicked))
  /\ WF_vars(Leave)

-----------------------------------------------------------------------------
(* Properties                                                              *)

\* The callback has seen exactly the actionable results of the delivered
\* prefix, in request order: the missing indexes are "responses that Rust
\* already classified as filtered", as NativeFuzzer takes them to be.
DeliveredExact ==
  /\ Ascending(delivered)
  /\ ToSet(delivered) = {i \in 0 .. chunkStart - 1 : answer[i] = "actionable"}

\* The call keeps the contract NativeScan relies on.
Open == phase # "idle"

Call == INSTANCE EngineCall WITH
  total <- IF Open THEN Count ELSE 0,
  offset <- IF Open THEN chunkStart ELSE 0,
  stopped <- IF ~Open THEN "no"
             ELSE IF lowered THEN "missed" ELSE IF LeftEarly THEN "seen" ELSE "no"

ImplementsCall == Call!CallSpec

\* A call that has begun returns to Python.
CallReturns == phase = "running" ~> phase = "idle"

-----------------------------------------------------------------------------
(* The inductive strengthening of DeliveredExact and of the refinement     *)

Busy == {"pacing", "requesting", "insert", "publish"}
Draining == {"final", "rest", "deliverRest"}

TypeOK ==
  /\ cancelled \in BOOLEAN /\ lowered \in BOOLEAN /\ force \in BOOLEAN
  /\ phase \in {"idle", "running", "leaving"}
  /\ result \in Call!Results
  /\ nextRequest \in Nat
  /\ pc \in [Workers -> WorkerStates]
  /\ held \in [Workers -> Nat]
  /\ joined \subseteq Workers
  /\ completed \subseteq Indexes /\ pendingResults \subseteq Indexes
  /\ coord \in {"select", "check", "take", "deliver"} \cup Draining
  /\ chunkStart \in 0 .. Count /\ nextIndex \in chunkStart .. Count
  /\ readyResults \in Seq(Nat) /\ delivered \in Seq(Nat)
  /\ answer \in [Indexes -> {"none", "filtered", "actionable"}]

\* The indexes that have been given out are completed, or held by one worker,
\* or lost with a worker that left.
GivenOut ==
  /\ \A w \in Workers : pc[w] \in Busy =>
       held[w] < Count /\ held[w] < nextRequest /\ held[w] \notin completed
  /\ \A v, w \in Workers : pc[v] \in Busy /\ pc[w] \in Busy /\ held[v] = held[w] => v = w
  /\ \A i \in completed : i < nextRequest
  /\ \A i \in Indexes : i < nextRequest =>
       \/ i \in completed
       \/ \E w \in Workers : pc[w] \in Busy /\ held[w] = i
       \/ \E w \in Workers : pc[w] \in {"stopped", "panicked"}
  /\ \A w \in Workers : pc[w] = "exhausted" => nextRequest >= Count

\* Where an actionable result is: in the map before its flag is set, until
\* the coordinator has read the flag.
Filed ==
  /\ \A w \in Workers : pc[w] = "insert" => answer[held[w]] = "actionable"
  /\ \A w \in Workers : pc[w] = "publish" /\ answer[held[w]] = "actionable" =>
       held[w] \in pendingResults
  /\ \A i \in pendingResults :
       /\ answer[i] = "actionable" /\ i >= nextIndex
       /\ i \in completed \/ \E w \in Workers : pc[w] = "publish" /\ held[w] = i
  /\ \A i \in completed : answer[i] = "actionable" /\ i >= nextIndex => i \in pendingResults

\* What the buffer holds: the actionable results between the two indexes.
Buffered ==
  /\ 0 .. (nextIndex - 1) \subseteq completed
  /\ Ascending(readyResults)
  /\ ToSet(readyResults) = {i \in chunkStart .. (nextIndex - 1) : answer[i] = "actionable"}
  /\ DeliveredExact

\* The coordinator drains after every worker has left, and never while a
\* cancellation that it has not seen explains a worker's leaving.
Drained ==
  /\ \A w \in joined : pc[w] \in {"stopped", "exhausted"}
  /\ coord \in Draining => joined = Workers
  /\ phase = "running" /\ LeftEarly => cancelled \/ lowered
  /\ coord \in {"rest", "deliverRest"} /\ LeftEarly => lowered
  /\ coord \in {"rest", "deliverRest"} => force
  /\ phase = "leaving" => result # "none"
  /\ phase = "idle" /\ result = "none" =>
       chunkStart = 0 /\ ~lowered /\ ~LeftEarly /\ coord = "select"

=============================================================================
