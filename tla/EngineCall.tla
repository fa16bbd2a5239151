----------------------------- MODULE EngineCall -----------------------------
(***************************************************************************)
(* What NativeHttpEngine.scan_chunks and scan_owned_chunks promise the     *)
(* Python thread that calls them: the paths of one call are delivered as   *)
(* consecutive ranges from the first path on, until the call is complete,  *)
(* cancelled or failed.  ResultChunks implements this contract; NativeScan *)
(* is built on it.                                                         *)
(*                                                                         *)
(* The cancellation flag belongs to the engine and outlives the call.  Any *)
(* other thread may set or reset it at any time.                           *)
(***************************************************************************)
EXTENDS Integers

VARIABLES
  cancelled,  \* NativeHttpEngine.cancelled
  phase,      \* "idle", "running", or "leaving": the scan is over, the call is not
  result,     \* how the last call ended
  total,      \* number of paths of the call, 0 without one
  offset,     \* paths delivered so far
  stopped     \* "no"; "seen": a worker of this call has seen the flag and
              \* left; "missed": the flag was lowered after that

callVars == <<cancelled, phase, result, total, offset, stopped>>

Results == {"none", "refused", "complete", "cancelled", "short", "failed"}

CallInit ==
  /\ cancelled = FALSE
  /\ phase = "idle"
  /\ result = "none"
  /\ total = 0
  /\ offset = 0
  /\ stopped = "no"

\* cancel() and reset_cancel(), from any Python thread.
SetCancelled(flag) ==
  /\ cancelled' = flag
  /\ stopped' = IF ~flag /\ stopped = "seen" THEN "missed" ELSE stopped
  /\ UNCHANGED <<phase, result, total, offset>>

\* A cancellation that came before the call is consumed: the call is refused.
Enter(count) ==
  /\ phase = "idle"
  /\ cancelled' = FALSE
  /\ phase' = IF cancelled THEN "idle" ELSE "running"
  /\ result' = IF cancelled THEN "refused" ELSE "none"
  /\ total' = IF cancelled THEN 0 ELSE count
  /\ offset' = 0
  /\ stopped' = "no"

\* A worker sees the flag: the paths nobody has requested stay unrequested.
WorkerStops ==
  /\ phase = "running"
  /\ cancelled
  /\ stopped = "no"
  /\ stopped' = "seen"
  /\ UNCHANGED <<cancelled, phase, result, total, offset>>

\* The callback is given the next `count` paths.
Deliver(count) ==
  /\ phase = "running"
  /\ count \in 1 .. (total - offset)
  /\ offset' = offset + count
  /\ UNCHANGED <<cancelled, phase, result, total, stopped>>

\* Why a scan may end.  "short": workers left on a cancellation that was
\* withdrawn before the coordinator saw it, and paths are missing.
MayEnd(reason) ==
  \/ reason = "complete" /\ offset = total
  \/ reason = "cancelled" /\ cancelled
  \/ reason = "short" /\ offset < total /\ stopped = "missed"
  \/ reason = "failed"

End(reason) ==
  /\ phase = "running"
  /\ MayEnd(reason)
  /\ phase' = "leaving"
  /\ result' = reason
  /\ UNCHANGED <<cancelled, total, offset, stopped>>

\* The flag is lowered when the call returns, whoever raised it.
Leave ==
  /\ phase = "leaving"
  /\ phase' = "idle"
  /\ cancelled' = FALSE
  /\ total' = 0
  /\ offset' = 0
  /\ stopped' = "no"
  /\ UNCHANGED result

CallNext ==
  \/ SetCancelled(TRUE) \/ SetCancelled(FALSE)
  \/ total' \in Nat /\ Enter(total')
  \/ WorkerStops
  \/ Deliver(offset' - offset)
  \/ \E reason \in Results : End(reason)
  \/ Leave

CallSpec == CallInit /\ [][CallNext]_callVars
=============================================================================
