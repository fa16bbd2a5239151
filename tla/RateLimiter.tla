---------------------------- MODULE RateLimiter -----------------------------
(***************************************************************************)
(* The request rate limit (--max-rate): RequestRateLimiter of              *)
(* lib/connection/rate_limiter.py, which native/src/pacing.rs repeats.     *)
(*                                                                         *)
(* Every worker calls wait() before each logical request; wait() loops     *)
(* over _reserve, which runs under the lock and reads the clock there, and *)
(* sleeps for the delay it returns, at most one poll interval at a time.   *)
(* Time is a monotonic clock that advances between any two steps.          *)
(***************************************************************************)
EXTENDS Integers, Sequences

CONSTANTS
  Workers,   \* threads, tasks or native workers
  MaxRate,   \* options["max_rate"]; 0 is unlimited
  Window,    \* RATE_WINDOW_SECONDS, in ticks
  Poll,      \* RATE_WAIT_POLL_SECONDS, in ticks
  Requests,  \* bound: requests that each worker makes
  MaxTime    \* bound: from here on the clock runs only for a sleeping worker

ASSUME RateAssumption ==
  /\ MaxRate \in Nat
  /\ Window \in Nat \ {0}
  /\ Poll \in Nat \ {0}
  /\ Requests \in Nat
  /\ MaxTime \in Nat

VARIABLES
  now,      \* self._clock()
  times,    \* self._request_times
  pc,       \* idle, reserving (in wait) or sleeping
  wake,     \* when a sleeping worker's sleep ends
  left,     \* requests that each worker has still to make
  granted   \* history: when each reservation was made

vars == <<now, times, pc, wake, left, granted>>

Init ==
  /\ now = 0
  /\ times = <<>>
  /\ pc = [w \in Workers |-> "idle"]
  /\ wake = [w \in Workers |-> 0]
  /\ left = [w \in Workers |-> Requests]
  /\ granted = <<>>

TypeOK ==
  /\ now \in Nat
  /\ times \in Seq(Nat)
  /\ pc \in [Workers -> {"idle", "reserving", "sleeping"}]
  /\ wake \in [Workers -> Nat]
  /\ left \in [Workers -> Nat]
  /\ granted \in Seq(Nat)

-----------------------------------------------------------------------------

\* A window that is one tick too short.
Expired_early ==
  CHOOSE n \in 0 .. Len(times) :
    /\ \A i \in 1 .. n : times[i] + Window <= now + 1
    /\ n < Len(times) => times[n + 1] + Window > now + 1

\* _discard_expired: how many reservations leave from the front.
Expired ==
  CHOOSE n \in 0 .. Len(times) :
    /\ \A i \in 1 .. n : times[i] + Window <= now
    /\ n < Len(times) => times[n + 1] + Window > now

Current == SubSeq(times, Expired + 1, Len(times))

HasRoom == MaxRate = 0 \/ Len(Current) < MaxRate

\* How long the oldest reservation has been in the window.
Delay_elapsed == now - Current[1]

\* How long until the oldest reservation leaves the window, at least zero.
Delay ==
  LET delay == Current[1] + Window - now IN IF delay > 0 THEN delay ELSE 0

Sleep(delay) == IF delay <= Poll THEN delay ELSE Poll

-----------------------------------------------------------------------------

\* request() begins: wait_for_rate_limit.
Wait(w) ==
  /\ pc[w] = "idle"
  /\ left[w] > 0
  /\ left' = [left EXCEPT ![w] = @ - 1]
  /\ pc' = [pc EXCEPT ![w] = "reserving"]
  /\ UNCHANGED <<now, times, wake, granted>>

\* _reserve returned None: wait() returns.
Reserve(w) ==
  /\ pc[w] = "reserving"
  /\ HasRoom
  /\ times' = Append(Current, now)
  /\ granted' = Append(granted, now)
  /\ pc' = [pc EXCEPT ![w] = "idle"]
  /\ UNCHANGED <<now, wake, left>>

\* _reserve returned a delay: wait() sleeps.
ReserveLater(w) ==
  /\ pc[w] = "reserving"
  /\ ~HasRoom
  /\ times' = Current
  /\ wake' = [wake EXCEPT ![w] = now + Sleep(Delay)]
  /\ pc' = [pc EXCEPT ![w] = "sleeping"]
  /\ UNCHANGED <<now, left, granted>>

Wake(w) ==
  /\ pc[w] = "sleeping"
  /\ wake[w] <= now
  /\ pc' = [pc EXCEPT ![w] = "reserving"]
  /\ UNCHANGED <<now, times, wake, left, granted>>

\* The rate property, read by the progress bar at any time.
Rate ==
  /\ times' = Current
  /\ UNCHANGED <<now, pc, wake, left, granted>>

Sleeping(w) == pc[w] = "sleeping" /\ wake[w] > now

Tick ==
  /\ now < MaxTime \/ \E w \in Workers : Sleeping(w)
  /\ now' = now + 1
  /\ UNCHANGED <<times, pc, wake, left, granted>>

WorkerStep(w) == Wait(w) \/ Reserve(w) \/ ReserveLater(w) \/ Wake(w)

Next ==
  \/ \E w \in Workers : WorkerStep(w)
  \/ Rate
  \/ Tick

Spec == Init /\ [][Next]_vars

-----------------------------------------------------------------------------
(* Properties                                                              *)

\* However the workers' reservations fall, no window of one second holds more
\* than max_rate of them: reservation i + max_rate is a window after i.
WindowBound ==
  MaxRate > 0 =>
    \A i \in 1 .. Len(granted) - MaxRate :
      granted[i + MaxRate] >= granted[i] + Window

\* wait() never spins: a worker that was refused sleeps past the present, and
\* not beyond the moment at which the window has room again.
SleepsForward ==
  [][\A w \in Workers :
       pc[w] = "reserving" /\ pc'[w] = "sleeping" =>
         wake'[w] > now /\ wake'[w] <= now + Window]_vars

=============================================================================
