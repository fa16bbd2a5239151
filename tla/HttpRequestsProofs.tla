------------------------- MODULE HttpRequestsProofs --------------------------
(***************************************************************************)
(* What the request backends owe the user, for every number of workers,    *)
(* proxies, paths, retries, redirects and nonces: the rate limit holds of  *)
(* the whole request loop, credentials stay within their origin, and NTLM  *)
(* exchanges never share a client.                                         *)
(***************************************************************************)
EXTENDS HttpRequests, FiniteSetTheorems, SequenceTheorems, WellFoundedInduction, TLAPS

-----------------------------------------------------------------------------
(* The rate limiter holds its limit, for any number of workers, rate and   *)
(* window                                                                  *)

\* The reservations in memory are the latest of all that were made, and those
\* that were discarded have left the window.
LatestKept ==
  /\ Len(times) <= Len(granted)
  /\ \A i \in 1 .. Len(times) : times[i] = granted[Len(granted) - Len(times) + i]
  /\ \A i \in 1 .. Len(granted) - Len(times) : granted[i] + Window <= now

\* No reservation lies in the future.
InThePast == \A i \in 1 .. Len(granted) : granted[i] <= now

IInv == TypeOK /\ LatestKept /\ InThePast /\ WindowBound

-----------------------------------------------------------------------------

\* A set of naturals has a least element.
LEMMA LeastNatural ==
  ASSUME NEW T \in SUBSET Nat, T # {}
  PROVE  \E x \in T : \A y \in T : ~(y < x)
<1> DEFINE R == {ss \in Nat \X Nat : ss[1] < ss[2]}
<1>1. IsWellFoundedOn(R, Nat)
  BY NatLessThanWellFounded, Zenon DEF OpToRel
<1>2. \E x \in T : \A y \in T : ~(<<y, x>> \in R)
  <2> HIDE DEF R
  <2> QED
    BY <1>1, WFMin, Zenon
<1> QED
  BY <1>2

\* _discard_expired stops: its count is well defined.
LEMMA ExpiredWorks ==
  ASSUME TypeOK
  PROVE  /\ Expired \in 0 .. Len(times)
         /\ \A i \in 1 .. Expired : times[i] + Window <= now
         /\ Expired < Len(times) => times[Expired + 1] + Window > now
<1> DEFINE P(n) == /\ \A i \in 1 .. n : times[i] + Window <= now
                   /\ n < Len(times) => times[n + 1] + Window > now
           T == {n \in 0 .. Len(times) : n < Len(times) => times[n + 1] + Window > now}
<1>1. times \in Seq(Nat) /\ now \in Nat /\ Window \in Nat /\ Len(times) \in Nat
  BY RateAssumption, LenProperties DEF TypeOK
<1>2. \A i \in 1 .. Len(times) : times[i] \in Nat
  BY <1>1, ElementOfSeq
<1>3. T \in SUBSET Nat /\ Len(times) \in T
  BY <1>1
<1>4. PICK n \in T : \A m \in T : ~(m < n)
  <2> HIDE DEF T
  <2> QED
    BY <1>3, LeastNatural
<1>5. n \in 0 .. Len(times) /\ P(n)
  <2>1. n \in 0 .. Len(times) /\ (n < Len(times) => times[n + 1] + Window > now)
    BY <1>4
  <2>2. ASSUME NEW i \in 1 .. n PROVE times[i] + Window <= now
    <3>1. i - 1 \in 0 .. Len(times) /\ i - 1 < n /\ i - 1 < Len(times) /\ i - 1 + 1 = i
      BY <1>1, <2>1
    <3>2. i - 1 \notin T
      BY <1>4, <3>1
    <3>3. ~(times[i] + Window > now)
      BY <3>1, <3>2
    <3>4. times[i] \in Nat
      BY <1>1, <1>2, <2>1
    <3> QED
      BY <1>1, <3>3, <3>4
  <2> QED
    BY <2>1, <2>2
<1>6. Expired = CHOOSE m \in 0 .. Len(times) : P(m)
  BY DEF Expired
<1>7. Expired \in 0 .. Len(times) /\ P(Expired)
  <2> HIDE DEF P
  <2> QED
    BY <1>5, <1>6
<1> QED
  BY <1>7

\* What is left after discarding, element by element.
LEMMA CurrentIs ==
  ASSUME TypeOK
  PROVE  /\ Current \in Seq(Nat)
         /\ Len(Current) = Len(times) - Expired
         /\ \A i \in 1 .. Len(Current) : Current[i] = times[Expired + i]
<1> DEFINE n == Expired
<1>1. times \in Seq(Nat) /\ Len(times) \in Nat /\ n \in 0 .. Len(times)
  BY ExpiredWorks, LenProperties DEF TypeOK
<1>2. \A i \in 1 .. Len(times) : times[i] \in Nat
  BY <1>1, ElementOfSeq
<1>3. Current = SubSeq(times, n + 1, Len(times))
  BY DEF Current
<1> HIDE DEF n
<1>4. CASE n = Len(times)
  BY <1>1, <1>3, <1>4, SubSeqEmpty DEF n
<1>5. CASE n < Len(times)
  <2>1. n + 1 \in Int /\ Len(times) \in Int /\ n + 1 <= Len(times)
    BY <1>1, <1>5
  <2>2. \A i \in n + 1 .. Len(times) : times[i] \in Nat
    BY <1>1, <1>2
  <2>3. Current \in Seq(Nat) /\ Len(Current) = Len(times) - (n + 1) + 1
    BY <1>1, <1>3, <2>1, <2>2, SubSeqProperties
  <2>4. \A i \in 1 .. Len(times) - (n + 1) + 1 : Current[i] = times[n + 1 + i - 1]
    BY <1>1, <1>3, <2>1, <2>2, SubSeqProperties
  <2> QED
    BY <1>1, <2>3, <2>4 DEF n
<1> QED
  BY <1>1, <1>4, <1>5

\* Discarding keeps what is said of the reservations in memory.
LEMMA DiscardKeeps ==
  ASSUME TypeOK, LatestKept
  PROVE  /\ Len(Current) \in Nat /\ Len(Current) <= Len(granted)
         /\ \A i \in 1 .. Len(Current) :
              Current[i] = granted[Len(granted) - Len(Current) + i]
         /\ \A i \in 1 .. Len(granted) - Len(Current) : granted[i] + Window <= now
<1> DEFINE n == Expired
           g == Len(granted)
           l == Len(times)
<1>1. n \in 0 .. l /\ l \in Nat /\ g \in Nat /\ l <= g /\ Len(Current) = l - n
  BY ExpiredWorks, CurrentIs, LenProperties DEF TypeOK, LatestKept
<1>2. \A i \in 1 .. n : times[i] + Window <= now
  BY ExpiredWorks
<1>3. /\ \A i \in 1 .. l : times[i] = granted[g - l + i]
      /\ \A i \in 1 .. g - l : granted[i] + Window <= now
  BY DEF LatestKept
<1>4. \A i \in 1 .. l - n : Current[i] = times[n + i]
  BY <1>1, CurrentIs
<1> HIDE DEF n, g, l
<1>5. ASSUME NEW i \in 1 .. l - n PROVE Current[i] = granted[g - (l - n) + i]
  <2>1. n + i \in 1 .. l /\ g - l + (n + i) = g - (l - n) + i
    BY <1>1
  <2>2. times[n + i] = granted[g - l + (n + i)]
    BY <1>3, <2>1
  <2> QED
    BY <1>4, <2>1, <2>2
<1>6. ASSUME NEW i \in 1 .. g - (l - n) PROVE granted[i] + Window <= now
  <2>1. CASE i <= g - l
    <3>1. i \in 1 .. g - l
      BY <1>1, <2>1
    <3> QED
      BY <1>3, <3>1
  <2>2. CASE ~(i <= g - l)
    <3>1. i - (g - l) \in 1 .. n /\ i - (g - l) \in 1 .. l /\ g - l + (i - (g - l)) = i
      BY <1>1, <2>2
    <3>2. times[i - (g - l)] = granted[g - l + (i - (g - l))]
      BY <1>3, <3>1
    <3>3. times[i - (g - l)] + Window <= now
      BY <1>2, <3>1
    <3> QED
      BY <3>1, <3>2, <3>3
  <2> QED
    BY <2>1, <2>2
<1>7. l - n \in Nat /\ l - n <= g
  BY <1>1
<1> QED
  BY <1>1, <1>5, <1>6, <1>7 DEF g, l

-----------------------------------------------------------------------------

LEMMA InitIInv == Init => IInv
<1> SUFFICES ASSUME Init PROVE IInv
  OBVIOUS
<1>1. <<>> \in Seq(Nat) /\ Len(<<>>) = 0
  BY EmptySeq
<1>2. TypeOK
  BY <1>1, RateAssumption DEF Init, TypeOK
<1>3. 0 - MaxRate \in Int /\ (MaxRate > 0 => 0 - MaxRate < 1)
  BY RateAssumption
<1>4. LatestKept /\ InThePast /\ WindowBound
  BY <1>1, <1>3, RateAssumption DEF Init, LatestKept, InThePast, WindowBound
<1> QED
  BY <1>2, <1>4 DEF IInv

\* A step that only discards, or leaves the reservations alone, is safe.
LEMMA DiscardSafe ==
  ASSUME IInv, times' = Current, UNCHANGED <<now, granted>>, TypeOK'
  PROVE  IInv'
<1>1. LatestKept'
  BY DiscardKeeps DEF IInv, LatestKept
<1>2. InThePast' /\ WindowBound'
  BY DEF IInv, InThePast, WindowBound
<1> QED
  BY <1>1, <1>2 DEF IInv

LEMMA UntouchedSafe ==
  ASSUME IInv, UNCHANGED <<now, granted, times>>, TypeOK'
  PROVE  IInv'
  BY DEF IInv, LatestKept, InThePast, WindowBound

LEMMA ReserveSafe ==
  ASSUME IInv, NEW w \in Workers, Reserve(w)
  PROVE  IInv'
<1> DEFINE g == Len(granted)
           c == Len(Current)
<1>1. TypeOK /\ LatestKept /\ InThePast /\ WindowBound
  BY DEF IInv
<1>2. /\ granted \in Seq(Nat) /\ now \in Nat /\ Window \in Nat /\ MaxRate \in Nat
      /\ g \in Nat /\ \A i \in 1 .. g : granted[i] \in Nat
  BY <1>1, RateAssumption, LenProperties, ElementOfSeq DEF TypeOK
<1>3. Current \in Seq(Nat)
  BY <1>1, CurrentIs
<1>4. /\ c \in Nat /\ c <= g
      /\ \A i \in 1 .. c : Current[i] = granted[g - c + i]
      /\ \A i \in 1 .. g - c : granted[i] + Window <= now
  BY <1>1, DiscardKeeps
<1>5. /\ times' \in Seq(Nat) /\ Len(times') = c + 1
      /\ \A i \in 1 .. c : times'[i] = Current[i]
      /\ times'[c + 1] = now
  BY <1>2, <1>3, AppendProperties DEF Reserve
<1>6. /\ granted' \in Seq(Nat) /\ Len(granted') = g + 1
      /\ \A i \in 1 .. g : granted'[i] = granted[i]
      /\ granted'[g + 1] = now
  BY <1>2, AppendProperties DEF Reserve
<1>7. now' = now /\ (MaxRate > 0 => c < MaxRate)
  BY <1>2 DEF Reserve, HasRoom
<1>8. TypeOK'
  BY <1>1, <1>5, <1>6 DEF TypeOK, Reserve
<1> HIDE DEF g, c
<1>9. LatestKept'
  <2>1. Len(times') <= Len(granted') /\ Len(granted') - Len(times') = g - c
    BY <1>2, <1>4, <1>5, <1>6
  <2>2. ASSUME NEW i \in 1 .. c + 1 PROVE times'[i] = granted'[g - c + i]
    <3>1. CASE i = c + 1
      <4>1. g - c + i = g + 1
        BY <1>2, <1>4, <3>1
      <4> QED
        BY <1>5, <1>6, <3>1, <4>1
    <3>2. CASE i # c + 1
      <4>1. i \in 1 .. c /\ g - c + i \in 1 .. g
        BY <1>2, <1>4, <3>2
      <4> QED
        BY <1>4, <1>5, <1>6, <4>1
    <3> QED
      BY <3>1, <3>2
  <2>3. ASSUME NEW i \in 1 .. g - c PROVE granted'[i] + Window <= now'
    <3>1. i \in 1 .. g
      BY <1>2, <1>4
    <3> QED
      BY <1>4, <1>6, <1>7, <3>1
  <2> QED
    BY <1>5, <2>1, <2>2, <2>3 DEF LatestKept
<1>10. InThePast'
  <2> SUFFICES ASSUME NEW i \in 1 .. g + 1 PROVE granted'[i] <= now
    BY <1>6, <1>7 DEF InThePast
  <2>1. CASE i = g + 1
    BY <1>2, <1>6, <2>1
  <2>2. CASE i # g + 1
    <3>1. i \in 1 .. g
      BY <1>2, <2>2
    <3> QED
      BY <1>1, <1>6, <3>1 DEF InThePast, g
  <2> QED
    BY <2>1, <2>2
<1>11. WindowBound'
  <2> SUFFICES ASSUME MaxRate > 0
               PROVE  \A i \in 1 .. Len(granted') - MaxRate :
                        granted'[i + MaxRate] >= granted'[i] + Window
    BY DEF WindowBound
  <2>0. Len(granted') = g + 1
    BY <1>6
  <2> TAKE i \in 1 .. Len(granted') - MaxRate
  <2>6. i \in 1 .. g + 1 - MaxRate
    BY <1>2, <2>0
  <2>1. i \in 1 .. g /\ i + MaxRate \in 1 .. g + 1
    BY <1>2, <2>6
  <2>2. granted'[i] = granted[i] /\ granted[i] \in Nat
    BY <1>2, <1>6, <2>1
  <2>3. CASE i + MaxRate = g + 1
    <3>1. i \in 1 .. g - c
      BY <1>2, <1>4, <1>7, <2>1, <2>3
    <3>2. granted[i] + Window <= now
      BY <1>4, <3>1
    <3>3. granted'[i + MaxRate] = now
      BY <1>6, <2>3
    <3>4. now >= granted[i] + Window
      BY <1>2, <2>2, <3>2
    <3> QED
      BY <2>2, <3>3, <3>4
  <2>4. CASE i + MaxRate # g + 1
    <3>1. i \in 1 .. g - MaxRate /\ i + MaxRate \in 1 .. g
      BY <1>2, <2>1, <2>4
    <3>2. granted[i + MaxRate] >= granted[i] + Window
      BY <1>1, <3>1 DEF WindowBound, g
    <3>3. granted'[i + MaxRate] = granted[i + MaxRate]
      BY <1>6, <3>1
    <3> QED
      BY <2>2, <3>2, <3>3
  <2> QED
    BY <2>3, <2>4
<1> QED
  BY <1>8, <1>9, <1>10, <1>11 DEF IInv

\* A refused worker sleeps at least to the next instant, at most a window.
LEMMA RefusedSleeps ==
  ASSUME IInv, ~HasRoom
  PROVE  /\ now + Sleep(Delay) \in Nat
         /\ now + Sleep(Delay) > now
         /\ now + Sleep(Delay) <= now + Window
<1>1. TypeOK /\ LatestKept /\ InThePast
  BY DEF IInv
<1>2. now \in Nat /\ Window \in Nat \ {0} /\ MaxRate \in Nat /\ Poll \in Nat \ {0}
  BY <1>1, RateAssumption DEF TypeOK
<1>3. /\ Len(Current) \in Nat /\ Len(Current) = Len(times) - Expired
      /\ Current \in Seq(Nat)
      /\ \A i \in 1 .. Len(Current) : Current[i] = times[Expired + i]
      /\ \A i \in 1 .. Len(Current) : Current[i] = granted[Len(granted) - Len(Current) + i]
      /\ Len(Current) <= Len(granted)
  BY <1>1, CurrentIs, DiscardKeeps
<1>4. Len(Current) >= 1
  BY <1>2, <1>3 DEF HasRoom
<1>5. Expired < Len(times) /\ Expired + 1 \in Nat
  <2>1. Expired \in 0 .. Len(times) /\ Len(times) \in Nat
    BY <1>1, ExpiredWorks, LenProperties DEF TypeOK
  <2> QED
    BY <1>3, <1>4, <2>1
<1>6. times[Expired + 1] + Window > now
  BY <1>1, <1>5, ExpiredWorks
<1>7. Current[1] = times[Expired + 1] /\ Current[1] \in Nat
  BY <1>3, <1>4, ElementOfSeq
<1>8. Current[1] <= now
  <2>1. Len(granted) \in Nat
    BY <1>1, LenProperties DEF TypeOK
  <2>2. Len(granted) - Len(Current) + 1 \in 1 .. Len(granted)
    BY <1>3, <1>4, <2>1
  <2>3. Current[1] = granted[Len(granted) - Len(Current) + 1]
    BY <1>3, <1>4
  <2> QED
    BY <1>1, <2>2, <2>3 DEF InThePast
<1>9. Delay \in Nat /\ Delay > 0 /\ Delay <= Window
  BY <1>2, <1>6, <1>7, <1>8 DEF Delay
<1>10. Sleep(Delay) \in Nat /\ Sleep(Delay) > 0 /\ Sleep(Delay) <= Window
  <2>1. CASE Delay <= Poll
    BY <1>9, <2>1 DEF Sleep
  <2>2. CASE ~(Delay <= Poll)
    BY <1>2, <1>9, <2>2 DEF Sleep
  <2> QED
    BY <2>1, <2>2
<1> QED
  BY <1>2, <1>10

LEMMA NextIInv == IInv /\ [Next]_vars => IInv'
<1> SUFFICES ASSUME IInv, [Next]_vars PROVE IInv'
  OBVIOUS
<1>1. TypeOK
  BY DEF IInv
<1>2. ASSUME NEW w \in Workers, Wait(w) PROVE IInv'
  <2>1. TypeOK'
    BY <1>1, <1>2 DEF Wait, TypeOK
  <2> QED
    BY <1>2, <2>1, UntouchedSafe DEF Wait
<1>3. ASSUME NEW w \in Workers, Reserve(w) PROVE IInv'
  BY <1>3, ReserveSafe
<1>4. ASSUME NEW w \in Workers, ReserveLater(w) PROVE IInv'
  <2>1. now + Sleep(Delay) \in Nat
    BY <1>4, RefusedSleeps DEF ReserveLater
  <2>2. TypeOK'
    BY <1>1, <1>4, <2>1, CurrentIs DEF ReserveLater, TypeOK
  <2> QED
    BY <1>4, <2>2, DiscardSafe DEF ReserveLater
<1>5. ASSUME NEW w \in Workers, Wake(w) PROVE IInv'
  <2>1. TypeOK'
    BY <1>1, <1>5 DEF Wake, TypeOK
  <2> QED
    BY <1>5, <2>1, UntouchedSafe DEF Wake
<1>6. CASE Rate
  <2>1. TypeOK'
    BY <1>1, <1>6, CurrentIs DEF Rate, TypeOK
  <2> QED
    BY <1>6, <2>1, DiscardSafe DEF Rate
<1>7. CASE Tick
  <2>1. now \in Nat /\ now' = now + 1 /\ times' = times /\ granted' = granted
    BY <1>1, <1>7 DEF Tick, TypeOK
  <2>2. TypeOK'
    BY <1>1, <1>7, <2>1 DEF Tick, TypeOK
  <2>3. Window \in Nat /\ granted \in Seq(Nat) /\ Len(granted) \in Nat /\ Len(times) \in Nat
    BY <1>1, RateAssumption, LenProperties DEF TypeOK
  <2>4. \A i \in 1 .. Len(granted) : granted[i] \in Nat
    BY <2>3, ElementOfSeq
  <2>5. InThePast'
    BY <2>1, <2>3, <2>4 DEF IInv, InThePast
  <2>6. \A i \in 1 .. Len(granted) - Len(times) : granted[i] + Window <= now + 1
    <3> SUFFICES ASSUME NEW i \in 1 .. Len(granted) - Len(times)
                 PROVE  granted[i] + Window <= now + 1
      OBVIOUS
    <3>1. granted[i] \in Nat /\ granted[i] + Window <= now
      BY <2>3, <2>4 DEF IInv, LatestKept
    <3> QED
      BY <2>1, <2>3, <3>1
  <2>7. LatestKept'
    BY <2>1, <2>6 DEF IInv, LatestKept
  <2>8. WindowBound'
    BY <2>1 DEF IInv, WindowBound
  <2> QED
    BY <2>2, <2>5, <2>7, <2>8 DEF IInv
<1>8. CASE UNCHANGED vars
  <2>1. TypeOK'
    BY <1>1, <1>8 DEF vars, TypeOK
  <2> QED
    BY <1>8, <2>1, UntouchedSafe DEF vars
<1> QED
  BY <1>2, <1>3, <1>4, <1>5, <1>6, <1>7, <1>8 DEF Next, WorkerStep

LEMMA SpecIInv == Spec => []IInv
  BY InitIInv, NextIInv, PTL DEF Spec

\* TypeOK: the limiter's clock, queue and sleeps stay well formed.
THEOREM TypeCorrect == Spec => []TypeOK
<1>1. IInv => TypeOK
  BY DEF IInv
<1> QED
  BY <1>1, SpecIInv, PTL

\* WindowBound: whatever the number of workers, the rate and the window, no
\* window holds more than max_rate reservations of _reserve.
THEOREM RateIsBounded == Spec => []WindowBound
<1>1. IInv => WindowBound
  BY DEF IInv
<1> QED
  BY <1>1, SpecIInv, PTL

\* SleepsForward: the delay _reserve returns is always positive and at most a
\* window, so wait() neither spins nor oversleeps.
THEOREM NeverSpins == Spec => SleepsForward
<1> DEFINE A == \A w \in Workers :
                  pc[w] = "reserving" /\ pc'[w] = "sleeping" =>
                    wake'[w] > now /\ wake'[w] <= now + Window
<1>1. ASSUME IInv, [Next]_vars PROVE [A]_vars
  <2> SUFFICES ASSUME Next, NEW w \in Workers, pc[w] = "reserving", pc'[w] = "sleeping"
               PROVE  wake'[w] > now /\ wake'[w] <= now + Window
    BY <1>1
  <2>1. TypeOK
    BY <1>1 DEF IInv
  <2>2. ReserveLater(w)
    BY <2>1 DEF Next, WorkerStep, Wait, Reserve, ReserveLater, Wake, Rate, Tick, TypeOK
  <2>3. wake'[w] = now + Sleep(Delay)
    BY <2>1, <2>2 DEF ReserveLater, TypeOK
  <2> QED
    BY <1>1, <2>2, <2>3, RefusedSleeps DEF ReserveLater
<1> QED
  BY <1>1, SpecIInv, PTL DEF Spec, SleepsForward

-----------------------------------------------------------------------------
(* The request loop uses the limiter as RateLimiter says                   *)

LEMMA PythonStepKeepsLimiter ==
  ASSUME NEW w \in Workers, PythonStep(w) PROVE UNCHANGED vars
BY DEF PythonStep, Send, Redirect, Respond, Finish, SendFails

LEMMA NativeStepKeepsLimiter ==
  ASSUME NEW w \in Workers, NativeStep(w) PROVE UNCHANGED vars
BY DEF NativeStep, SendFirst, SendRaw, RefuseRaw, FollowRedirect, DigestChallenge,
       AnswerFails, NtlmChallenge, OtherResponse, ReadBody, ClientFails

LEMMA HttpNextLimiter ==
  ASSUME [HttpNext]_allVars PROVE [Next]_vars
<1>1. ASSUME NEW w \in Workers, Begin(w) \/ Pass(w) \/ Limited(w) PROVE Next
  BY <1>1 DEF Begin, Pass, Limited, Next, WorkerStep
<1>2. CASE TimePasses \/ ReadRate
  BY <1>2 DEF TimePasses, ReadRate, Next
<1>3. CASE UNCHANGED allVars
  BY <1>3 DEF allVars
<1> QED
  BY <1>1, <1>2, <1>3, PythonStepKeepsLimiter, NativeStepKeepsLimiter DEF HttpNext, RequestStep

\* Retries, redirects and challenges included, the backends wait for the limiter as
\* RequestRateLimiter.wait is meant to be called.
THEOREM RequestsUseLimiter == HttpSpec => Spec
<1>1. LoopInit => Init
  BY DEF LoopInit
<1> QED
  BY <1>1, HttpNextLimiter, PTL DEF HttpSpec, Spec

\* So no window holds more than max_rate logical requests of any backend.
THEOREM RequestRateIsBounded == HttpSpec => []WindowBound
BY RequestsUseLimiter, RateIsBounded, PTL

-----------------------------------------------------------------------------
(* The inductive invariant                                                 *)

Auths == [scheme : {"none", "basic", "digest", "ntlm"}, nonce : Nat, count : Nat]
Prompts == [nonce : Nat, count : Nat]
LogicalRequests ==
  [stage : {"none", "limit", "attempt", "sent", "response"}, tries : Nat, hops : Nat,
   to : {Home, Away}, target : BOOLEAN, armed : BOOLEAN, raw : BOOLEAN,
   cookie : BOOLEAN, auth : Auths, step : {"first", "negotiate", "final"}, index : Nat]

HttpTypeOK ==
  /\ conf \in Configs
  /\ req \in [Workers -> LogicalRequests]
  /\ next_request \in Nat
  /\ challenge \in Prompts
  /\ issued \in Nat
  /\ answered \in SUBSET Auths

\* What a request on the wire carries.  A raw target of the Rust transport goes only
\* where redirects are not followed; an override is taken by the send it was armed for;
\* a Python request carries neither the override nor an Authorization value.
Scoped(r) ==
  /\ r.stage \in {"none", "limit", "attempt"} => r.hops = 0 /\ r.to = Home /\ ~r.armed
  /\ r.stage = "sent" =>
       /\ ~r.armed
       /\ r.hops > 0 => ~r.raw /\ ~r.cookie
       /\ r.to # Home => r.auth = NoAuth
  /\ Native /\ r.raw => ~conf.follow
  /\ Python => ~r.cookie /\ r.auth = NoAuth /\ ~r.armed

\* The cached prompt has counted every answer to its nonce.
Counted ==
  /\ ~repeated
  /\ \A a \in answered : a.nonce = challenge.nonce => a.count <= challenge.count

HInv == HttpTypeOK /\ (\A w \in Workers : Scoped(req[w])) /\ Counted

LEMMA IdleScoped == Idle \in LogicalRequests /\ Scoped(Idle) /\ NoAuth \in Auths
BY DEF Idle, LogicalRequests, Scoped, NoAuth, Auths, Home, Away

LEMMA LoopInitHInv == LoopInit => HInv
<1>1. LoopInit => HttpTypeOK
  BY IdleScoped DEF LoopInit, HttpTypeOK, NoChallenge, Prompts
<1>2. LoopInit => \A w \in Workers : Scoped(req[w])
  BY IdleScoped DEF LoopInit
<1>3. LoopInit => Counted
  BY DEF LoopInit, Counted
<1> QED
  BY <1>1, <1>2, <1>3 DEF HInv

\* A step of worker w keeps HInv when its new request is well formed and in scope, and
\* the Digest state is left alone.
LEMMA RequestChanges ==
  ASSUME HInv, NEW w \in Workers, NEW r \in LogicalRequests, Scoped(r), Becomes(w, r),
         next_request' \in Nat,
         UNCHANGED <<conf, challenge, answered, repeated>>, issued' \in Nat
  PROVE  HInv'
<1>1. req' = [req EXCEPT ![w] = r]
  BY DEF Becomes
<1>2. HttpTypeOK'
  BY <1>1 DEF HInv, HttpTypeOK
<1>3. ASSUME NEW v \in Workers PROVE Scoped(req[v])'
  BY <1>1, <1>3 DEF HInv, HttpTypeOK, Scoped, Native, Python
<1>4. Counted'
  BY DEF HInv, Counted
<1> QED
  BY <1>2, <1>3, <1>4 DEF HInv

LEMMA RequestParts ==
  ASSUME NEW r \in LogicalRequests
  PROVE  /\ r.tries + 1 \in Nat /\ r.hops + 1 \in Nat /\ r.hops + 1 > 0
         /\ r.index \in Nat /\ r.to \in {Home, Away} /\ r.auth \in Auths
BY DEF LogicalRequests

LEMMA FailedScoped ==
  ASSUME NEW r \in LogicalRequests, NEW fatal
  PROVE  Failed(r, fatal) \in LogicalRequests /\ Scoped(Failed(r, fatal))
<1>1. NextTry(r) \in LogicalRequests /\ Scoped(NextTry(r))
  BY DEF NextTry, Idle, LogicalRequests, Scoped, NoAuth, Auths, Home, Away
<1> QED
  BY <1>1, IdleScoped DEF Failed

LEMMA ResponseScoped ==
  ASSUME NEW r \in LogicalRequests, Scoped(r)
  PROVE  LET s == [r EXCEPT !.stage = "response"]
         IN  s \in LogicalRequests /\ Scoped(s)
BY DEF LogicalRequests, Scoped

-----------------------------------------------------------------------------
(* The loop and the Python requesters                                      *)

LEMMA LoopSteps ==
  ASSUME HInv, NEW w \in Workers, Begin(w) \/ Pass(w) \/ Limited(w) PROVE HInv'
<1>1. req[w] \in LogicalRequests /\ Scoped(req[w]) /\ next_request \in Nat /\ issued \in Nat
  BY DEF HInv, HttpTypeOK
<1>2. CASE Begin(w)
  <2> DEFINE r == [Idle EXCEPT !.stage = "limit", !.index = next_request]
  <2>1. r \in LogicalRequests /\ Scoped(r)
    BY <1>1 DEF Idle, LogicalRequests, Scoped, NoAuth, Auths, Home, Away
  <2>2. /\ Becomes(w, r) /\ next_request' \in Nat /\ issued' \in Nat
        /\ UNCHANGED <<conf, challenge, answered, repeated>>
    BY <1>1, <1>2 DEF Begin
  <2> QED
    BY <2>1, <2>2, RequestChanges
<1>3. CASE Pass(w)
  <2> DEFINE r == [req[w] EXCEPT !.stage = "attempt"]
  <2>1. r \in LogicalRequests /\ Scoped(r)
    BY <1>1, <1>3 DEF LogicalRequests, Scoped, Pass
  <2>2. /\ Becomes(w, r) /\ next_request' \in Nat /\ issued' \in Nat
        /\ UNCHANGED <<conf, challenge, answered, repeated>>
    BY <1>1, <1>3 DEF Pass
  <2> QED
    BY <2>1, <2>2, RequestChanges
<1>4. CASE Limited(w)
  BY <1>4 DEF Limited, httpVars, HInv, HttpTypeOK, Scoped, Native, Python, Counted
<1> QED
  BY <1>2, <1>3, <1>4

LEMMA PythonSteps ==
  ASSUME HInv, NEW w \in Workers, PythonStep(w) PROVE HInv'
<1>1. /\ req[w] \in LogicalRequests /\ Scoped(req[w]) /\ next_request \in Nat
      /\ issued \in Nat
  BY DEF HInv, HttpTypeOK
<1>2. Python /\ ~Native
  BY DEF PythonStep, Send, Redirect, Respond, Finish, SendFails, Python, Native
<1>3. /\ next_request' \in Nat /\ issued' \in Nat
      /\ UNCHANGED <<conf, challenge, answered, repeated>>
  BY <1>1 DEF PythonStep, Send, Redirect, Respond, Finish, SendFails
<1>4. SUFFICES \E r \in LogicalRequests : Scoped(r) /\ Becomes(w, r)
  BY <1>3, RequestChanges
<1>5. CASE Send(w)
  <2> DEFINE r == [req[w] EXCEPT !.stage = "sent", !.tries = @ + 1,
                                 !.target = TRUE, !.raw = TRUE]
  <2>1. req[w].hops = 0 /\ req[w].to = Home
    BY <1>1, <1>5 DEF Send, Scoped
  <2>2. r \in LogicalRequests
    BY <1>1, RequestParts DEF LogicalRequests
  <2>3. Scoped(r)
    BY <1>1, <1>2, <2>1 DEF LogicalRequests, Scoped
  <2> QED
    BY <1>5, <2>2, <2>3 DEF Send
<1>6. CASE Redirect(w)
  <2>1. PICK o \in {Home, Away} :
          Becomes(w, [req[w] EXCEPT !.hops = @ + 1, !.to = o,
                                    !.target = target_after(req[w], TRUE),
                                    !.raw = target_after(req[w], TRUE)])
    BY <1>6 DEF Redirect
  <2>2. target_after(req[w], TRUE) = FALSE
    BY DEF target_after
  <2> DEFINE r == [req[w] EXCEPT !.hops = @ + 1, !.to = o, !.target = FALSE, !.raw = FALSE]
  <2>3. r \in LogicalRequests
    BY <1>1, RequestParts DEF LogicalRequests
  <2>4. req[w].stage = "sent"
    BY <1>6 DEF Redirect
  <2>5. Scoped(r)
    BY <1>1, <1>2, <2>4 DEF LogicalRequests, Scoped
  <2> QED
    BY <2>1, <2>2, <2>3, <2>5
<1>7. CASE Respond(w)
  <2> DEFINE r == [req[w] EXCEPT !.stage = "response",
                                 !.target = target_after(req[w], FALSE)]
  <2>1. target_after(req[w], FALSE) \in BOOLEAN
    BY <1>1 DEF target_after, LogicalRequests
  <2>2. r \in LogicalRequests /\ Scoped(r)
    BY <1>1, <2>1 DEF LogicalRequests, Scoped
  <2> QED
    BY <1>7, <2>2 DEF Respond
<1>8. CASE Finish(w)
  BY <1>1, <1>8, FailedScoped, IdleScoped DEF Finish
<1>9. CASE SendFails(w)
  BY <1>1, <1>9, FailedScoped DEF SendFails
<1> QED
  BY <1>5, <1>6, <1>7, <1>8, <1>9 DEF PythonStep

-----------------------------------------------------------------------------
(* The Rust transport                                                      *)

LEMMA AuthTypes ==
  /\ NoAuth \in Auths /\ Basic \in Auths /\ Ntlm \in Auths
  /\ \A c \in Prompts : Digest(c) \in Auths
BY DEF NoAuth, Basic, Ntlm, Digest, Auths, Prompts

\* A new top-level send takes the override it arms, and goes to the target's origin.
LEMMA TopSendScoped ==
  ASSUME Native, NEW r \in LogicalRequests, r.raw => ~conf.follow, NEW auth \in Auths,
         NEW step \in {"first", "negotiate", "final"}
  PROVE  TopSend(r, Home, auth, step) \in LogicalRequests /\ Scoped(TopSend(r, Home, auth, step))
<1>1. ~Python
  BY DEF Native, Python
<1>2. TopSend(r, Home, auth, step)
        = [r EXCEPT !.stage = "sent", !.hops = 0, !.to = Home, !.armed = FALSE,
                    !.auth = auth, !.step = step, !.cookie = TRUE]
  BY DEF TopSend, cookies, LogicalRequests
<1> DEFINE s == [r EXCEPT !.stage = "sent", !.hops = 0, !.to = Home, !.armed = FALSE,
                          !.auth = auth, !.step = step, !.cookie = TRUE]
<1>3. s \in LogicalRequests
  BY DEF LogicalRequests
<1>4. /\ s.stage = "sent" /\ s.hops = 0 /\ s.to = Home /\ s.armed = FALSE /\ s.raw = r.raw
  BY DEF LogicalRequests
<1>5. Scoped(s)
  BY <1>1, <1>4 DEF Scoped
<1> QED
  BY <1>2, <1>3, <1>5

LEMMA respondCounts ==
  ASSUME NEW c \in Prompts
  PROVE  /\ respond(c).cached = [nonce |-> c.nonce, count |-> c.count + 1]
         /\ respond(c).cached \in Prompts
         /\ respond(c).cached.nonce = c.nonce /\ respond(c).cached.count = c.count + 1
         /\ respond(c).auth = Digest(respond(c).cached)
         /\ respond(c).auth \in Auths
         /\ respond(c).auth.nonce = c.nonce
         /\ respond(c).auth.count = c.count + 1
BY DEF respond, Digest, Prompts, Auths

\* An answer that the cache has counted is new, and the cache stays ahead of all of them.
LEMMA AnswerCounted ==
  ASSUME HttpTypeOK, Counted, NEW c \in Prompts, NEW fresh \in BOOLEAN,
         fresh \/ c = challenge,
         Answer(respond(c).auth, fresh), challenge' = respond(c).cached
  PROVE  Counted' /\ answered' \in SUBSET Auths /\ challenge' \in Prompts
<1> DEFINE auth == respond(c).auth
           kept == {a \in answered : ~(fresh /\ a.nonce = auth.nonce)}
<1>1. /\ auth \in Auths /\ auth.nonce = c.nonce /\ auth.count = c.count + 1
      /\ challenge'.nonce = c.nonce /\ challenge'.count = c.count + 1
      /\ challenge' \in Prompts
  BY respondCounts
<1>2. answered' = kept \cup {auth} /\ repeated' = (repeated \/ auth \in kept)
  BY DEF Answer
<1>3. c.count \in Nat /\ \A a \in answered : a \in Auths /\ a.count \in Nat
  BY DEF HttpTypeOK, Prompts, Auths
<1>4. \A a \in kept : a.nonce = c.nonce => a.count <= c.count
  BY <1>1 DEF Counted
<1> HIDE DEF auth, kept
<1>5. auth \notin kept
  BY <1>1, <1>3, <1>4
<1>6. kept \subseteq answered
  BY DEF kept
<1>7. \A a \in answered' : a.nonce = challenge'.nonce => a.count <= challenge'.count
  BY <1>1, <1>2, <1>3, <1>4, <1>6
<1>8. ~repeated'
  BY <1>2, <1>5 DEF Counted
<1> QED
  BY <1>1, <1>2, <1>6, <1>7, <1>8 DEF Counted, HttpTypeOK

\* A Digest answer changes the request and the prompt together.
LEMMA AnswerChanges ==
  ASSUME HInv, NEW w \in Workers, NEW r \in LogicalRequests, Scoped(r), Becomes(w, r),
         NEW c \in Prompts, NEW fresh \in BOOLEAN, fresh \/ c = challenge,
         Answer(respond(c).auth, fresh), challenge' = respond(c).cached,
         UNCHANGED <<conf, next_request>>, issued' \in Nat
  PROVE  HInv'
<1>1. Counted' /\ answered' \in SUBSET Auths /\ challenge' \in Prompts
  BY AnswerCounted DEF HInv
<1>2. req' = [req EXCEPT ![w] = r]
  BY DEF Becomes
<1>3. HttpTypeOK'
  BY <1>1, <1>2 DEF HInv, HttpTypeOK
<1>4. ASSUME NEW v \in Workers PROVE Scoped(req[v])'
  BY <1>2, <1>4 DEF HInv, HttpTypeOK, Scoped, Native, Python
<1> QED
  BY <1>1, <1>3, <1>4 DEF HInv

LEMMA SendFirstSafe ==
  ASSUME HInv, NEW w \in Workers, SendFirst(w) PROVE HInv'
<1>1. /\ req[w] \in LogicalRequests /\ Scoped(req[w]) /\ next_request \in Nat
      /\ issued \in Nat /\ challenge \in Prompts
  BY DEF HInv, HttpTypeOK
<1>2. Native
  BY DEF SendFirst
<1> DEFINE r == [req[w] EXCEPT !.tries = @ + 1]
<1>3. r \in LogicalRequests /\ (r.raw => ~conf.follow)
  BY <1>1, <1>2, RequestParts DEF LogicalRequests, Scoped
<1>4. UNCHANGED <<conf, next_request, issued>>
  BY DEF SendFirst
<1>5. CASE conf.backend = "digest" /\ challenge # NoChallenge
  <2> DEFINE s == TopSend(r, Home, respond(challenge).auth, "first")
  <2>1. s \in LogicalRequests /\ Scoped(s)
    BY <1>1, <1>2, <1>3, respondCounts, TopSendScoped
  <2>2. /\ Becomes(w, s) /\ Answer(respond(challenge).auth, FALSE)
        /\ challenge' = respond(challenge).cached
    BY <1>5 DEF SendFirst
  <2> QED
    BY <1>1, <1>4, <2>1, <2>2, AnswerChanges
<1>6. CASE ~(conf.backend = "digest" /\ challenge # NoChallenge)
  <2> DEFINE s == TopSend(r, Home, IF conf.backend = "basic" THEN Basic ELSE NoAuth, "first")
  <2>1. s \in LogicalRequests /\ Scoped(s)
    BY <1>2, <1>3, AuthTypes, TopSendScoped
  <2>2. Becomes(w, s) /\ UNCHANGED <<challenge, answered, repeated>>
    BY <1>6 DEF SendFirst
  <2> QED
    BY <1>1, <1>4, <2>1, <2>2, RequestChanges
<1> QED
  BY <1>5, <1>6

LEMMA DigestChallengeSafe ==
  ASSUME HInv, NEW w \in Workers, DigestChallenge(w) PROVE HInv'
<1>1. /\ req[w] \in LogicalRequests /\ Scoped(req[w]) /\ next_request \in Nat
      /\ issued \in Nat
  BY DEF HInv, HttpTypeOK
<1>2. Native
  BY DEF DigestChallenge, Native
<1>3. PICK n \in 1 .. issued + 1 :
        /\ issued' = IF n > issued THEN n ELSE issued
        /\ IF req[w].step = "first" /\ same_origin(Home, req[w].to)
           THEN LET a == respond([nonce |-> n, count |-> 0]) IN
                /\ Becomes(w, TopSend(req[w], req[w].to, a.auth, "final"))
                /\ challenge' = a.cached
                /\ Answer(a.auth, TRUE)
           ELSE /\ Becomes(w, [req[w] EXCEPT !.stage = "response"])
                /\ UNCHANGED <<challenge, answered, repeated>>
  BY DEF DigestChallenge
<1>4. issued' \in Nat /\ UNCHANGED <<conf, next_request>>
  BY <1>1, <1>3 DEF DigestChallenge
<1>5. CASE req[w].step = "first" /\ same_origin(Home, req[w].to)
  <2> DEFINE c == [nonce |-> n, count |-> 0]
             s == TopSend(req[w], req[w].to, respond(c).auth, "final")
  <2>1. c \in Prompts
    BY <1>1 DEF Prompts
  <2>2. req[w].to = Home
    BY <1>5 DEF same_origin
  <2>3. s \in LogicalRequests /\ Scoped(s)
    BY <1>1, <1>2, <2>1, <2>2, respondCounts, TopSendScoped DEF Scoped
  <2>4. Becomes(w, s) /\ Answer(respond(c).auth, TRUE) /\ challenge' = respond(c).cached
    BY <1>3, <1>5
  <2> QED
    BY <1>4, <2>1, <2>3, <2>4, AnswerChanges
<1>6. CASE ~(req[w].step = "first" /\ same_origin(Home, req[w].to))
  BY <1>1, <1>3, <1>4, <1>6, ResponseScoped, RequestChanges
<1> QED
  BY <1>5, <1>6

\* A failure to answer sends nothing: what the cache then holds has no answers, or is
\* what it held before.
LEMMA AnswerFailsSafe ==
  ASSUME HInv, NEW w \in Workers, AnswerFails(w) PROVE HInv'
<1>1. /\ req[w] \in LogicalRequests /\ Scoped(req[w]) /\ issued \in Nat
      /\ challenge \in Prompts /\ answered \in SUBSET Auths /\ Counted
  BY DEF HInv, HttpTypeOK
<1>2. UNCHANGED <<conf, next_request, repeated>>
  BY DEF AnswerFails
<1> DEFINE again == [req[w] EXCEPT !.tries = @ + 1]
<1>3. again \in LogicalRequests
  BY <1>1, RequestParts DEF LogicalRequests
<1> HIDE DEF again
<1>4. PICK r \in {again, req[w]} : Becomes(w, Failed(r, FALSE))
  BY DEF AnswerFails, again
<1>5. Failed(r, FALSE) \in LogicalRequests /\ Scoped(Failed(r, FALSE))
  BY <1>1, <1>3, FailedScoped
<1>6. req' = [req EXCEPT ![w] = Failed(r, FALSE)]
  BY <1>4 DEF Becomes
<1>7. issued' \in Nat /\ challenge' \in Prompts /\ answered' \in SUBSET Auths /\ Counted'
  <2>1. CASE UNCHANGED <<challenge, issued, answered>>
    BY <1>1, <1>2, <2>1 DEF Counted
  <2>2. ASSUME NEW n \in 1 .. issued + 1,
               issued' = IF n > issued THEN n ELSE issued,
               challenge' = [nonce |-> n, count |-> 0],
               answered' = {a \in answered : a.nonce # n}
        PROVE  issued' \in Nat /\ challenge' \in Prompts /\ answered' \in SUBSET Auths /\ Counted'
    BY <1>1, <1>2, <2>2 DEF Counted, Prompts
  <2> QED
    BY <2>1, <2>2 DEF AnswerFails
<1>8. HttpTypeOK'
  BY <1>2, <1>5, <1>6, <1>7 DEF HInv, HttpTypeOK
<1>9. ASSUME NEW v \in Workers PROVE Scoped(req[v])'
  BY <1>2, <1>5, <1>6, <1>9 DEF HInv, HttpTypeOK, Scoped, Native, Python
<1> QED
  BY <1>7, <1>8, <1>9 DEF HInv

\* The other steps of the transport leave the Digest state alone.
LEMMA OtherNativeSteps ==
  ASSUME HInv, NEW w \in Workers,
         \/ SendRaw(w) \/ RefuseRaw(w) \/ FollowRedirect(w) \/ NtlmChallenge(w)
         \/ OtherResponse(w) \/ ReadBody(w) \/ ClientFails(w)
  PROVE  HInv'
<1>1. /\ req[w] \in LogicalRequests /\ Scoped(req[w]) /\ next_request \in Nat
      /\ issued \in Nat
  BY DEF HInv, HttpTypeOK
<1>2. Native /\ ~Python
  BY DEF SendRaw, RefuseRaw, FollowRedirect, NtlmChallenge, OtherResponse, ReadBody,
         ClientFails, Native, Python
<1>3. /\ next_request' \in Nat /\ issued' \in Nat
      /\ UNCHANGED <<conf, challenge, answered, repeated>>
  BY <1>1 DEF SendRaw, RefuseRaw, FollowRedirect, NtlmChallenge, OtherResponse, ReadBody,
              ClientFails
<1>4. SUFFICES \E r \in LogicalRequests : Scoped(r) /\ Becomes(w, r)
  BY <1>3, RequestChanges
<1>5. CASE SendRaw(w)
  <2> DEFINE r == [req[w] EXCEPT !.stage = "sent", !.tries = @ + 1, !.raw = TRUE,
                                 !.cookie = TRUE, !.auth = Basic]
  <2>1. req[w].hops = 0 /\ req[w].to = Home /\ ~conf.follow
    BY <1>1, <1>5 DEF SendRaw, Scoped, use_raw_path
  <2>2. r \in LogicalRequests
    <3>1. Basic \in Auths /\ req[w].tries + 1 \in Nat
      BY <1>1, AuthTypes, RequestParts
    <3> QED
      BY <1>1, <3>1 DEF LogicalRequests
  <2>3. r.hops = 0 /\ r.to = Home /\ r.armed = req[w].armed /\ r.stage = "sent"
    BY <1>1, <2>1 DEF LogicalRequests
  <2>4. ~req[w].armed
    BY <1>1, <1>5 DEF Scoped, SendRaw
  <2>5. Scoped(r)
    BY <1>2, <2>1, <2>3, <2>4 DEF Scoped
  <2> QED
    BY <1>5, <2>2, <2>5 DEF SendRaw
<1>6. CASE RefuseRaw(w)
  BY <1>6, IdleScoped DEF RefuseRaw
<1>7. CASE FollowRedirect(w)
  <2>1. /\ req[w].stage = "sent" /\ conf.follow
        /\ ~req[w].armed /\ ~req[w].raw
    BY <1>1, <1>2, <1>7 DEF FollowRedirect, Follows, Scoped
  <2>2. PICK o \in {Home, Away} :
          Becomes(w, cookies([req[w] EXCEPT
            !.hops = @ + 1, !.to = o,
            !.auth = IF o = req[w].to THEN @ ELSE NoAuth]))
    BY <1>7 DEF FollowRedirect
  <2> DEFINE auth == IF o = req[w].to THEN req[w].auth ELSE NoAuth
             r == [req[w] EXCEPT !.hops = @ + 1, !.to = o, !.auth = auth,
                                 !.cookie = FALSE, !.armed = FALSE]
  <2>3. auth \in Auths /\ (o # Home => auth = NoAuth)
    BY <1>1, <2>1, AuthTypes, RequestParts DEF Scoped
  <2>4. r = cookies([req[w] EXCEPT
              !.hops = @ + 1, !.to = o,
              !.auth = IF o = req[w].to THEN @ ELSE NoAuth])
    BY <1>1, <2>1 DEF cookies, LogicalRequests
  <2> HIDE DEF auth
  <2>5. r \in LogicalRequests
    BY <1>1, <2>3, RequestParts DEF LogicalRequests
  <2>6. Scoped(r)
    BY <1>1, <1>2, <2>1, <2>3 DEF Scoped, LogicalRequests
  <2> QED
    BY <2>2, <2>4, <2>5, <2>6
<1>8. CASE NtlmChallenge(w)
  <2>1. CASE req[w].step # "final" /\ same_origin(Home, req[w].to)
    <3> DEFINE step == IF req[w].step = "first" THEN "negotiate" ELSE "final"
    <3>1. req[w].to = Home
      BY <2>1 DEF same_origin
    <3>2. Becomes(w, TopSend(req[w], Home, Ntlm, step))
      BY <1>8, <2>1, <3>1 DEF NtlmChallenge
    <3> QED
      BY <1>1, <1>2, <3>2, AuthTypes, TopSendScoped DEF Scoped
  <2>2. CASE ~(req[w].step # "final" /\ same_origin(Home, req[w].to))
    BY <1>1, <1>8, <2>2, FailedScoped, ResponseScoped DEF NtlmChallenge
  <2> QED
    BY <2>1, <2>2
<1>9. CASE OtherResponse(w)
  BY <1>1, <1>9, FailedScoped, ResponseScoped DEF OtherResponse
<1>10. CASE ReadBody(w) \/ ClientFails(w)
  BY <1>1, <1>10, FailedScoped, IdleScoped DEF ReadBody, ClientFails
<1> QED
  BY <1>5, <1>6, <1>7, <1>8, <1>9, <1>10

LEMMA HttpNextHInv ==
  ASSUME HInv, [HttpNext]_allVars PROVE HInv'
<1>1. CASE UNCHANGED httpVars
  BY <1>1 DEF httpVars, HInv, HttpTypeOK, Scoped, Native, Python, Counted
<1>2. ASSUME NEW w \in Workers, NativeStep(w) PROVE HInv'
  BY <1>2, SendFirstSafe, DigestChallengeSafe, AnswerFailsSafe, OtherNativeSteps
     DEF NativeStep
<1>3. TimePasses \/ ReadRate \/ UNCHANGED allVars => UNCHANGED httpVars
  BY DEF TimePasses, ReadRate, allVars
<1> QED
  BY <1>1, <1>2, <1>3, LoopSteps, PythonSteps DEF HttpNext, RequestStep

LEMMA HttpInvariant == HttpSpec => []HInv
BY LoopInitHInv, HttpNextHInv, PTL DEF HttpSpec

-----------------------------------------------------------------------------
\* HopScope: however redirects, challenges and retries are chained, the raw target and
\* the configured Cookie stay on the first hop, and no Authorization value leaves the
\* target's origin.
THEOREM ScopeIsKept == HttpSpec => []HopScope
<1>1. HInv => HopScope
  BY DEF HInv, Scoped, HopScope
<1> QED
  BY <1>1, HttpInvariant, PTL

\* NonceCounts: digest_authorization never sends the same nonce and count twice, however
\* the workers share the cached challenge.
THEOREM NoncesCount == HttpSpec => []NonceCounts
<1>1. HInv => NonceCounts
  BY DEF HInv, Counted, NonceCounts
<1> QED
  BY <1>1, HttpInvariant, PTL

\* Two workers' clients differ whatever the proxies of their requests.
LEMMA ClientsDiffer ==
  ASSUME NEW n \in Nat \ {0}, NEW a \in Nat, NEW b \in Nat,
         NEW v \in 0 .. n - 1, NEW w \in 0 .. n - 1, v # w
  PROVE  a * n + v # b * n + w
<1>1. CASE a = b
  BY <1>1
<1>2. ASSUME NEW x \in Nat, NEW y \in Nat, x < y PROVE x * n + n <= y * n
  <2>1. PICK d \in Nat : y = x + 1 + d
    <3>1. y - x - 1 \in Nat /\ y = x + 1 + (y - x - 1)
      BY <1>2
    <3> QED
      BY <3>1
  <2>2. y * n = x * n + n + d * n
    BY <2>1
  <2>3. d * n \in Nat /\ x * n \in Nat
    OBVIOUS
  <2> QED
    BY <2>2, <2>3
<1>3. a * n \in Nat /\ b * n \in Nat
  OBVIOUS
<1>4. CASE a < b
  BY <1>2, <1>3, <1>4
<1>5. CASE b < a
  BY <1>2, <1>3, <1>5
<1> QED
  BY <1>1, <1>4, <1>5

\* OwnConnection: client_index gives every worker its own NTLM client for every proxy.
THEOREM ConnectionsAreOwn == HttpSpec => []OwnConnection
<1>1. ASSUME HInv PROVE OwnConnection
  <2> SUFFICES ASSUME NEW v \in Workers, NEW w \in Workers, conf.backend = "ntlm", v # w
               PROVE  client_index(req[v].index, v) # client_index(req[w].index, w)
    BY DEF OwnConnection
  <2> DEFINE n == Cardinality(Workers)
             a == req[v].index % proxy_count
             b == req[w].index % proxy_count
  <2>1. n \in Nat /\ Workers = 0 .. n - 1
    BY WorkerAssumption, FS_CardinalityType
  <2>2. v \in 0 .. n - 1 /\ w \in 0 .. n - 1 /\ n # 0 /\ n # 1
    BY <2>1
  <2>3. req[v].index \in Nat /\ req[w].index \in Nat /\ conf.proxies \in Nat
    BY <1>1, RequestParts, RequestAssumption DEF HInv, HttpTypeOK
  <2>4. proxy_count \in Nat \ {0}
    BY <2>3 DEF proxy_count
  <2>5. a \in Nat /\ b \in Nat
    BY <2>3, <2>4
  <2>6. /\ client_index(req[v].index, v) = a * n + v
        /\ client_index(req[w].index, w) = b * n + w
    BY <2>2 DEF client_index, clients_per_proxy
  <2> HIDE DEF a, b, n
  <2> QED
    BY <2>1, <2>2, <2>5, <2>6, ClientsDiffer
<1> QED
  BY <1>1, HttpInvariant, PTL

=============================================================================
