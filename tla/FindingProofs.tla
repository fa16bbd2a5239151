---------------------------- MODULE FindingProofs ----------------------------
(***************************************************************************)
(* From a response to a row of the report.  The pipeline decides which     *)
(* responses become findings (ResponsePipeline), the report keeps every    *)
(* finding it was given (StructuredReport).  The two modules share         *)
(* nothing, a finding apart: the first part of this module is about the    *)
(* one, the second about the other, for any number of threads, answers and *)
(* rows.                                                                   *)
(***************************************************************************)
EXTENDS ResponsePipeline, StructuredReport, FiniteSetTheorems, SequenceTheorems,
        WellFoundedInduction, TLAPS

(***************************************************************************)
(*                        Part 1.  The pipeline                            *)
(***************************************************************************)
Recorded(r) == should_record_auto_calibration(options, r)

\* The findings with a fingerprint that calibration counts, and the threads
\* whose response has been counted and may become one.
Repeats(fp) == {s \in found : response_fingerprint(s) = fp /\ Recorded(s)}
OnTheWay(fp) ==
    {t \in Threads : /\ held[t].step = "decide"
                     /\ response_fingerprint(held[t].r) = fp
                     /\ Recorded(held[t].r)}
Alike(fp) == {s \in found : filter_fingerprint(s) = fp}

HeldOK ==
    /\ held = [t \in Threads |-> held[t]]
    /\ \A t \in Threads :
          \/ held[t] = Nothing
          \/ held[t] \in [step : {"exclude", "decide"}, w : {held[t].w}, r : {held[t].r}]
    /\ IsFiniteSet(found)
    /\ IsFiniteSet({t \in Threads : Busy(t)})

\* What has been reported of a fingerprint, and what may still be, was counted.
RepeatsCounted ==
    /\ \A s \in found : Recorded(s) => response_fingerprint(s) \in DOMAIN _similar_fingerprints
    /\ \A t \in Threads : held[t].step = "decide" /\ Recorded(held[t].r) =>
          response_fingerprint(held[t].r) \in DOMAIN _similar_fingerprints
    /\ \A fp \in DOMAIN _similar_fingerprints :
          /\ _similar_fingerprints[fp] \in Nat
          /\ Cardinality(Repeats(fp)) + Cardinality(OnTheWay(fp)) <= _similar_fingerprints[fp]
          /\ Cardinality(Repeats(fp)) + Cardinality(OnTheWay(fp)) < CalibrationThreshold
          /\ fp \notin _auto_calibrated_fingerprints =>
                _similar_fingerprints[fp] < CalibrationThreshold

AlikeCounted ==
    options.filter_threshold > 0 =>
        /\ \A s \in found : filter_fingerprint(s) \in DOMAIN _filter_fingerprints
        /\ \A fp \in DOMAIN _filter_fingerprints :
              /\ _filter_fingerprints[fp] \in Nat
              /\ Cardinality(Alike(fp)) <= _filter_fingerprints[fp]
              /\ _filter_fingerprints[fp] <= options.filter_threshold

CInv == scenario \in Scenarios /\ HeldOK /\ RepeatsCounted /\ AlikeCounted

-----------------------------------------------------------------------------
\* What no step of a thread touches.
SameCounters == UNCHANGED <<scenario, stateVars, found>>

LEMMA Thresholds ==
  ASSUME scenario \in Scenarios
  PROVE  CalibrationThreshold \in Nat \ {0} /\ options.filter_threshold \in Nat
BY PipelineAssumption, ScenarioAssumption DEF CalibrationThreshold, options

LEMMA WaysAreFinite ==
  ASSUME HeldOK, NEW fp
  PROVE  IsFiniteSet(OnTheWay(fp)) /\ IsFiniteSet(Repeats(fp)) /\ IsFiniteSet(Alike(fp))
<1>1. OnTheWay(fp) \subseteq {t \in Threads : Busy(t)}
  BY DEF OnTheWay, Busy
<1>2. Repeats(fp) \subseteq found /\ Alike(fp) \subseteq found
  BY DEF Repeats, Alike
<1> QED
  BY <1>1, <1>2, FS_Subset DEF HeldOK

\* A thread that takes a response, or drops one before it was counted.
LEMMA OtherThreads ==
  ASSUME CInv, SameCounters, NEW t \in Threads, held[t].step # "decide",
         held' = [held EXCEPT ![t] = held'[t]],
         \/ held'[t] = Nothing
         \/ \E w, r : held'[t] = [step |-> "exclude", w |-> w, r |-> r]
  PROVE  CInv'
<1>1. \A u \in Threads : u # t => held'[u] = held[u]
  BY DEF CInv, HeldOK
<1>2. held'[t].step \in {"idle", "exclude"}
  <2>1. CASE held'[t] = Nothing
    BY <2>1 DEF Nothing
  <2>2. CASE \E w, r : held'[t] = [step |-> "exclude", w |-> w, r |-> r]
    BY <2>2
  <2> QED
    BY <2>1, <2>2
<1>3. HeldOK'
  <2>1. held' = [u \in Threads |-> held'[u]]
    BY DEF CInv, HeldOK
  <2>2. \A u \in Threads :
          \/ held'[u] = Nothing
          \/ held'[u] \in [step : {"exclude", "decide"}, w : {held'[u].w}, r : {held'[u].r}]
    BY <1>1 DEF CInv, HeldOK
  <2>3. {u \in Threads : Busy(u)'} \subseteq {u \in Threads : Busy(u)} \cup {t}
    BY <1>1 DEF Busy
  <2>4. IsFiniteSet({u \in Threads : Busy(u)} \cup {t})
    BY FS_AddElement DEF CInv, HeldOK
  <2>5. IsFiniteSet({u \in Threads : Busy(u)'})
    BY <2>3, <2>4, FS_Subset
  <2> QED
    BY <2>1, <2>2, <2>5 DEF HeldOK, CInv, SameCounters
<1>4. \A fp : OnTheWay(fp)' = OnTheWay(fp)
  BY <1>1, <1>2 DEF OnTheWay, Recorded, options, SameCounters
<1>5. \A fp : Repeats(fp)' = Repeats(fp) /\ Alike(fp)' = Alike(fp)
  BY DEF Repeats, Alike, Recorded, options, SameCounters
<1>6. RepeatsCounted'
  BY <1>1, <1>2, <1>4, <1>5 DEF CInv, RepeatsCounted, SameCounters, stateVars, Recorded, options,
     CalibrationThreshold
<1>7. AlikeCounted'
  BY <1>5 DEF CInv, AlikeCounted, SameCounters, stateVars, options
<1> QED
  BY <1>3, <1>6, <1>7 DEF CInv, SameCounters

\* A counted response goes no further: it is a wildcard, or repeated too often.
LEMMA DroppedLater ==
  ASSUME CInv, SameCounters, NEW t \in Threads, Drop(t)
  PROVE  CInv'
<1>1. \A u \in Threads : u # t => held'[u] = held[u]
  BY DEF CInv, HeldOK, Drop
<1>2. held'[t] = Nothing /\ held'[t].step = "idle" /\ held' = [held EXCEPT ![t] = held'[t]]
  BY DEF Nothing, Drop, CInv, HeldOK
<1>3. HeldOK'
  <2>1. held' = [u \in Threads |-> held'[u]]
    BY DEF CInv, HeldOK, Drop
  <2>2. \A u \in Threads :
          \/ held'[u] = Nothing
          \/ held'[u] \in [step : {"exclude", "decide"}, w : {held'[u].w}, r : {held'[u].r}]
    BY <1>1, <1>2 DEF CInv, HeldOK
  <2>3. {u \in Threads : Busy(u)'} \subseteq {u \in Threads : Busy(u)}
    BY <1>1, <1>2 DEF Busy
  <2>5. IsFiniteSet({u \in Threads : Busy(u)'})
    BY <2>3, FS_Subset DEF CInv, HeldOK
  <2> QED
    BY <2>1, <2>2, <2>5 DEF HeldOK, CInv, SameCounters
<1>4. \A fp : OnTheWay(fp)' \subseteq OnTheWay(fp)
  BY <1>1, <1>2 DEF OnTheWay, Recorded, options, SameCounters
<1>5. \A fp : Repeats(fp)' = Repeats(fp) /\ Alike(fp)' = Alike(fp)
  BY DEF Repeats, Alike, Recorded, options, SameCounters
<1>6. \A fp : /\ Cardinality(OnTheWay(fp)') <= Cardinality(OnTheWay(fp))
              /\ Cardinality(OnTheWay(fp)') \in Nat /\ Cardinality(OnTheWay(fp)) \in Nat
              /\ Cardinality(Repeats(fp)) \in Nat
  <2> SUFFICES ASSUME NEW fp
               PROVE  /\ Cardinality(OnTheWay(fp)') <= Cardinality(OnTheWay(fp))
                      /\ Cardinality(OnTheWay(fp)') \in Nat /\ Cardinality(OnTheWay(fp)) \in Nat
                      /\ Cardinality(Repeats(fp)) \in Nat
    OBVIOUS
  <2>1. IsFiniteSet(OnTheWay(fp)) /\ IsFiniteSet(Repeats(fp))
    BY WaysAreFinite DEF CInv
  <2>2. IsFiniteSet(OnTheWay(fp)')
    BY <2>1, <1>4, FS_Subset
  <2> QED
    BY <2>1, <2>2, <1>4, FS_Subset, FS_CardinalityType
<1>7. RepeatsCounted'
  <2>1. \A fp \in DOMAIN _similar_fingerprints :
          /\ Cardinality(Repeats(fp)') + Cardinality(OnTheWay(fp)') <= _similar_fingerprints[fp]
          /\ Cardinality(Repeats(fp)') + Cardinality(OnTheWay(fp)') < CalibrationThreshold
    <3> SUFFICES ASSUME NEW fp \in DOMAIN _similar_fingerprints
                 PROVE  /\ Cardinality(Repeats(fp)') + Cardinality(OnTheWay(fp)') <= _similar_fingerprints[fp]
                        /\ Cardinality(Repeats(fp)') + Cardinality(OnTheWay(fp)') < CalibrationThreshold
      OBVIOUS
    <3>1. CalibrationThreshold \in Nat
      BY Thresholds DEF CInv
    <3>2. /\ _similar_fingerprints[fp] \in Nat
          /\ Cardinality(Repeats(fp)) + Cardinality(OnTheWay(fp)) <= _similar_fingerprints[fp]
          /\ Cardinality(Repeats(fp)) + Cardinality(OnTheWay(fp)) < CalibrationThreshold
      BY DEF CInv, RepeatsCounted
    <3> QED
      BY <1>5, <1>6, <3>1, <3>2
  <2> QED
    BY <1>1, <1>2, <1>5, <2>1 DEF CInv, RepeatsCounted, SameCounters, stateVars, Recorded, options,
       CalibrationThreshold
<1>8. AlikeCounted'
  BY <1>5 DEF CInv, AlikeCounted, SameCounters, stateVars, options
<1> QED
  BY <1>3, <1>7, <1>8 DEF CInv, SameCounters

-----------------------------------------------------------------------------
\* Counting a fingerprint.
LEMMA CountedOnce ==
  ASSUME NEW counts, NEW key, \A k \in DOMAIN counts : counts[k] \in Nat
  PROVE  /\ DOMAIN Counted(counts, key) = DOMAIN counts \cup {key}
         /\ Counted(counts, key)[key] = Count(counts, key) + 1
         /\ \A k \in DOMAIN counts : k # key => Counted(counts, key)[k] = counts[k]
         /\ \A k : Count(counts, k) \in Nat
BY DEF Counted, Count

LEMMA RepeatsBelow ==
  ASSUME CInv, NEW fp
  PROVE  /\ Cardinality(Repeats(fp)) \in Nat /\ Cardinality(OnTheWay(fp)) \in Nat
         /\ Count(_similar_fingerprints, fp) \in Nat
         /\ Cardinality(Repeats(fp)) + Cardinality(OnTheWay(fp)) <= Count(_similar_fingerprints, fp)
         /\ Cardinality(Repeats(fp)) + Cardinality(OnTheWay(fp)) < CalibrationThreshold
<1>1. CalibrationThreshold \in Nat \ {0}
  BY Thresholds DEF CInv
<1>2. Cardinality(Repeats(fp)) \in Nat /\ Cardinality(OnTheWay(fp)) \in Nat
  BY WaysAreFinite, FS_CardinalityType DEF CInv
<1>3. CASE fp \in DOMAIN _similar_fingerprints
  BY <1>2, <1>3 DEF CInv, RepeatsCounted, Count
<1>4. CASE fp \notin DOMAIN _similar_fingerprints
  <2>1. Repeats(fp) = {} /\ OnTheWay(fp) = {}
    BY <1>4 DEF CInv, RepeatsCounted, Repeats, OnTheWay
  <2>2. Cardinality(Repeats(fp)) = 0 /\ Cardinality(OnTheWay(fp)) = 0
    BY <2>1, FS_EmptySet
  <2> QED
    BY <1>1, <1>4, <2>2 DEF Count
<1> QED
  BY <1>3, <1>4

\* is_auto_calibrated keeps a response: the thread may report it.
LEMMA HeldKept ==
  ASSUME CInv, UNCHANGED <<scenario, found>>, NEW t \in Threads, held[t].step = "exclude", Keep(t)
  PROVE  /\ HeldOK'
         /\ held'[t].step = "decide" /\ held'[t].r = held[t].r
         /\ \A u \in Threads : u # t => held'[u] = held[u]
<1>0. held[t] \in [step : {"exclude", "decide"}, w : {held[t].w}, r : {held[t].r}]
  <2>1. held[t] # Nothing
    BY DEF Nothing
  <2> QED
    BY <2>1 DEF CInv, HeldOK
<1>1. \A u \in Threads : u # t => held'[u] = held[u]
  BY DEF CInv, HeldOK, Keep
<1>2. held'[t] = [held[t] EXCEPT !.step = "decide"]
  BY DEF CInv, HeldOK, Keep
<1>3. /\ held'[t].step = "decide" /\ held'[t].r = held[t].r /\ held'[t].w = held[t].w
      /\ held'[t] \in [step : {"exclude", "decide"}, w : {held'[t].w}, r : {held'[t].r}]
  BY <1>0, <1>2
<1>4. HeldOK'
  <2>1. held' = [u \in Threads |-> held'[u]]
    BY DEF CInv, HeldOK, Keep
  <2>2. \A u \in Threads :
          \/ held'[u] = Nothing
          \/ held'[u] \in [step : {"exclude", "decide"}, w : {held'[u].w}, r : {held'[u].r}]
    BY <1>1, <1>3 DEF CInv, HeldOK
  <2>3. {u \in Threads : Busy(u)'} \subseteq {u \in Threads : Busy(u)} \cup {t}
    BY <1>1 DEF Busy
  <2>4. IsFiniteSet({u \in Threads : Busy(u)} \cup {t})
    BY FS_AddElement DEF CInv, HeldOK
  <2>5. IsFiniteSet({u \in Threads : Busy(u)'})
    BY <2>3, <2>4, FS_Subset
  <2> QED
    BY <2>1, <2>2, <2>5 DEF HeldOK, CInv
<1> QED
  BY <1>1, <1>3, <1>4

LEMMA Calibrated ==
  ASSUME CInv, NEW t \in Threads, is_auto_calibrated(t)
  PROVE  CInv'
<1> DEFINE r == held[t].r
           fp == response_fingerprint(r)
<1>1. /\ held[t].step = "exclude"
      /\ UNCHANGED <<scenario, found, _filter_fingerprints>>
  BY DEF is_auto_calibrated
<1>2. AlikeCounted'
  <2>1. \A k : Alike(k)' = Alike(k)
    BY <1>1 DEF Alike
  <2> QED
    BY <1>1, <2>1 DEF CInv, AlikeCounted, options
<1>3. \A k : Repeats(k)' = Repeats(k)
  BY <1>1 DEF Repeats, Recorded, options
<1>4. CalibrationThreshold' = CalibrationThreshold /\ CalibrationThreshold \in Nat \ {0}
  BY <1>1, Thresholds DEF CInv, CalibrationThreshold, options
<1>5. CASE /\ Drop(t)
           /\ UNCHANGED <<_similar_fingerprints, _auto_calibrated_fingerprints>>
  BY <1>1, <1>5, DroppedLater DEF SameCounters, stateVars
<1>6. CASE /\ ~Recorded(r)
           /\ Keep(t)
           /\ UNCHANGED <<_similar_fingerprints, _auto_calibrated_fingerprints>>
  <2>1. /\ HeldOK'
        /\ held'[t].step = "decide" /\ held'[t].r = held[t].r
        /\ \A u \in Threads : u # t => held'[u] = held[u]
    BY <1>1, <1>6, HeldKept
  <2>2. \A k : OnTheWay(k)' = OnTheWay(k)
    BY <1>1, <1>6, <2>1 DEF OnTheWay, Recorded, options
  <2>3. \A u \in Threads : held'[u].step = "decide" /\ Recorded(held'[u].r) =>
           held[u].step = "decide" /\ held'[u].r = held[u].r
    BY <1>1, <1>6, <2>1
  <2>4. RepeatsCounted'
    BY <1>1, <1>3, <1>4, <1>6, <2>2, <2>3 DEF CInv, RepeatsCounted, Recorded, options
  <2> QED
    BY <1>1, <1>2, <2>1, <2>4 DEF CInv
<1>7. CASE /\ fp \notin _auto_calibrated_fingerprints
           /\ Recorded(r)
           /\ _similar_fingerprints' = Counted(_similar_fingerprints, fp)
           /\ CalibratedAt(fp) /\ Drop(t)
           /\ _auto_calibrated_fingerprints' = _auto_calibrated_fingerprints \cup {fp}
  <2>1. /\ held'[t] = Nothing
        /\ \A u \in Threads : u # t => held'[u] = held[u]
    BY <1>7 DEF CInv, HeldOK, Drop
  <2>2. HeldOK'
    <3>1. held' = [u \in Threads |-> held'[u]]
      BY <1>7 DEF CInv, HeldOK, Drop
    <3>2. \A u \in Threads :
            \/ held'[u] = Nothing
            \/ held'[u] \in [step : {"exclude", "decide"}, w : {held'[u].w}, r : {held'[u].r}]
      BY <2>1 DEF CInv, HeldOK
    <3>3. {u \in Threads : Busy(u)'} \subseteq {u \in Threads : Busy(u)}
      BY <2>1 DEF Busy, Nothing
    <3>4. IsFiniteSet({u \in Threads : Busy(u)'})
      BY <3>3, FS_Subset DEF CInv, HeldOK
    <3> QED
      BY <1>1, <3>1, <3>2, <3>4 DEF HeldOK, CInv
  <2>3. /\ DOMAIN _similar_fingerprints' = DOMAIN _similar_fingerprints \cup {fp}
        /\ _similar_fingerprints'[fp] = Count(_similar_fingerprints, fp) + 1
        /\ \A k \in DOMAIN _similar_fingerprints : k # fp =>
              _similar_fingerprints'[k] = _similar_fingerprints[k]
        /\ Count(_similar_fingerprints, fp) \in Nat
    <3>1. \A k \in DOMAIN _similar_fingerprints : _similar_fingerprints[k] \in Nat
      BY DEF CInv, RepeatsCounted
    <3> HIDE DEF fp
    <3> QED
      BY <3>1, <1>7, CountedOnce
  <2>4. \A k : OnTheWay(k)' = OnTheWay(k)
    BY <1>1, <2>1 DEF OnTheWay, Recorded, options, Nothing
  <2>5. /\ \A s \in found' : Recorded(s)' => response_fingerprint(s) \in DOMAIN _similar_fingerprints'
        /\ \A u \in Threads : held'[u].step = "decide" /\ Recorded(held[u].r)' =>
             response_fingerprint(held'[u].r) \in DOMAIN _similar_fingerprints'
    BY <1>1, <2>1, <2>3 DEF CInv, RepeatsCounted, Recorded, options, Nothing
  <2>6. \A k \in DOMAIN _similar_fingerprints' :
          /\ _similar_fingerprints'[k] \in Nat
          /\ Cardinality(Repeats(k)') + Cardinality(OnTheWay(k)') <= _similar_fingerprints'[k]
          /\ Cardinality(Repeats(k)') + Cardinality(OnTheWay(k)') < CalibrationThreshold
          /\ k \notin _auto_calibrated_fingerprints' =>
                _similar_fingerprints'[k] < CalibrationThreshold
    <3> SUFFICES ASSUME NEW k \in DOMAIN _similar_fingerprints'
                 PROVE  /\ _similar_fingerprints'[k] \in Nat
                        /\ Cardinality(Repeats(k)') + Cardinality(OnTheWay(k)') <= _similar_fingerprints'[k]
                        /\ Cardinality(Repeats(k)') + Cardinality(OnTheWay(k)') < CalibrationThreshold
                        /\ k \notin _auto_calibrated_fingerprints' =>
                              _similar_fingerprints'[k] < CalibrationThreshold
      OBVIOUS
    <3>1. Repeats(k)' = Repeats(k) /\ OnTheWay(k)' = OnTheWay(k)
      BY <1>3, <2>4
    <3>2. CASE k = fp
      BY <1>7, <2>3, <3>1, <3>2, RepeatsBelow
    <3>3. CASE k # fp
      BY <1>7, <2>3, <3>1, <3>3 DEF CInv, RepeatsCounted
    <3> QED
      BY <3>2, <3>3
  <2>7. RepeatsCounted'
    BY <1>4, <2>5, <2>6 DEF RepeatsCounted
  <2> QED
    BY <1>1, <1>2, <2>2, <2>7 DEF CInv
<1>8. CASE /\ fp \notin _auto_calibrated_fingerprints
           /\ Recorded(r)
           /\ _similar_fingerprints' = Counted(_similar_fingerprints, fp)
           /\ ~CalibratedAt(fp) /\ Keep(t)
           /\ UNCHANGED _auto_calibrated_fingerprints
  <2>1. /\ HeldOK'
        /\ held'[t].step = "decide" /\ held'[t].r = held[t].r
        /\ \A u \in Threads : u # t => held'[u] = held[u]
    BY <1>1, <1>8, HeldKept
  <2>3. /\ DOMAIN _similar_fingerprints' = DOMAIN _similar_fingerprints \cup {fp}
        /\ _similar_fingerprints'[fp] = Count(_similar_fingerprints, fp) + 1
        /\ \A k \in DOMAIN _similar_fingerprints : k # fp =>
              _similar_fingerprints'[k] = _similar_fingerprints[k]
        /\ Count(_similar_fingerprints, fp) \in Nat
    <3>1. \A k \in DOMAIN _similar_fingerprints : _similar_fingerprints[k] \in Nat
      BY DEF CInv, RepeatsCounted
    <3> HIDE DEF fp
    <3> QED
      BY <3>1, <1>8, CountedOnce
  <2>4. /\ \A k : k # fp => OnTheWay(k)' = OnTheWay(k)
        /\ \A k : k = fp => OnTheWay(k)' = OnTheWay(k) \cup {t} /\ t \notin OnTheWay(k)
    BY <1>1, <1>8, <2>1 DEF OnTheWay, Recorded, options
  <2>5. /\ \A s \in found' : Recorded(s)' => response_fingerprint(s) \in DOMAIN _similar_fingerprints'
        /\ \A u \in Threads : held'[u].step = "decide" /\ Recorded(held[u].r)' =>
             response_fingerprint(held'[u].r) \in DOMAIN _similar_fingerprints'
    BY <1>1, <2>1, <2>3 DEF CInv, RepeatsCounted, Recorded, options
  <2>6. \A k \in DOMAIN _similar_fingerprints' :
          /\ _similar_fingerprints'[k] \in Nat
          /\ Cardinality(Repeats(k)') + Cardinality(OnTheWay(k)') <= _similar_fingerprints'[k]
          /\ Cardinality(Repeats(k)') + Cardinality(OnTheWay(k)') < CalibrationThreshold
          /\ k \notin _auto_calibrated_fingerprints' =>
                _similar_fingerprints'[k] < CalibrationThreshold
    <3> SUFFICES ASSUME NEW k \in DOMAIN _similar_fingerprints'
                 PROVE  /\ _similar_fingerprints'[k] \in Nat
                        /\ Cardinality(Repeats(k)') + Cardinality(OnTheWay(k)') <= _similar_fingerprints'[k]
                        /\ Cardinality(Repeats(k)') + Cardinality(OnTheWay(k)') < CalibrationThreshold
                        /\ k \notin _auto_calibrated_fingerprints' =>
                              _similar_fingerprints'[k] < CalibrationThreshold
      OBVIOUS
    <3>1. Repeats(k)' = Repeats(k)
      BY <1>3
    <3>2. CASE k = fp
      <4>1. Cardinality(OnTheWay(k)') = Cardinality(OnTheWay(k)) + 1
        <5>1. IsFiniteSet(OnTheWay(k)) /\ t \notin OnTheWay(k) /\ OnTheWay(k)' = OnTheWay(k) \cup {t}
          BY <2>4, <3>2, WaysAreFinite DEF CInv
        <5>2. Cardinality(OnTheWay(k) \cup {t}) = Cardinality(OnTheWay(k)) + 1
          BY <5>1, FS_AddElement
        <5> QED
          BY <5>1, <5>2
      <4>2. Count(_similar_fingerprints, fp) + 1 < CalibrationThreshold
        BY <1>4, <1>8, <2>3 DEF CalibratedAt
      <4>3. /\ Cardinality(Repeats(k)) \in Nat /\ Cardinality(OnTheWay(k)) \in Nat
            /\ Cardinality(Repeats(k)) + Cardinality(OnTheWay(k)) <= Count(_similar_fingerprints, fp)
        BY <3>2, RepeatsBelow
      <4> HIDE DEF fp
      <4> QED
        BY <1>4, <2>3, <3>1, <3>2, <4>1, <4>2, <4>3
    <3>3. CASE k # fp
      BY <1>8, <2>3, <2>4, <3>1, <3>3 DEF CInv, RepeatsCounted
    <3> QED
      BY <3>2, <3>3
  <2>7. RepeatsCounted'
    BY <1>4, <2>5, <2>6 DEF RepeatsCounted
  <2> QED
    BY <1>1, <1>2, <2>1, <2>7 DEF CInv
<1> QED
  BY <1>5, <1>6, <1>7, <1>8, Zenon DEF is_auto_calibrated, Recorded

\* A finding was counted when is_excluded kept it, and is counted again.
LEMMA Reported ==
  ASSUME CInv, NEW t \in Threads, Match(t)
  PROVE  CInv'
<1> DEFINE r == held[t].r
           fp == filter_fingerprint(r)
<1>1. /\ held[t].step = "decide" /\ Drop(t)
      /\ UNCHANGED <<scenario, _similar_fingerprints, _auto_calibrated_fingerprints>>
      /\ found' = found \cup {r}
  BY DEF Match
<1>2. /\ held'[t] = Nothing
      /\ \A u \in Threads : u # t => held'[u] = held[u]
  BY <1>1 DEF CInv, HeldOK, Drop
<1>3. HeldOK'
  <2>1. held' = [u \in Threads |-> held'[u]]
    BY <1>1 DEF CInv, HeldOK, Drop
  <2>2. \A u \in Threads :
          \/ held'[u] = Nothing
          \/ held'[u] \in [step : {"exclude", "decide"}, w : {held'[u].w}, r : {held'[u].r}]
    BY <1>2 DEF CInv, HeldOK
  <2>3. {u \in Threads : Busy(u)'} \subseteq {u \in Threads : Busy(u)}
    BY <1>2 DEF Busy, Nothing
  <2>4. IsFiniteSet({u \in Threads : Busy(u)'})
    BY <2>3, FS_Subset DEF CInv, HeldOK
  <2>5. IsFiniteSet(found')
    BY <1>1, FS_AddElement DEF CInv, HeldOK
  <2> QED
    BY <2>1, <2>2, <2>4, <2>5 DEF HeldOK
<1>4. CalibrationThreshold' = CalibrationThreshold /\ CalibrationThreshold \in Nat \ {0}
  BY <1>1, Thresholds DEF CInv, CalibrationThreshold, options
<1>5. /\ Recorded(r) => response_fingerprint(r) \in DOMAIN _similar_fingerprints
      /\ \A s \in found' : Recorded(s)' => response_fingerprint(s) \in DOMAIN _similar_fingerprints
  BY <1>1 DEF CInv, RepeatsCounted, Recorded, options
<1>6. \A u \in Threads : held'[u].step = "decide" /\ Recorded(held[u].r)' =>
           response_fingerprint(held'[u].r) \in DOMAIN _similar_fingerprints
  BY <1>1, <1>2 DEF CInv, RepeatsCounted, Recorded, options, Nothing
<1>7. \A k : /\ Cardinality(Repeats(k)') \in Nat /\ Cardinality(OnTheWay(k)') \in Nat
             /\ Cardinality(Repeats(k)') + Cardinality(OnTheWay(k)')
                  <= Cardinality(Repeats(k)) + Cardinality(OnTheWay(k))
  <2> SUFFICES ASSUME NEW k
               PROVE  /\ Cardinality(Repeats(k)') \in Nat /\ Cardinality(OnTheWay(k)') \in Nat
                      /\ Cardinality(Repeats(k)') + Cardinality(OnTheWay(k)')
                           <= Cardinality(Repeats(k)) + Cardinality(OnTheWay(k))
    OBVIOUS
  <2>1. /\ IsFiniteSet(Repeats(k)) /\ IsFiniteSet(OnTheWay(k))
        /\ Cardinality(Repeats(k)) \in Nat /\ Cardinality(OnTheWay(k)) \in Nat
    BY WaysAreFinite, FS_CardinalityType DEF CInv
  <2>2. CASE response_fingerprint(r) = k /\ Recorded(r)
    <3>1. /\ Repeats(k)' = Repeats(k) \cup {r}
          /\ OnTheWay(k)' = OnTheWay(k) \ {t} /\ t \in OnTheWay(k)
      BY <1>1, <1>2, <2>2 DEF Repeats, OnTheWay, Recorded, options, Nothing
    <3>2. Cardinality(OnTheWay(k)') = Cardinality(OnTheWay(k)) - 1
      BY <2>1, <3>1, FS_RemoveElement
    <3>3. /\ Cardinality(Repeats(k)') \in {Cardinality(Repeats(k)), Cardinality(Repeats(k)) + 1}
          /\ IsFiniteSet(OnTheWay(k)')
      <4>1. Cardinality(Repeats(k) \cup {r}) \in {Cardinality(Repeats(k)), Cardinality(Repeats(k)) + 1}
        BY <2>1, FS_AddElement
      <4>2. IsFiniteSet(OnTheWay(k) \ {t})
        BY <2>1, FS_RemoveElement
      <4> QED
        BY <3>1, <4>1, <4>2
    <3> QED
      BY <2>1, <3>2, <3>3, FS_CardinalityType
  <2>3. CASE ~(response_fingerprint(r) = k /\ Recorded(r))
    <3>1. Repeats(k)' = Repeats(k) /\ OnTheWay(k)' = OnTheWay(k)
      BY <1>1, <1>2, <2>3 DEF Repeats, OnTheWay, Recorded, options, Nothing
    <3> QED
      BY <2>1, <3>1
  <2> QED
    BY <2>2, <2>3
<1>8. RepeatsCounted'
  <2>1. \A k \in DOMAIN _similar_fingerprints :
          /\ Cardinality(Repeats(k)') + Cardinality(OnTheWay(k)') <= _similar_fingerprints[k]
          /\ Cardinality(Repeats(k)') + Cardinality(OnTheWay(k)') < CalibrationThreshold
    <3> SUFFICES ASSUME NEW k \in DOMAIN _similar_fingerprints
                 PROVE  /\ Cardinality(Repeats(k)') + Cardinality(OnTheWay(k)') <= _similar_fingerprints[k]
                        /\ Cardinality(Repeats(k)') + Cardinality(OnTheWay(k)') < CalibrationThreshold
      OBVIOUS
    <3>1. /\ _similar_fingerprints[k] \in Nat
          /\ Cardinality(Repeats(k)) + Cardinality(OnTheWay(k)) <= _similar_fingerprints[k]
          /\ Cardinality(Repeats(k)) + Cardinality(OnTheWay(k)) < CalibrationThreshold
          /\ Cardinality(Repeats(k)) \in Nat /\ Cardinality(OnTheWay(k)) \in Nat
      BY WaysAreFinite, FS_CardinalityType DEF CInv, RepeatsCounted
    <3> QED
      BY <1>4, <1>7, <3>1
  <2> QED
    BY <1>1, <1>4, <1>5, <1>6, <2>1 DEF CInv, RepeatsCounted
<1>9. AlikeCounted'
  <2> SUFFICES ASSUME options.filter_threshold > 0
               PROVE  /\ \A s \in found' : filter_fingerprint(s) \in DOMAIN _filter_fingerprints'
                      /\ \A k \in DOMAIN _filter_fingerprints' :
                            /\ _filter_fingerprints'[k] \in Nat
                            /\ Cardinality(Alike(k)') <= _filter_fingerprints'[k]
                            /\ _filter_fingerprints'[k] <= options.filter_threshold
    BY <1>1 DEF AlikeCounted, options
  <2>0. options.filter_threshold \in Nat
    BY Thresholds DEF CInv
  <2>1. /\ \A s \in found : filter_fingerprint(s) \in DOMAIN _filter_fingerprints
        /\ \A k \in DOMAIN _filter_fingerprints :
              /\ _filter_fingerprints[k] \in Nat
              /\ Cardinality(Alike(k)) <= _filter_fingerprints[k]
              /\ _filter_fingerprints[k] <= options.filter_threshold
    BY DEF CInv, AlikeCounted
  <2>2. /\ _filter_fingerprints' = Counted(_filter_fingerprints, fp)
        /\ ~(Count(_filter_fingerprints, fp) >= options.filter_threshold)
    BY DEF Match, is_filter_threshold_reached
  <2>3. /\ DOMAIN _filter_fingerprints' = DOMAIN _filter_fingerprints \cup {fp}
        /\ _filter_fingerprints'[fp] = Count(_filter_fingerprints, fp) + 1
        /\ \A k \in DOMAIN _filter_fingerprints : k # fp =>
              _filter_fingerprints'[k] = _filter_fingerprints[k]
        /\ Count(_filter_fingerprints, fp) \in Nat
    <3> HIDE DEF fp
    <3> QED
      BY <2>1, <2>2, CountedOnce
  <2>4. \A k : Cardinality(Alike(k)) \in Nat /\ Cardinality(Alike(k)) <= Count(_filter_fingerprints, k)
    <3> SUFFICES ASSUME NEW k
                 PROVE  Cardinality(Alike(k)) \in Nat
                        /\ Cardinality(Alike(k)) <= Count(_filter_fingerprints, k)
      OBVIOUS
    <3>1. Cardinality(Alike(k)) \in Nat
      BY WaysAreFinite, FS_CardinalityType DEF CInv
    <3>2. CASE k \in DOMAIN _filter_fingerprints
      BY <2>1, <3>1, <3>2 DEF Count
    <3>3. CASE k \notin DOMAIN _filter_fingerprints
      <4>1. Alike(k) = {}
        BY <2>1, <3>3 DEF Alike
      <4> QED
        BY <3>3, <4>1, FS_EmptySet DEF Count
    <3> QED
      BY <3>1, <3>2, <3>3
  <2>5. \A s \in found' : filter_fingerprint(s) \in DOMAIN _filter_fingerprints'
    BY <1>1, <2>1, <2>3
  <2>6. ASSUME NEW k \in DOMAIN _filter_fingerprints'
        PROVE  /\ _filter_fingerprints'[k] \in Nat
               /\ Cardinality(Alike(k)') <= _filter_fingerprints'[k]
               /\ _filter_fingerprints'[k] <= options.filter_threshold
    <3>1. CASE k = fp
      <4>1. Alike(k)' = Alike(k) \cup {r} /\ IsFiniteSet(Alike(k))
        BY <1>1, <3>1, WaysAreFinite DEF Alike, CInv
      <4>2. Cardinality(Alike(k) \cup {r}) \in {Cardinality(Alike(k)), Cardinality(Alike(k)) + 1}
        BY <4>1, FS_AddElement
      <4>3. /\ Cardinality(Alike(k)) \in Nat
            /\ Cardinality(Alike(k)) <= Count(_filter_fingerprints, fp)
        BY <2>4, <3>1
      <4> HIDE DEF fp
      <4> QED
        BY <2>0, <2>2, <2>3, <3>1, <4>1, <4>2, <4>3
    <3>2. CASE k # fp
      <4>1. Alike(k)' = Alike(k)
        BY <1>1, <3>2 DEF Alike
      <4> HIDE DEF fp
      <4> QED
        BY <2>1, <2>3, <3>2, <4>1
    <3> QED
      BY <3>1, <3>2
  <2> QED
    BY <2>5, <2>6
<1> QED
  BY <1>1, <1>3, <1>8, <1>9 DEF CInv

-----------------------------------------------------------------------------
LEMMA InitCInv == PipelineInit => CInv
<1> SUFFICES ASSUME PipelineInit
             PROVE  CInv
  OBVIOUS
<1>1. /\ scenario \in Scenarios /\ held = [t \in Threads |-> Nothing] /\ found = {}
      /\ _similar_fingerprints = <<>> /\ _filter_fingerprints = <<>>
  BY DEF PipelineInit
<1>2. HeldOK
  <2>1. {t \in Threads : Busy(t)} = {}
    BY <1>1 DEF Busy, Nothing
  <2> QED
    BY <1>1, <2>1, FS_EmptySet DEF HeldOK
<1>3. RepeatsCounted
  BY <1>1 DEF RepeatsCounted, Nothing
<1>4. AlikeCounted
  BY <1>1 DEF AlikeCounted
<1> QED
  BY <1>1, <1>2, <1>3, <1>4 DEF CInv

LEMMA NextCInv == CInv /\ [PipelineNext]_pipelineVars => CInv'
<1> SUFFICES ASSUME CInv, [PipelineNext]_pipelineVars
             PROVE  CInv'
  OBVIOUS
<1>1. ASSUME UNCHANGED <<scenario, held, stateVars, found>>
      PROVE  CInv'
  <2>1. \A k : Repeats(k)' = Repeats(k) /\ OnTheWay(k)' = OnTheWay(k) /\ Alike(k)' = Alike(k)
    BY <1>1 DEF Repeats, OnTheWay, Alike, Recorded, options
  <2>2. HeldOK'
    BY <1>1 DEF CInv, HeldOK, Busy
  <2>3. RepeatsCounted'
    BY <1>1, <2>1 DEF CInv, RepeatsCounted, Recorded, options, CalibrationThreshold, stateVars
  <2>4. AlikeCounted'
    BY <1>1, <2>1 DEF CInv, AlikeCounted, options, stateVars
  <2> QED
    BY <1>1, <2>2, <2>3, <2>4 DEF CInv
<1>2. CASE FirstSample \/ SecondSample \/ ExtraSample \/ Finished \/ UNCHANGED pipelineVars
  <2>1. UNCHANGED <<scenario, held, stateVars, found>>
    BY <1>2 DEF FirstSample, SecondSample, ExtraSample, Finished, pipelineVars, stateVars
  <2> QED
    BY <1>1, <2>1
<1>3. ASSUME NEW t \in Threads, Receive(t)
      PROVE  CInv'
  <2>1. UNCHANGED <<scenario, stateVars, found>> /\ held[t].step = "idle"
    BY <1>3 DEF Receive, Busy
  <2>2. CASE held' = held
    BY <1>1, <2>1, <2>2
  <2>3. CASE \E w, r : held' = [held EXCEPT ![t] = [step |-> "exclude", w |-> w, r |-> r]]
    <3>1. PICK w, r : held' = [held EXCEPT ![t] = [step |-> "exclude", w |-> w, r |-> r]]
      BY <2>3
    <3>2. held'[t] = [step |-> "exclude", w |-> w, r |-> r]
      BY <3>1 DEF CInv, HeldOK
    <3> QED
      BY <2>1, <3>1, <3>2, OtherThreads DEF SameCounters
  <2> QED
    BY <1>3, <2>2, <2>3, Zenon DEF Receive
<1>4. ASSUME NEW t \in Threads, ExcludeByFilter(t)
      PROVE  CInv'
  BY <1>4, DroppedLater DEF ExcludeByFilter, SameCounters
<1>5. ASSUME NEW t \in Threads, NotFound(t)
      PROVE  CInv'
  BY <1>5, DroppedLater DEF NotFound, SameCounters
<1> QED
  BY <1>2, <1>3, <1>4, <1>5, Calibrated, Reported DEF PipelineNext

LEMMA CInvBounds == CInv => MatchesBounded
<1> SUFFICES ASSUME CInv, NEW r \in found
             PROVE  /\ options.filter_threshold > 0 => Cardinality(Alike(filter_fingerprint(r))) <= options.filter_threshold
                    /\ Cardinality(Repeats(response_fingerprint(r))) < CalibrationThreshold
  BY DEF MatchesBounded, Alike, Repeats, Recorded
<1>1. Cardinality(Repeats(response_fingerprint(r))) < CalibrationThreshold
  BY RepeatsBelow, Thresholds DEF CInv
<1>2. ASSUME options.filter_threshold > 0
      PROVE  Cardinality(Alike(filter_fingerprint(r))) <= options.filter_threshold
  <2>1. filter_fingerprint(r) \in DOMAIN _filter_fingerprints
    BY <1>2 DEF CInv, AlikeCounted
  <2> DEFINE fp == filter_fingerprint(r)
  <2>2. /\ _filter_fingerprints[fp] \in Nat
        /\ Cardinality(Alike(fp)) <= _filter_fingerprints[fp]
        /\ _filter_fingerprints[fp] <= options.filter_threshold
    BY <1>2, <2>1 DEF CInv, AlikeCounted
  <2>3. Cardinality(Alike(fp)) \in Nat /\ options.filter_threshold \in Nat
    BY WaysAreFinite, FS_CardinalityType, Thresholds DEF CInv
  <2> QED
    BY <2>2, <2>3
<1> QED
  BY <1>1, <1>2

\* MatchesBounded: however the threads interleave and however many equal
\* answers arrive, fewer findings of one fingerprint than the calibration
\* threshold are reported, and no more alike ones than --filter-threshold.
THEOREM FindingsAreBounded == PipelineSpec => []MatchesBounded
<1>1. PipelineInit => CInv
  BY InitCInv
<1>2. CInv /\ [PipelineNext]_pipelineVars => CInv'
  BY NextCInv
<1>3. CInv => MatchesBounded
  BY CInvBounds
<1> QED
  BY <1>1, <1>2, <1>3, PTL DEF PipelineSpec

-----------------------------------------------------------------------------
\* A set of naturals has a least element.
LEMMA LeastNatural ==
  ASSUME NEW T \in SUBSET Nat, T # {}
  PROVE  \E x \in T : \A y \in T : ~(y < x)
<1> DEFINE R == {ss \in Nat \X Nat : ss[1] < ss[2]}
<1>1. IsWellFoundedOn(R, Nat)
  BY NatLessThanWellFounded, Zenon DEF OpToRel
<1>2. \E x \in T : \A y \in T : ~(<<y, x>> \in R)
  <2> HIDE DEF R
  <2> QED
    BY <1>1, WFMin, Zenon
<1> QED
  BY <1>2

\* The chunks cover the body and each has something of it.
LEMMA ChunkCount ==
  ASSUME NEW L \in Nat, NEW n, n = (L + IterChunkSize - 1) \div IterChunkSize
  PROVE  /\ n \in Nat /\ L <= n * IterChunkSize
         /\ \A i \in 1 .. n : (i - 1) * IterChunkSize < L
<1>1. IterChunkSize \in Nat /\ IterChunkSize >= 1
  BY SizesAssumption
<1> DEFINE K == IterChunkSize
<1>2. n \in Nat /\ n * K <= L + K - 1 /\ L + K - 1 < n * K + K
  BY <1>1
<1>3. ASSUME NEW i \in 1 .. n
      PROVE  (i - 1) * K < L
  <2>1. i * K <= n * K /\ (i - 1) * K = i * K - K
    BY <1>1, <1>2, <1>3
  <2>2. i * K \in Nat /\ n * K \in Nat
    BY <1>1, <1>2, <1>3
  <2> QED
    BY <1>1, <1>2, <2>1, <2>2
<1>4. n * K \in Nat
  BY <1>1, <1>2
<1> QED
  BY <1>1, <1>2, <1>3, <1>4

\* Reading a prefix and then what follows it.
LEMMA PrefixGrows ==
  ASSUME NEW X, NEW s \in Seq(X), NEW m \in 0 .. Len(s), NEW c \in Nat, m + c <= Len(s)
  PROVE  SubSeq(s, 1, m) \o SubSeq(s, m + 1, m + c) = SubSeq(s, 1, m + c)
<1> DEFINE a == SubSeq(s, 1, m)
           b == SubSeq(s, m + 1, m + c)
           d == SubSeq(s, 1, m + c)
<1>1. a \in Seq(X) /\ Len(a) = m /\ \A i \in 1 .. m : a[i] = s[i]
  BY SubSeqProperties
<1>2. b \in Seq(X) /\ Len(b) = c /\ \A i \in 1 .. c : b[i] = s[m + i]
  BY SubSeqProperties
<1>3. d \in Seq(X) /\ Len(d) = m + c /\ \A i \in 1 .. m + c : d[i] = s[i]
  BY SubSeqProperties
<1> HIDE DEF a, b, d
<1>4. a \o b \in Seq(X) /\ Len(a \o b) = m + c
  BY <1>1, <1>2, ConcatProperties
<1>5. ASSUME NEW i \in 1 .. m + c
      PROVE  (a \o b)[i] = d[i]
  <2>1. (a \o b)[i] = IF i <= m THEN a[i] ELSE b[i - m]
    BY <1>1, <1>2, ConcatProperties
  <2>2. i > m => i - m \in 1 .. c /\ m + (i - m) = i
    OBVIOUS
  <2> QED
    BY <1>1, <1>2, <1>3, <2>1, <2>2
<1> QED
  BY <1>3, <1>4, <1>5, SeqEqual DEF a, b, d

LEMMA PrefixOfPart ==
  ASSUME NEW X, NEW s \in Seq(X), NEW m \in 0 .. Len(s), NEW e \in m .. Len(s), NEW c \in 0 .. (e - m)
  PROVE  /\ Len(SubSeq(s, m + 1, e)) = e - m
         /\ SubSeq(SubSeq(s, m + 1, e), 1, c) = SubSeq(s, m + 1, m + c)
<1> DEFINE a == SubSeq(s, m + 1, e)
           b == SubSeq(a, 1, c)
           d == SubSeq(s, m + 1, m + c)
<1>1. a \in Seq(X) /\ Len(a) = e - m /\ \A i \in 1 .. (e - m) : a[i] = s[m + i]
  OBVIOUS
<1>2. d \in Seq(X) /\ Len(d) = c /\ \A i \in 1 .. c : d[i] = s[m + i]
  OBVIOUS
<1> HIDE DEF a, d
<1>3. b \in Seq(X) /\ Len(b) = c /\ \A i \in 1 .. c : b[i] = s[m + i]
  BY <1>1
<1> HIDE DEF b
<1>4. b = d
  BY <1>2, <1>3, SeqEqual
<1> QED
  BY <1>1, <1>4 DEF a, b, d

Reached(i, body) == IF i * IterChunkSize < Len(body) THEN i * IterChunkSize ELSE Len(body)

\* What is kept after some chunks: a prefix of the body, or the hash of one.
PrefixKept(cap, i, body) ==
  /\ cap = [body |-> cap.body, hashing |-> cap.hashing, digest |-> cap.digest,
            read |-> cap.read, stopped |-> cap.stopped, complete |-> cap.complete]
  /\ cap.read \in 0 .. Len(body)
  /\ cap.stopped \in BOOLEAN /\ cap.hashing \in BOOLEAN /\ cap.complete \in BOOLEAN
  /\ cap.stopped = FALSE =>
       cap.read = Reached(i, body) /\ cap.read < MaxResponseSize /\ cap.complete = FALSE
  /\ cap.hashing = TRUE => cap.digest = SubSeq(body, 1, cap.read)
  /\ cap.hashing = FALSE => cap.body = SubSeq(body, 1, cap.read)
  /\ cap.complete = TRUE => cap.read = Len(body)

\* No body goes on after its declared length.
LengthIsTrue(w, n) ==
  /\ w.encoded \in BOOLEAN
  /\ w.encoded \/ w.clen = NoLength \/ (w.clen \in Nat /\ w.clen >= n)

LEMMA ChunkAdded ==
  ASSUME NEW X, NEW body \in Seq(X), NEW w, NEW full \in BOOLEAN, LengthIsTrue(w, Len(body)),
         NEW i \in 1 .. Len(Chunks(body)), NEW cap, PrefixKept(cap, i - 1, body)
  PROVE  PrefixKept(add(cap, Chunks(body)[i], w, full), i, body)
<1> DEFINE K == IterChunkSize
           L == Len(body)
           chunk == Chunks(body)[i]
           e == Reached(i, body)
           remaining == MaxResponseSize - cap.read
           c == IF remaining < Len(chunk) THEN remaining ELSE Len(chunk)
           captured == SubSeq(chunk, 1, c)
           next == add(cap, chunk, w, full)
<1>0. K \in Nat /\ K >= 1 /\ MaxResponseSize \in Nat /\ L \in Nat
  BY SizesAssumption
<1>1. CASE cap.stopped = TRUE
  <2>1. next = cap
    BY <1>1 DEF add
  <2> QED
    BY <1>1, <2>1 DEF PrefixKept
<1>2. CASE cap.stopped = FALSE
  <2> DEFINE m == cap.read
             read == m + c
             newBody == IF cap.hashing THEN cap.body ELSE cap.body \o captured
             starts == ~cap.hashing /\ ~full /\ w.clen # NoLength /\ is_binary(newBody)
             stop == c < Len(chunk) \/ read >= MaxResponseSize
  <2>1. m = (i - 1) * K /\ m < L /\ e \in (m + 1) .. L /\ m \in Nat
    <3>1. Len(Chunks(body)) = (L + K - 1) \div K /\ i \in 1 .. ((L + K - 1) \div K)
      BY <1>0 DEF Chunks
    <3>2. (i - 1) * K < L /\ i \in Nat
      BY <1>0, <3>1, ChunkCount
    <3>3. i * K = (i - 1) * K + K /\ (i - 1) * K \in Nat
      BY <1>0, <3>1
    <3> QED
      BY <1>0, <1>2, <3>2, <3>3 DEF PrefixKept, Reached
  <2>2. chunk = SubSeq(body, m + 1, e)
    <3>1. chunk = SubSeq(body, (i - 1) * K + 1, e)
      <4>1. i \in 1 .. ((L + K - 1) \div K)
        BY <1>0 DEF Chunks
      <4> QED
        BY <4>1 DEF Chunks, Reached
    <3> QED
      BY <2>1, <3>1
  <2>3. Len(chunk) = e - m /\ remaining \in Nat /\ c \in 0 .. (e - m) /\ remaining >= 1
    <3>1. remaining \in Nat /\ remaining >= 1
      <4>1. m \in Nat /\ m < MaxResponseSize
        BY <1>2, <2>1 DEF PrefixKept
      <4> QED
        BY <1>0, <4>1
    <3>2. Len(chunk) = e - m
      BY <2>1, <2>2, SubSeqProperties
    <3> HIDE DEF remaining, chunk, e
    <3> QED
      BY <2>1, <3>1, <3>2
  <2>4. captured = SubSeq(body, m + 1, m + c) /\ Len(captured) = c
    <3>1. m \in 0 .. Len(body) /\ e \in m .. Len(body) /\ c \in 0 .. (e - m)
      BY <1>0, <2>1, <2>3
    <3> HIDE DEF chunk, c, e, m
    <3>2. SubSeq(SubSeq(body, m + 1, e), 1, c) = SubSeq(body, m + 1, m + c)
      BY <3>1, PrefixOfPart
    <3>3. captured = SubSeq(body, m + 1, m + c)
      BY <2>2, <3>2
    <3>4. Len(SubSeq(body, m + 1, m + c)) = c
      <4>1. m + 1 \in Int /\ m + c \in Int /\ c \in Nat /\ m \in Nat
            /\ \A j \in m + 1 .. m + c : body[j] \in X
        BY <3>1
      <4> QED
        BY <4>1, SubSeqProperties
    <3> QED
      BY <3>3, <3>4
  <2>5. SubSeq(body, 1, m) \o captured = SubSeq(body, 1, read) /\ read \in 0 .. L
    <3>1. m \in 0 .. Len(body) /\ c \in Nat /\ m + c <= Len(body)
      BY <1>0, <2>1, <2>3
    <3> HIDE DEF chunk, c, e, captured, m
    <3> QED
      BY <2>4, <3>1, PrefixGrows
  <2>6. /\ next = [body |-> next.body, hashing |-> next.hashing, digest |-> next.digest,
                   read |-> next.read, stopped |-> next.stopped, complete |-> next.complete]
        /\ next.read = read
        /\ next.body = newBody
        /\ next.hashing = (cap.hashing \/ starts)
        /\ next.digest = IF cap.hashing THEN cap.digest \o captured
                         ELSE IF starts THEN newBody ELSE <<>>
        /\ next.stopped = stop
        /\ next.complete = (stop /\ c = Len(chunk) /\ _decoded_content_length(w) = read)
    <3> HIDE DEF chunk
    <3> QED
      BY <1>2, <2>4 DEF add
  <2> HIDE DEF next, captured, c, chunk, e
  <2>7. next.stopped = FALSE => /\ next.read = Reached(i, body) /\ next.read < MaxResponseSize
                                /\ next.complete = FALSE
    <3>1. e = Reached(i, body)
      BY DEF e
    <3>2. ASSUME next.stopped = FALSE
          PROVE  ~(c < Len(chunk)) /\ ~(read >= MaxResponseSize)
      BY <2>6, <3>2
    <3>3. next.stopped = FALSE => next.complete = FALSE
      BY <2>6
    <3>4. e \in Nat /\ m \in Nat /\ c \in 0 .. (e - m) /\ Len(chunk) = e - m
      BY <1>0, <2>1, <2>3
    <3>5. ASSUME next.stopped = FALSE
          PROVE  read = e /\ read < MaxResponseSize
      <4>1. ~(c < e - m) /\ ~(m + c >= MaxResponseSize)
        BY <3>2, <3>4, <3>5
      <4>2. c = e - m
        BY <3>4, <4>1
      <4> QED
        BY <1>0, <3>4, <4>1, <4>2
    <3> QED
      BY <2>6, <3>1, <3>3, <3>5
  <2>8. next.hashing = TRUE => next.digest = SubSeq(body, 1, next.read)
    BY <2>5, <2>6 DEF PrefixKept
  <2>9. next.hashing = FALSE => next.body = SubSeq(body, 1, next.read)
    BY <2>5, <2>6 DEF PrefixKept
  <2>10. next.complete = TRUE => next.read = L
    <3>1. next.complete = TRUE => _decoded_content_length(w) = read
      BY <2>6
    <3>2. _decoded_content_length(w) = -1 \/ (_decoded_content_length(w) \in Nat /\ _decoded_content_length(w) >= L)
      <4>1. w.encoded = TRUE => _decoded_content_length(w) = -1
        BY DEF _decoded_content_length, NoLength
      <4>2. w.encoded = FALSE => _decoded_content_length(w) = w.clen
        BY DEF _decoded_content_length
      <4> QED
        <5>1. w.encoded = TRUE \/ (w.encoded = FALSE /\ (w.clen = -1 \/ (w.clen \in Nat /\ w.clen >= L)))
          BY DEF LengthIsTrue, NoLength
        <5> QED
          BY <4>1, <4>2, <5>1
    <3> QED
      BY <1>0, <2>5, <2>6, <3>1, <3>2
  <2>11. next.stopped \in BOOLEAN /\ next.hashing \in BOOLEAN /\ next.complete \in BOOLEAN
    BY <2>6
  <2> QED
    <3>1. PrefixKept(next, i, body)
      BY <2>5, <2>6, <2>7, <2>8, <2>9, <2>10, <2>11 DEF PrefixKept
    <3> QED
      BY <3>1 DEF next, chunk
<1> QED
  BY <1>1, <1>2 DEF PrefixKept

\* The captures of a stream are what adding its chunks one by one makes.
LEMMA CapturingSteps ==
  ASSUME NEW w, NEW body, NEW full, Len(Chunks(body)) \in Nat
  PROVE  /\ Capturing(w, body, full)[0] = NewCapture
         /\ \A i \in 1 .. Len(Chunks(body)) :
              Capturing(w, body, full)[i] = add(Capturing(w, body, full)[i - 1], Chunks(body)[i], w, full)
<1> DEFINE n == Len(Chunks(body))
           After(g, i) == IF i = 0 THEN NewCapture ELSE add(g[i - 1], Chunks(body)[i], w, full)
           Attempt(g, k) == g = [i \in 0 .. k |-> After(g, i)]
           T == {k \in Nat : ~\E g : Attempt(g, k)}
<1>1. T = {}
  <2> SUFFICES ASSUME T # {}
               PROVE  FALSE
    OBVIOUS
  <2>1. PICK k \in T : \A j \in T : ~(j < k)
    <3>1. T \in SUBSET Nat
      OBVIOUS
    <3> HIDE DEF T
    <3> QED
      BY <3>1, LeastNatural
  <2>2. k # 0
    <3>1. Attempt([i \in 0 .. 0 |-> NewCapture], 0)
      OBVIOUS
    <3> HIDE DEF Attempt
    <3> QED
      BY <2>1, <3>1
  <2>3. k \in Nat /\ k - 1 \in Nat /\ k - 1 \notin T
    BY <2>1, <2>2
  <2>4. PICK g : Attempt(g, k - 1)
    BY <2>3
  <2> DEFINE h == [i \in 0 .. k |-> IF i = k THEN After(g, k) ELSE g[i]]
  <2>5. \A i \in 0 .. k - 1 : g[i] = After(g, i)
    <3> HIDE DEF After
    <3> QED
      BY <2>4
  <2>6. ASSUME NEW i \in 0 .. k
        PROVE  h[i] = After(h, i)
    <3>1. i # 0 => h[i - 1] = g[i - 1]
      BY <2>3
    <3>2. After(h, i) = After(g, i)
      BY <3>1
    <3>3. h[i] = After(g, i)
      <4> HIDE DEF After
      <4> QED
        BY <2>3, <2>5
    <3> QED
      BY <3>2, <3>3
  <2>7. h = [i \in 0 .. k |-> After(h, i)]
    <3>1. h = [i \in 0 .. k |-> h[i]]
      OBVIOUS
    <3> HIDE DEF h, After
    <3> QED
      BY <2>6, <3>1
  <2>8. Attempt(h, k)
    BY <2>7
  <2> HIDE DEF Attempt, h
  <2> QED
    BY <2>1, <2>8
<1>2. \E g : Attempt(g, n)
  <2> HIDE DEF Attempt
  <2> QED
    BY <1>1
<1>3. Attempt(Capturing(w, body, full), n)
  <2>1. Capturing(w, body, full) = CHOOSE g : Attempt(g, n)
    BY DEF Capturing
  <2> HIDE DEF Attempt
  <2> QED
    BY <1>2, <2>1, Zenon
<1>4. \A i \in 0 .. n : Capturing(w, body, full)[i] = After(Capturing(w, body, full), i)
  <2> HIDE DEF After
  <2> QED
    BY <1>3
<1> QED
  BY <1>4

LEMMA EveryPrefixKept ==
  ASSUME NEW X, NEW body \in Seq(X), NEW w, NEW full \in BOOLEAN, LengthIsTrue(w, Len(body)),
         NEW k \in 0 .. Len(Chunks(body))
  PROVE  /\ Len(Chunks(body)) \in Nat /\ Len(body) <= Len(Chunks(body)) * IterChunkSize
         /\ PrefixKept(Capturing(w, body, full)[k], k, body)
<1> DEFINE n == Len(Chunks(body))
           f == Capturing(w, body, full)
           T == {i \in 0 .. n : ~PrefixKept(f[i], i, body)}
<1>1. n \in Nat /\ Len(body) <= n * IterChunkSize
  <2>1. IterChunkSize \in Nat \ {0} /\ Len(body) \in Nat
    BY SizesAssumption
  <2>2. (Len(body) + IterChunkSize - 1) \div IterChunkSize \in Nat
    BY <2>1
  <2>3. n = (Len(body) + IterChunkSize - 1) \div IterChunkSize
    BY <2>1, <2>2 DEF Chunks
  <2> HIDE DEF n
  <2> QED
    BY <2>1, <2>3, ChunkCount
<1>2. PrefixKept(f[0], 0, body)
  <2>1. f[0] = NewCapture
    BY <1>1, CapturingSteps
  <2>2. Len(body) \in Nat /\ Reached(0, body) = 0 /\ SubSeq(body, 1, 0) = <<>>
    BY SizesAssumption, SubSeqEmpty DEF Reached
  <2>3. PrefixKept(NewCapture, 0, body)
    BY <2>2, SizesAssumption DEF PrefixKept, NewCapture
  <2> QED
    BY <2>1, <2>3
<1>3. T = {}
  <2> SUFFICES ASSUME T # {}
               PROVE  FALSE
    OBVIOUS
  <2>1. PICK i \in T : \A j \in T : ~(j < i)
    <3>1. T \in SUBSET Nat
      BY <1>1
    <3> HIDE DEF T
    <3> QED
      BY <3>1, LeastNatural
  <2>2. i \in 1 .. n /\ i - 1 \in 0 .. n /\ i - 1 \notin T
    BY <1>1, <1>2, <2>1
  <2>3. PrefixKept(f[i - 1], i - 1, body)
    BY <2>2
  <2>4. f[i] = add(f[i - 1], Chunks(body)[i], w, full)
    BY <1>1, <2>2, CapturingSteps
  <2>5. PrefixKept(add(f[i - 1], Chunks(body)[i], w, full), i, body)
    <3> HIDE DEF f
    <3> QED
      BY <2>2, <2>3, ChunkAdded
  <2> HIDE DEF f
  <2> QED
    BY <2>1, <2>4, <2>5
<1> QED
  BY <1>1, <1>3

\* What a complete capture stands for is the whole body.
KeptWhole(complete, hashed, digest, kept, body) ==
  complete = TRUE => IF hashed = TRUE THEN digest = body ELSE kept = body

LEMMA CapturedWhole ==
  ASSUME NEW X, NEW body \in Seq(X), NEW w, NEW full \in BOOLEAN, LengthIsTrue(w, Len(body)),
         NEW cap, cap = Captured(w, body, full)
  PROVE  /\ cap.hashing \in BOOLEAN /\ cap.complete \in BOOLEAN
         /\ KeptWhole(cap.complete, cap.hashing, cap.digest, cap.body, body)
<1> DEFINE n == Len(Chunks(body))
           last == Capturing(w, body, full)[n]
<1>1. n \in Nat /\ Len(body) <= n * IterChunkSize /\ PrefixKept(last, n, body)
  <2>1. 0 \in 0 .. n
    <3>1. 0 \in 0 .. 0
      OBVIOUS
    <3>2. Len(body) \in Nat /\ IterChunkSize \in Nat \ {0}
      BY SizesAssumption
    <3>3. (Len(body) + IterChunkSize - 1) \div IterChunkSize \in Nat
      BY <3>2
    <3> QED
      BY <3>2, <3>3 DEF Chunks
  <2>2. n \in Nat
    BY <2>1, EveryPrefixKept
  <2>3. n \in 0 .. n
    BY <2>2
  <2> QED
    BY <2>3, EveryPrefixKept
<1>2. SubSeq(body, 1, Len(body)) = body
  BY SubSeqProperties, SeqEqual
<1>3. CASE last.stopped = TRUE
  <2>1. cap = last
    BY <1>3 DEF Captured
  <2> HIDE DEF last
  <2> QED
    BY <1>1, <1>2, <2>1 DEF PrefixKept, KeptWhole
<1>4. CASE last.stopped = FALSE
  <2>1. cap = [last EXCEPT !.complete = TRUE]
    BY <1>4 DEF Captured
  <2> HIDE DEF last, n
  <2>2. last.read = Len(body)
    <3>1. n * IterChunkSize \in Nat /\ Len(body) \in Nat
      BY <1>1, SizesAssumption
    <3>2. Reached(n, body) = Len(body)
      BY <1>1, <3>1 DEF Reached
    <3> QED
      BY <1>1, <1>4, <3>2 DEF PrefixKept
  <2>3. /\ cap.complete = TRUE /\ cap.hashing = last.hashing /\ cap.digest = last.digest
        /\ cap.body = last.body
    BY <1>1, <2>1 DEF PrefixKept
  <2> QED
    BY <1>1, <1>2, <2>2, <2>3 DEF PrefixKept, KeptWhole
<1> QED
  BY <1>1, <1>3, <1>4 DEF PrefixKept

-----------------------------------------------------------------------------
LEMMA RenderedWhole ==
  ASSUME NEW s \in Seq(STRING), NEW path
  PROVE  Rendered(s, path) \in Seq(STRING \cup {path}) /\ Len(Rendered(s, path)) = Len(s)
<1>1. Rendered(s, path) \in [1 .. Len(s) -> STRING \cup {path}] /\ Len(s) \in Nat
  BY DEF Rendered
<1> QED
  BY <1>1

LEMMA ResponseWhole ==
  ASSUME NEW w, w.body \in Seq(STRING), LengthIsTrue(w, Len(w.body)), NEW path,
         NEW full \in BOOLEAN, NEW guess, NEW r, r = Response(w, path, full, guess)
  PROVE  /\ r.path = path /\ r.hashed \in BOOLEAN /\ r.complete \in BOOLEAN
         /\ KeptWhole(r.complete, r.hashed, r.digest, r.body, Rendered(w.body, path))
<1> DEFINE decodeBinary == _should_decode_binary_text(w)
           body == Rendered(w.body, path)
           cap == Captured(w, body, full \/ decodeBinary)
<1>1. body \in Seq(STRING \cup {path}) /\ Len(body) = Len(w.body)
  BY RenderedWhole
<1>2. (full \/ decodeBinary) \in BOOLEAN
  BY DEF _should_decode_binary_text
<1>3. /\ cap.hashing \in BOOLEAN /\ cap.complete \in BOOLEAN
      /\ KeptWhole(cap.complete, cap.hashing, cap.digest, cap.body, body)
  <2> HIDE DEF body, decodeBinary
  <2> QED
    BY <1>1, <1>2, CapturedWhole
<1>4. /\ r.path = path /\ r.hashed = cap.hashing /\ r.complete = cap.complete
      /\ r.digest = cap.digest /\ r.body = cap.body
  <2> HIDE DEF cap
  <2> QED
    BY DEF Response, BaseResponse, cap
<1> QED
  BY <1>3, <1>4

LEMMA NativeWhole ==
  ASSUME NEW w, w.body \in Seq(STRING), NEW path, NEW r, r = NativeResponse(w, path)
  PROVE  /\ r.path = path /\ r.hashed \in BOOLEAN /\ r.complete \in BOOLEAN
         /\ KeptWhole(r.complete, r.hashed, r.digest, r.body, Rendered(w.body, path))
<1> DEFINE body == Rendered(w.body, path)
           raw == read_decoded_body(body)
<1>1. body \in Seq(STRING \cup {path}) /\ Len(body) \in Nat
  BY RenderedWhole
<1>2. Len(raw.body) = raw.length => raw.body = body
  <2>1. CASE Len(body) < MaxResponseSize
    <3>1. raw.body = SubSeq(body, 1, Len(body))
      BY <2>1 DEF read_decoded_body
    <3> HIDE DEF body, raw
    <3> QED
      BY <1>1, <3>1, SubSeqProperties, SeqEqual
  <2>2. CASE ~(Len(body) < MaxResponseSize)
    <3>1. raw.body = SubSeq(body, 1, MaxResponseSize) /\ raw.length = Len(body)
      BY <2>2 DEF read_decoded_body
    <3> HIDE DEF body, raw
    <3>2. MaxResponseSize \in Nat /\ Len(SubSeq(body, 1, MaxResponseSize)) = MaxResponseSize
      BY <1>1, <2>2, SizesAssumption, SubSeqProperties
    <3>3. SubSeq(body, 1, Len(body)) = body
      BY <1>1, SubSeqProperties, SeqEqual
    <3> QED
      BY <3>1, <3>2, <3>3
  <2> QED
    BY <2>1, <2>2
<1>3. /\ r.path = path /\ r.hashed = FALSE /\ r.complete = (Len(raw.body) = raw.length)
      /\ r.body = raw.body
  <2> HIDE DEF raw
  <2> QED
    BY DEF NativeResponse, BaseResponse, NewCapture, raw
<1> HIDE DEF raw, body
<1> QED
  BY <1>2, <1>3 DEF KeptWhole, body

-----------------------------------------------------------------------------
\* An answer is one of the scenario's, as the engine in use received it.
FromServer(w, r) ==
  /\ w \in scenario.samples \cup scenario.answers
  /\ r = Received(w, r.path)

IsSequence(s) == s \in Seq({s[i] : i \in DOMAIN s})

\* Every answer the pipeline works with came from the server.
RInv ==
  /\ IsSequence(sampled) /\ IsSequence(scanners)
  /\ \A i \in DOMAIN sampled : FromServer(sampled[i].w, sampled[i].r)
  /\ \A i \in DOMAIN scanners : FromServer(scanners[i].w, scanners[i].response)
  /\ \A t \in Threads : Busy(t) => FromServer(held[t].w, held[t].r)

LEMMA ReceivedWhole ==
  ASSUME scenario \in Scenarios, NEW w \in scenario.samples \cup scenario.answers, NEW path,
         NEW r, r = Received(w, path)
  PROVE  /\ r.path = path /\ r.hashed \in BOOLEAN /\ r.complete \in BOOLEAN
         /\ KeptWhole(r.complete, r.hashed, r.digest, r.body, Rendered(w.body, path))
<1>1. w.body \in Seq(STRING) /\ LengthIsTrue(w, Len(w.body)) /\ scenario.options.store \in BOOLEAN
  BY ScenarioAssumption DEF LengthIsTrue
<1>2. CASE scenario.engine = "native"
  <2>1. r = NativeResponse(w, path)
    BY <1>2 DEF Received
  <2> QED
    BY <1>1, <2>1, NativeWhole
<1>3. CASE scenario.engine # "native"
  <2>1. r = Response(w, path, scenario.options.store, scenario.engine = "threads")
    BY <1>3 DEF Received, options
  <2> QED
    BY <1>1, <2>1, ResponseWhole
<1> QED
  BY <1>2, <1>3

LEMMA ReceivedFromServer ==
  ASSUME scenario \in Scenarios, NEW w \in scenario.samples \cup scenario.answers, NEW path
  PROVE  FromServer(w, Received(w, path))
<1>1. Received(w, path).path = path
  BY ReceivedWhole
<1> QED
  BY <1>1 DEF FromServer

LEMMA AppendedSequence ==
  ASSUME NEW s, IsSequence(s), NEW x, NEW u, u = Append(s, x)
  PROVE  /\ IsSequence(u)
         /\ \A i \in DOMAIN u : (i \in DOMAIN s /\ u[i] = s[i]) \/ u[i] = x
<1> DEFINE S == {s[i] : i \in DOMAIN s} \cup {x}
<1>1. s \in Seq(S) /\ x \in S
  BY DEF IsSequence
<1>2. /\ u \in Seq(S) /\ Len(u) = Len(s) + 1 /\ Len(s) \in Nat
      /\ \A i \in 1 .. Len(s) : u[i] = s[i]
      /\ u[Len(s) + 1] = x
  <2> HIDE DEF S
  <2> QED
    BY <1>1, AppendProperties
<1>3. /\ DOMAIN s = 1 .. Len(s) /\ DOMAIN u = 1 .. (Len(s) + 1)
      /\ u = [i \in 1 .. (Len(s) + 1) |-> u[i]]
  <2> HIDE DEF S
  <2>1. DOMAIN s = 1 .. Len(s)
    BY <1>1
  <2>2. DOMAIN u = 1 .. (Len(s) + 1)
    BY <1>2
  <2>3. u = [i \in DOMAIN u |-> u[i]]
    <3>1. u \in [1 .. Len(u) -> S]
      BY <1>2, LenProperties
    <3> QED
      BY <3>1
  <2> QED
    BY <2>1, <2>2, <2>3
<1>4. u \in Seq({u[i] : i \in DOMAIN u})
  <2> DEFINE T == {u[i] : i \in DOMAIN u}
             n == Len(s) + 1
  <2>1. u \in [1 .. n -> T]
    BY <1>3
  <2>2. n \in Nat
    <3> HIDE DEF S
    <3> QED
      BY <1>2
  <2> HIDE DEF S, T, n
  <2>3. u \in Seq(T)
    BY <2>1, <2>2, SeqDef
  <2> QED
    BY <2>3 DEF T
<1> QED
  BY <1>2, <1>3, <1>4 DEF IsSequence

LEMMA SameServer ==
  ASSUME UNCHANGED scenario, NEW w, NEW r, FromServer(w, r)
  PROVE  FromServer(w, r)'
BY DEF FromServer, Received, options

LEMMA ProfileAdded ==
  ASSUME RInv, UNCHANGED <<scenario, held>>, NEW profile, Add(profile),
         FromServer(profile.w, profile.response)
  PROVE  RInv'
<1>1. scanners' = Append(scanners, profile) /\ sampled' = <<>>
  BY DEF Add
<1>2. IsSequence(scanners)
  BY DEF RInv
<1>3. /\ IsSequence(scanners')
      /\ \A i \in DOMAIN scanners' :
           (i \in DOMAIN scanners /\ scanners'[i] = scanners[i]) \/ scanners'[i] = profile
  <2> DEFINE u == Append(scanners, profile)
  <2>1. /\ IsSequence(u)
        /\ \A i \in DOMAIN u : (i \in DOMAIN scanners /\ u[i] = scanners[i]) \/ u[i] = profile
    <3> HIDE DEF IsSequence
    <3> QED
      BY <1>2, AppendedSequence
  <2> HIDE DEF u
  <2>2. scanners' = u
    BY <1>1 DEF u
  <2> QED
    BY <2>1, <2>2 DEF IsSequence
<1>4. \A i \in DOMAIN scanners' : FromServer(scanners'[i].w, scanners'[i].response)
  BY <1>3 DEF RInv
<1>5. IsSequence(<<>>) /\ DOMAIN <<>> = {}
  BY DEF IsSequence
<1>6. IsSequence(sampled)' /\ DOMAIN sampled' = {}
  BY <1>1, <1>5 DEF IsSequence
<1>7. \A i \in DOMAIN scanners' : FromServer(scanners[i].w, scanners[i].response)'
  BY <1>4 DEF FromServer, Received, options
<1>8. \A t \in Threads : Busy(t)' => FromServer(held[t].w, held[t].r)'
  BY DEF RInv, Busy, FromServer, Received, options
<1>9. IsSequence(scanners)'
  BY <1>3 DEF IsSequence
<1> QED
  BY <1>6, <1>7, <1>8, <1>9 DEF RInv

LEMMA SampleAdded ==
  ASSUME RInv, UNCHANGED <<scenario, held, scanners>>, NEW w, NEW r, FromServer(w, r),
         sampled' = Append(sampled, [w |-> w, r |-> r])
  PROVE  RInv'
<1>1. IsSequence(sampled)
  BY DEF RInv
<1>2. /\ IsSequence(sampled')
      /\ \A i \in DOMAIN sampled' :
           (i \in DOMAIN sampled /\ sampled'[i] = sampled[i]) \/ sampled'[i] = [w |-> w, r |-> r]
  <2> DEFINE x == [w |-> w, r |-> r]
             u == Append(sampled, x)
  <2>1. /\ IsSequence(u)
        /\ \A i \in DOMAIN u : (i \in DOMAIN sampled /\ u[i] = sampled[i]) \/ u[i] = x
    <3> HIDE DEF x
    <3> QED
      BY <1>1, AppendedSequence
  <2> HIDE DEF u
  <2>2. sampled' = u
    BY DEF u
  <2> QED
    BY <2>1, <2>2 DEF IsSequence
<1>3. \A i \in DOMAIN sampled' : FromServer(sampled'[i].w, sampled'[i].r)
  BY <1>2 DEF RInv
<1>4. \A i \in DOMAIN sampled' : FromServer(sampled[i].w, sampled[i].r)'
  BY <1>3 DEF FromServer, Received, options
<1>5. /\ \A t \in Threads : Busy(t)' => FromServer(held[t].w, held[t].r)'
      /\ \A i \in DOMAIN scanners' : FromServer(scanners[i].w, scanners[i].response)'
  BY DEF RInv, Busy, FromServer, Received, options
<1>6. IsSequence(sampled)' /\ IsSequence(scanners)'
  BY <1>2 DEF RInv, IsSequence
<1> QED
  BY <1>4, <1>5, <1>6 DEF RInv

LEMMA InitRInv == PipelineInit => RInv
<1> SUFFICES ASSUME PipelineInit
             PROVE  RInv
  OBVIOUS
<1>1. scanners = <<>> /\ sampled = <<>> /\ \A t \in Threads : ~Busy(t)
  BY DEF PipelineInit, Busy, Nothing
<1>2. DOMAIN scanners = {} /\ DOMAIN sampled = {} /\ scanners \in Seq({}) /\ sampled \in Seq({})
  BY <1>1
<1> QED
  BY <1>1, <1>2 DEF RInv, IsSequence

LEMMA NextRInv == CInv /\ RInv /\ [PipelineNext]_pipelineVars => RInv'
<1> SUFFICES ASSUME CInv, RInv, [PipelineNext]_pipelineVars
             PROVE  RInv'
  OBVIOUS
<1>0. scenario \in Scenarios
  BY DEF CInv
<1>1. CASE FirstSample
  <2>1. PICK w \in scenario.samples :
          LET r == Received(w, SamplePath)
          IN  IF Duplicates(r) = {}
              THEN sampled' = <<[w |-> w, r |-> r]>> /\ UNCHANGED <<scanners, parser>>
              ELSE \E i \in Duplicates(r) :
                      Add(Profile([w |-> w, r |-> r], scanners[i].regex, scanners[i].redirect,
                                  scanners[i].parser))
    BY <1>1 DEF FirstSample
  <2> DEFINE r == Received(w, SamplePath)
  <2>2. /\ FromServer(w, r) /\ sampled = <<>>
        /\ UNCHANGED <<scenario, held>>
    BY <1>0, <1>1, ReceivedFromServer DEF FirstSample
  <2> HIDE DEF r
  <2>3. CASE sampled' = <<[w |-> w, r |-> r]>> /\ UNCHANGED scanners
    <3>1. sampled' = Append(sampled, [w |-> w, r |-> r])
      BY <2>2, <2>3
    <3> QED
      BY <2>2, <2>3, <3>1, SampleAdded
  <2>4. CASE \E i \in Duplicates(r) :
                Add(Profile([w |-> w, r |-> r], scanners[i].regex, scanners[i].redirect,
                            scanners[i].parser))
    <3>1. PICK profile : Add(profile) /\ profile.w = w /\ profile.response = r
      BY <2>4 DEF Profile
    <3> QED
      BY <2>2, <3>1, ProfileAdded
  <2> QED
    BY <2>1, <2>3, <2>4 DEF r
<1>2. CASE SecondSample
  <2>1. PICK w \in scenario.samples :
          LET r == Received(w, SamplePath)
              first == sampled[1].r
              words == normalize_dynamic_content(r.content)
          IN  \E common \in StaticPatterns(normalize_dynamic_content(first.content), words),
                 ratio \in Ratios(normalize_dynamic_content(first.content), words) :
                LET p == [contents |-> <<first.content, r.content>>, common |-> common]
                IN  IF should_auto_calibrate(p, ratio)
                    THEN /\ sampled' = Append(sampled, [w |-> w, r |-> r])
                         /\ parser' = p
                         /\ UNCHANGED scanners
                    ELSE Add(Profile(sampled[1], generate_redirect_regex(first, r),
                                     MarkedAtSetup(r), p))
    BY <1>2 DEF SecondSample
  <2> DEFINE r == Received(w, SamplePath)
  <2>2. /\ FromServer(w, r) /\ Len(sampled) = 1
        /\ UNCHANGED <<scenario, held>>
    BY <1>0, <1>2, ReceivedFromServer DEF SecondSample
  <2>3. \/ sampled' = Append(sampled, [w |-> w, r |-> r]) /\ UNCHANGED scanners
        \/ \E regex, redirect, p : Add(Profile(sampled[1], regex, redirect, p))
    BY <2>1
  <2> HIDE DEF r
  <2>4. CASE sampled' = Append(sampled, [w |-> w, r |-> r]) /\ UNCHANGED scanners
    BY <2>2, <2>4, SampleAdded
  <2>5. CASE \E regex, redirect, p : Add(Profile(sampled[1], regex, redirect, p))
    <3>1. PICK profile : Add(profile) /\ profile.w = sampled[1].w /\ profile.response = sampled[1].r
      BY <2>5 DEF Profile
    <3>2. FromServer(sampled[1].w, sampled[1].r)
      BY <2>2 DEF RInv, IsSequence
    <3> QED
      BY <2>2, <3>1, <3>2, ProfileAdded
  <2> QED
    BY <2>3, <2>4, <2>5
<1>3. CASE ExtraSample
  <2>1. PICK w \in scenario.samples :
          LET r == Received(w, SamplePath)
              p == IF r.content # <<>> THEN add_sample(parser, r.content) ELSE parser
          IN  IF Len(sampled) = 2
              THEN sampled' = Append(sampled, [w |-> w, r |-> r]) /\ parser' = p /\ UNCHANGED scanners
              ELSE Add(Profile(sampled[1], Regex, MarkedAtSetup(sampled[2].r), p))
    BY <1>3 DEF ExtraSample
  <2> DEFINE r == Received(w, SamplePath)
  <2>2. /\ FromServer(w, r) /\ Len(sampled) \in {2, 3}
        /\ UNCHANGED <<scenario, held>>
    BY <1>0, <1>3, ReceivedFromServer DEF ExtraSample
  <2>3. \/ sampled' = Append(sampled, [w |-> w, r |-> r]) /\ UNCHANGED scanners
        \/ \E regex, redirect, p : Add(Profile(sampled[1], regex, redirect, p))
    BY <2>1
  <2> HIDE DEF r
  <2>4. CASE sampled' = Append(sampled, [w |-> w, r |-> r]) /\ UNCHANGED scanners
    BY <2>2, <2>4, SampleAdded
  <2>5. CASE \E regex, redirect, p : Add(Profile(sampled[1], regex, redirect, p))
    <3>1. PICK profile : Add(profile) /\ profile.w = sampled[1].w /\ profile.response = sampled[1].r
      BY <2>5 DEF Profile
    <3>2. FromServer(sampled[1].w, sampled[1].r)
      BY <2>2 DEF RInv, IsSequence
    <3> QED
      BY <2>2, <3>1, <3>2, ProfileAdded
  <2> QED
    BY <2>3, <2>4, <2>5
<1>4. ASSUME UNCHANGED <<scenario, sampled, scanners>>,
             \A t \in Threads : Busy(t)' => FromServer(held'[t].w, held'[t].r)
      PROVE  RInv'
  BY <1>4 DEF RInv, IsSequence, FromServer, Received, options
<1>5. ASSUME NEW t \in Threads, Receive(t)
      PROVE  RInv'
  <2>1. PICK w \in scenario.answers :
          \/ held' = held
          \/ held' = [held EXCEPT ![t] = [step |-> "exclude", w |-> w,
                                          r |-> Received(w, Paths[asked + 1])]]
    BY <1>5 DEF Receive
  <2>2. UNCHANGED <<scenario, sampled, scanners>>
    BY <1>5 DEF Receive, setupVars
  <2>3. FromServer(w, Received(w, Paths[asked + 1]))
    BY <1>0, ReceivedFromServer
  <2>4. \A u \in Threads : Busy(u)' => FromServer(held'[u].w, held'[u].r)
    BY <2>1, <2>3 DEF RInv, CInv, HeldOK, Busy
  <2> QED
    BY <1>4, <2>2, <2>4
<1>6. ASSUME NEW t \in Threads, UNCHANGED <<scenario, sampled, scanners>>, Drop(t) \/ (Keep(t) /\ Busy(t))
      PROVE  RInv'
  <2>1. \A u \in Threads : Busy(u)' => Busy(u) /\ held'[u].w = held[u].w /\ held'[u].r = held[u].r
    <3>1. CASE Drop(t)
      BY <3>1 DEF CInv, HeldOK, Drop, Nothing, Busy
    <3>2. CASE Keep(t) /\ Busy(t)
      <4>1. held[t] \in [step : {"exclude", "decide"}, w : {held[t].w}, r : {held[t].r}]
        BY <3>2 DEF CInv, HeldOK, Busy, Nothing
      <4>2. held'[t] = [held[t] EXCEPT !.step = "decide"] /\ \A u \in Threads : u # t => held'[u] = held[u]
        BY <3>2 DEF CInv, HeldOK, Keep
      <4> QED
        BY <3>2, <4>1, <4>2 DEF Busy
    <3> QED
      BY <1>6, <3>1, <3>2
  <2> QED
    BY <1>4, <1>6, <2>1 DEF RInv
<1>7. ASSUME NEW t \in Threads, ExcludeByFilter(t) \/ is_auto_calibrated(t) \/ NotFound(t) \/ Match(t)
      PROVE  RInv'
  <2>1. UNCHANGED <<scenario, sampled, scanners>> /\ (Drop(t) \/ (Keep(t) /\ Busy(t)))
    BY <1>7 DEF ExcludeByFilter, is_auto_calibrated, NotFound, Match, setupVars, Busy
  <2> QED
    BY <1>6, <2>1
<1>8. CASE Finished \/ UNCHANGED pipelineVars
  BY <1>4, <1>8 DEF Finished, pipelineVars, RInv, Busy
<1> QED
  BY <1>1, <1>2, <1>3, <1>5, <1>7, <1>8 DEF PipelineNext

LEMMA RInvSound == CInv /\ RInv => SameBodySound
<1> SUFFICES ASSUME CInv, RInv, NEW a \in Answers, NEW b \in Answers, has_same_body(a.r, b.r)
             PROVE  Rendered(a.w.body, a.r.path) = Rendered(b.w.body, b.r.path)
  BY DEF SameBodySound
<1>1. \A c \in Answers : FromServer(c.w, c.r)
  BY DEF Answers, RInv
<1>2. \A c \in Answers :
        /\ c.r.hashed \in BOOLEAN /\ c.r.complete \in BOOLEAN
        /\ KeptWhole(c.r.complete, c.r.hashed, c.r.digest, c.r.body, Rendered(c.w.body, c.r.path))
  <2> SUFFICES ASSUME NEW c \in Answers
               PROVE  /\ c.r.hashed \in BOOLEAN /\ c.r.complete \in BOOLEAN
                      /\ KeptWhole(c.r.complete, c.r.hashed, c.r.digest, c.r.body, Rendered(c.w.body, c.r.path))
    OBVIOUS
  <2>1. c.w \in scenario.samples \cup scenario.answers /\ c.r = Received(c.w, c.r.path)
    BY <1>1 DEF FromServer
  <2> QED
    BY <2>1, ReceivedWhole DEF CInv
<1>3. a.r.complete = TRUE /\ b.r.complete = TRUE
  BY <1>2 DEF has_same_body
<1>4. CASE a.r.hashed = TRUE \/ b.r.hashed = TRUE
  <2>1. _body_fingerprint(a.r) = _body_fingerprint(b.r)
    BY <1>4 DEF has_same_body
  <2> QED
    BY <1>2, <1>3, <2>1 DEF KeptWhole, _body_fingerprint
<1>5. CASE a.r.hashed = FALSE /\ b.r.hashed = FALSE
  BY <1>2, <1>3, <1>5 DEF KeptWhole, has_same_body
<1> QED
  BY <1>2, <1>4, <1>5

\* SameBodySound: a body of which a prefix or a digest was kept is declared
\* equal to another only when the two answers' bodies are equal, for bodies,
\* chunks and limits of any size.
THEOREM BodiesComparedWhole == PipelineSpec => []SameBodySound
<1>1. PipelineInit => CInv /\ RInv
  BY InitCInv, InitRInv
<1>2. CInv /\ RInv /\ [PipelineNext]_pipelineVars => CInv' /\ RInv'
  BY NextCInv, NextRInv
<1>3. CInv /\ RInv => SameBodySound
  BY RInvSound
<1> QED
  BY <1>1, <1>2, <1>3, PTL DEF PipelineSpec

-----------------------------------------------------------------------------
\* A header that is not repeated reads the same on both sides.
LEMMA SameHeaders ==
  ASSUME NEW X, NEW tags \in Seq(X), Len(tags) <= 1
  PROVE  native_headers_to_text(tags) = response_headers_text(tags)
<1> DEFINE D == DOMAIN tags
           rust(text, v) == IF text = <<>> THEN <<"x:", v>> ELSE text \o <<"\n", "x:", v>>
           python(text, v) == IF text = <<>> THEN <<v>> ELSE text \o <<",", v>>
           Rust(g) == g = [s \in SUBSET D |-> IF s = {} THEN <<>>
                                             ELSE rust(g[s \ {Max(s)}], tags[Max(s)])]
           Python(g) == g = [s \in SUBSET D |-> IF s = {} THEN <<>>
                                               ELSE python(g[s \ {Max(s)}], tags[Max(s)])]
           r == [s \in SUBSET D |-> IF s = {} THEN <<>> ELSE <<"x:", tags[1]>>]
           p == [s \in SUBSET D |-> IF s = {} THEN <<>> ELSE <<tags[1]>>]
<1>1. /\ native_headers_to_text(tags) = (CHOOSE g : Rust(g))[D]
      /\ response_headers_text(tags) = IF tags = <<>> THEN <<>>
                                       ELSE <<"x:">> \o (CHOOSE g : Python(g))[D]
  BY DEF native_headers_to_text, response_headers_text, FoldLeft, MapThenFoldSet
<1>2. D = {} \/ D = {1}
  <2>1. D = 1 .. Len(tags) /\ Len(tags) \in Nat
    BY LenProperties
  <2>2. Len(tags) = 0 \/ Len(tags) = 1
    BY <2>1
  <2>3. 1 .. 0 = {} /\ 1 .. 1 = {1}
    OBVIOUS
  <2> QED
    BY <2>1, <2>2, <2>3
<1>3. Max({1}) = 1
  BY DEF Max
<1>4. \A s \in SUBSET D : s # {} => s = {1} /\ Max(s) = 1 /\ s \ {Max(s)} = {}
  BY <1>2, <1>3
<1>5. Rust(r) /\ Python(p)
  BY <1>4
<1>6. Rust(CHOOSE g : Rust(g)) /\ Python(CHOOSE g : Python(g))
  <2> HIDE DEF Rust, Python
  <2> QED
    BY <1>5
<1>7. ASSUME NEW g, Rust(g)
      PROVE  g[D] = IF D = {} THEN <<>> ELSE <<"x:", tags[1]>>
  <2>1. {} \in SUBSET D /\ D \in SUBSET D
    OBVIOUS
  <2>2. g[{}] = <<>>
    BY <1>7, <2>1
  <2>3. D # {} => g[D] = rust(g[{}], tags[1])
    BY <1>4, <1>7, <2>1
  <2> QED
    BY <2>2, <2>3
<1>8. ASSUME NEW g, Python(g)
      PROVE  g[D] = IF D = {} THEN <<>> ELSE <<tags[1]>>
  <2>1. {} \in SUBSET D /\ D \in SUBSET D
    OBVIOUS
  <2>2. g[{}] = <<>>
    BY <1>8, <2>1
  <2>3. D # {} => g[D] = python(g[{}], tags[1])
    BY <1>4, <1>8, <2>1
  <2> QED
    BY <2>2, <2>3
<1>9. D = {} <=> tags = <<>>
  OBVIOUS
<1>10. <<"x:">> \o <<tags[1]>> = <<"x:", tags[1]>>
  <2> DEFINE S == {"x:", tags[1]}
             s == <<"x:">>
             t == <<tags[1]>>
  <2>1. /\ s \in Seq(S) /\ Len(s) = 1 /\ s[1] = "x:"
        /\ t \in Seq(S) /\ Len(t) = 1 /\ t[1] = tags[1]
    OBVIOUS
  <2> HIDE DEF s, t
  <2>2. /\ s \o t \in Seq(S) /\ Len(s \o t) = 2
        /\ (s \o t)[1] = "x:" /\ (s \o t)[2] = tags[1]
    BY <2>1, ConcatProperties
  <2> DEFINE d == <<"x:", tags[1]>>
  <2>3. d \in Seq(S) /\ Len(d) = 2 /\ d[1] = "x:" /\ d[2] = tags[1]
    OBVIOUS
  <2> HIDE DEF d
  <2>4. \A i \in 1 .. 2 : (s \o t)[i] = d[i]
    BY <2>2, <2>3
  <2>5. s \o t = d
    BY <2>2, <2>3, <2>4, SeqEqual
  <2> QED
    BY <2>5 DEF s, t, d
<1> HIDE DEF Rust, Python
<1> QED
  BY <1>1, <1>6, <1>7, <1>8, <1>9, <1>10

\* Text without invalid bytes decodes to itself, however they are treated.
LEMMA DecodedAsIs ==
  ASSUME NEW X, NEW body \in Seq(X), \A i \in DOMAIN body : body[i] # "hi", NEW errors
  PROVE  Decode(body, "utf8", errors) = body
<1>1. body \in [1 .. Len(body) -> X]
  BY LenProperties
<1>2. ReplacePath(body, "hi", "?") = body
  BY <1>1 DEF ReplacePath
<1>3. ~Contains(body, "hi")
  BY <1>1 DEF Contains
<1>4. RemovePath(body, "hi") = body
  BY <1>3 DEF RemovePath
<1> QED
  BY <1>2, <1>4 DEF Decode

\* The text the Rust filters look at is the one Python's look at.
LEMMA SameText ==
  ASSUME NEW w, w.body \in Seq(STRING), NEW path, ~has_non_utf8_charset(w), ~ReadsDiffer(w, path)
  PROVE  Decode(read_decoded_body(Rendered(w.body, path)).body, "utf8", "replace")
           = Text(NativeResponse(w, path))
<1> DEFINE body == read_decoded_body(Rendered(w.body, path)).body
           r == NativeResponse(w, path)
           decodeBinary == _should_decode_binary_text(w)
<1>1. body \in Seq(STRING \cup {path})
  <2> DEFINE s == Rendered(w.body, path)
  <2>1. s \in Seq(STRING \cup {path})
    BY RenderedWhole
  <2>2. body = SubSeq(s, 1, IF Len(s) < MaxResponseSize THEN Len(s) ELSE MaxResponseSize)
    BY DEF read_decoded_body
  <2> HIDE DEF s, body
  <2>3. \A n \in 0 .. Len(s) : SubSeq(s, 1, n) \in Seq(STRING \cup {path})
    BY <2>1, SubSeqProperties
  <2> QED
    BY <2>1, <2>2, <2>3, SizesAssumption
<1>2. /\ r.body = body
      /\ r.content = _decode_response_body(body, w.charset, decodeBinary)
  <2> HIDE DEF body, decodeBinary
  <2> QED
    BY DEF NativeResponse, BaseResponse, NewCapture, body, decodeBinary
<1>3. w.charset # "latin"
  BY DEF has_non_utf8_charset
<1> HIDE DEF body, r
<1>4. CASE is_binary(body) /\ ~decodeBinary
  <2>1. r.content = <<>>
    BY <1>2, <1>4 DEF _decode_response_body
  <2>2. \A i \in DOMAIN body : body[i] # "hi"
    BY <1>2, <2>1 DEF ReadsDiffer, r
  <2> QED
    BY <1>1, <1>2, <2>1, <2>2, DecodedAsIs DEF Text, body, r
<1>5. CASE ~(is_binary(body) /\ ~decodeBinary)
  <2>1. r.content = Decode(body, "utf8", "replace")
    BY <1>2, <1>3, <1>5 DEF _decode_response_body, _is_known_charset, Decode
  <2>2. CASE r.content = <<>>
    <3>1. \A i \in DOMAIN body : body[i] # "hi"
      BY <1>2, <2>2 DEF ReadsDiffer, r
    <3> QED
      BY <1>1, <1>2, <2>2, <3>1, DecodedAsIs DEF Text, body, r
  <2>3. CASE r.content # <<>>
    BY <2>1, <2>3 DEF Text, body, r
  <2> QED
    BY <2>2, <2>3
<1> QED
  BY <1>4, <1>5

\* Without separator bytes the two sides count the same words.
LEMMA SameWords ==
  ASSUME NEW w, w.body \in Seq(STRING), NEW path, ~ReadsDiffer(w, path),
         NEW text, text = Decode(read_decoded_body(Rendered(w.body, path)).body, "utf8", "replace")
  PROVE  native_word_count(text) = WordCount(text)
<1> DEFINE body == read_decoded_body(Rendered(w.body, path)).body
<1>1. NativeResponse(w, path).body = body
  <2> HIDE DEF body
  <2> QED
    BY DEF NativeResponse, BaseResponse, NewCapture, body
<1>2. \A i \in DOMAIN body : body[i] # "fs"
  BY <1>1, Zenon DEF ReadsDiffer
<1> HIDE DEF body
<1>3. text = ReplacePath(body, "hi", "?")
  BY DEF Decode, body
<1>4. DOMAIN text = DOMAIN body /\ \A i \in DOMAIN text : text[i] # "fs"
  BY <1>2, <1>3 DEF ReplacePath
<1>5. text = [i \in DOMAIN text |-> text[i]]
  BY <1>3 DEF ReplacePath
<1>6. ReplacePath(text, "fs", "nul") = text
  BY <1>4, <1>5 DEF ReplacePath
<1> QED
  BY <1>6, Zenon DEF native_word_count

\* What both sides' advanced checks look at is the same.
SameView(c, w, r, text, length) ==
  /\ r.status = w.status /\ r.length = length /\ r.elapsed = w.elapsed
  /\ response_headers_text(r.tags) = native_headers_to_text(w.tags)
  /\ \/ text = Text(r) /\ native_word_count(text) = WordCount(text)
     \/ ~needs_text(c)

LEMMA SameMatchers ==
  ASSUME NEW c, NEW w, NEW path, NEW r, NEW text, NEW length, SameView(c, w, r, text, length)
  PROVE  native_matches_advanced_matchers(c, w, text, length) = matches_advanced_matchers(c, r)
<1> DEFINE statuses == Check(c.match_status_codes # {}, w.status \in c.match_status_codes)
           sizes == Check(c.match_sizes # {}, matches_numeric_ranges(length, c.match_sizes))
           words(n) == Check(c.match_words # {}, matches_numeric_ranges(n, c.match_words))
           lines(s) == Check(c.match_lines # {}, matches_numeric_ranges(LineCount(s), c.match_lines))
           regex(s) == Check(c.match_regex # <<>>, Occurs(c.match_regex, s))
           headers(s) == Check(c.match_headers # {}, \E p \in c.match_headers : Occurs(p, s))
           header(s) == Check(c.match_header_regex # <<>>, Occurs(c.match_header_regex, s))
           times == Check(c.match_time # {}, matches_time_filters(w.elapsed, c.match_time))
<1>1. /\ words(native_word_count(text)) = words(WordCount(Text(r)))
      /\ lines(text) = lines(Text(r)) /\ regex(text) = regex(Text(r))
  <2>1. CASE text = Text(r) /\ native_word_count(text) = WordCount(text)
    BY <2>1
  <2>2. CASE ~needs_text(c)
    <3>1. c.match_words = {} /\ c.match_lines = {} /\ c.match_regex = <<>>
      BY <2>2 DEF needs_text
    <3> QED
      BY <3>1 DEF Check
  <2> QED
    BY <2>1, <2>2 DEF SameView
<1>2. matches_header_text(r, {c.match_header_regex}) = Occurs(c.match_header_regex, response_headers_text(r.tags))
  BY DEF matches_header_text, Occurs
<1>3. matches_header_text(r, c.match_headers)
        = (\E p \in c.match_headers : Occurs(p, response_headers_text(r.tags)))
  BY Zenon DEF matches_header_text
<1>4. /\ r.status = w.status /\ r.length = length /\ r.elapsed = w.elapsed
      /\ response_headers_text(r.tags) = native_headers_to_text(w.tags)
  BY DEF SameView
<1>5. native_matches_advanced_matchers(c, w, text, length)
        = _combine_advanced_checks(
            UNION {statuses, sizes, words(native_word_count(text)), lines(text), regex(text),
                   headers(native_headers_to_text(w.tags)), header(native_headers_to_text(w.tags)),
                   times}, c.matcher_mode, TRUE)
  BY DEF native_matches_advanced_matchers
<1>6. matches_advanced_matchers(c, r)
        = _combine_advanced_checks(
            UNION {statuses, sizes, words(WordCount(Text(r))), lines(Text(r)), regex(Text(r)),
                   headers(native_headers_to_text(w.tags)), header(native_headers_to_text(w.tags)),
                   times}, c.matcher_mode, TRUE)
  <2>1. /\ Check(c.match_status_codes # {}, r.status \in c.match_status_codes) = statuses
        /\ Check(c.match_sizes # {}, matches_numeric_ranges(r.length, c.match_sizes)) = sizes
        /\ Check(c.match_time # {}, matches_time_filters(r.elapsed, c.match_time)) = times
    BY <1>4, Zenon
  <2>2. Check(c.match_headers # {}, matches_header_text(r, c.match_headers))
          = headers(native_headers_to_text(w.tags))
    BY <1>3, <1>4, Zenon
  <2>3. Check(c.match_header_regex # <<>>, matches_header_text(r, {c.match_header_regex}))
          = header(native_headers_to_text(w.tags))
    BY <1>2, <1>4, Zenon
  <2>4. matches_advanced_matchers(c, r)
          = _combine_advanced_checks(
              UNION {Check(c.match_status_codes # {}, r.status \in c.match_status_codes),
                     Check(c.match_sizes # {}, matches_numeric_ranges(r.length, c.match_sizes)),
                     words(WordCount(Text(r))), lines(Text(r)), regex(Text(r)),
                     Check(c.match_headers # {}, matches_header_text(r, c.match_headers)),
                     Check(c.match_header_regex # <<>>, matches_header_text(r, {c.match_header_regex})),
                     Check(c.match_time # {}, matches_time_filters(r.elapsed, c.match_time))},
              c.matcher_mode, TRUE)
    BY DEF matches_advanced_matchers
  <2> HIDE DEF words, lines, regex, headers, header, statuses, sizes, times
  <2> QED
    BY <2>1, <2>2, <2>3, <2>4, Zenon
<1> HIDE DEF words, lines, regex, headers, header, statuses, sizes, times
<1> QED
  BY <1>1, <1>5, <1>6

LEMMA SameFilters ==
  ASSUME NEW c, NEW w, NEW path, NEW r, NEW text, NEW length, SameView(c, w, r, text, length)
  PROVE  native_matches_advanced_filters(c, w, text, length) = matches_advanced_filters(c, r)
<1> DEFINE statuses == Check(c.filter_status_codes # {}, w.status \in c.filter_status_codes)
           sizes == Check(c.filter_sizes # {}, matches_numeric_ranges(length, c.filter_sizes))
           words(n) == Check(c.filter_words # {}, matches_numeric_ranges(n, c.filter_words))
           lines(s) == Check(c.filter_lines # {}, matches_numeric_ranges(LineCount(s), c.filter_lines))
           regex(s) == Check(c.filter_regex # <<>>, Occurs(c.filter_regex, s))
           headers(s) == Check(c.filter_headers # {}, \E p \in c.filter_headers : Occurs(p, s))
           header(s) == Check(c.filter_header_regex # <<>>, Occurs(c.filter_header_regex, s))
           times == Check(c.filter_time # {}, matches_time_filters(w.elapsed, c.filter_time))
<1>1. /\ words(native_word_count(text)) = words(WordCount(Text(r)))
      /\ lines(text) = lines(Text(r)) /\ regex(text) = regex(Text(r))
  <2>1. CASE text = Text(r) /\ native_word_count(text) = WordCount(text)
    BY <2>1
  <2>2. CASE ~needs_text(c)
    <3>1. c.filter_words = {} /\ c.filter_lines = {} /\ c.filter_regex = <<>>
      BY <2>2 DEF needs_text
    <3> QED
      BY <3>1 DEF Check
  <2> QED
    BY <2>1, <2>2 DEF SameView
<1>2. matches_header_text(r, {c.filter_header_regex}) = Occurs(c.filter_header_regex, response_headers_text(r.tags))
  BY DEF matches_header_text, Occurs
<1>3. matches_header_text(r, c.filter_headers)
        = (\E p \in c.filter_headers : Occurs(p, response_headers_text(r.tags)))
  BY Zenon DEF matches_header_text
<1>4. /\ r.status = w.status /\ r.length = length /\ r.elapsed = w.elapsed
      /\ response_headers_text(r.tags) = native_headers_to_text(w.tags)
  BY DEF SameView
<1>5. native_matches_advanced_filters(c, w, text, length)
        = _combine_advanced_checks(
            UNION {statuses, sizes, words(native_word_count(text)), lines(text), regex(text),
                   headers(native_headers_to_text(w.tags)), header(native_headers_to_text(w.tags)),
                   times}, c.filter_mode, FALSE)
  BY DEF native_matches_advanced_filters
<1>6. matches_advanced_filters(c, r)
        = _combine_advanced_checks(
            UNION {statuses, sizes, words(WordCount(Text(r))), lines(Text(r)), regex(Text(r)),
                   headers(native_headers_to_text(w.tags)), header(native_headers_to_text(w.tags)),
                   times}, c.filter_mode, FALSE)
  <2>1. /\ Check(c.filter_status_codes # {}, r.status \in c.filter_status_codes) = statuses
        /\ Check(c.filter_sizes # {}, matches_numeric_ranges(r.length, c.filter_sizes)) = sizes
        /\ Check(c.filter_time # {}, matches_time_filters(r.elapsed, c.filter_time)) = times
    BY <1>4, Zenon
  <2>2. Check(c.filter_headers # {}, matches_header_text(r, c.filter_headers))
          = headers(native_headers_to_text(w.tags))
    BY <1>3, <1>4, Zenon
  <2>3. Check(c.filter_header_regex # <<>>, matches_header_text(r, {c.filter_header_regex}))
          = header(native_headers_to_text(w.tags))
    BY <1>2, <1>4, Zenon
  <2>4. matches_advanced_filters(c, r)
          = _combine_advanced_checks(
              UNION {Check(c.filter_status_codes # {}, r.status \in c.filter_status_codes),
                     Check(c.filter_sizes # {}, matches_numeric_ranges(r.length, c.filter_sizes)),
                     words(WordCount(Text(r))), lines(Text(r)), regex(Text(r)),
                     Check(c.filter_headers # {}, matches_header_text(r, c.filter_headers)),
                     Check(c.filter_header_regex # <<>>, matches_header_text(r, {c.filter_header_regex})),
                     Check(c.filter_time # {}, matches_time_filters(r.elapsed, c.filter_time))},
              c.filter_mode, FALSE)
    BY DEF matches_advanced_filters
  <2> HIDE DEF words, lines, regex, headers, header, statuses, sizes, times
  <2> QED
    BY <2>1, <2>2, <2>3, <2>4, Zenon
<1> HIDE DEF words, lines, regex, headers, header, statuses, sizes, times
<1> QED
  BY <1>1, <1>5, <1>6

LEMMA DroppedExcluded ==
  ASSUME NEW c, NEW w, w.body \in Seq(STRING), w.tags \in Seq(STRING), NEW path,
         NativeVerdict(c, w, path) = "dropped", ~ReadsDiffer(w, path)
  PROVE  Excluded(c, NativeResponse(w, path))
<1> DEFINE raw == read_decoded_body(Rendered(w.body, path))
           length == native_response_length(w, raw.length)
           text == Decode(raw.body, "utf8", "replace")
           r == NativeResponse(w, path)
<1>1. filter_reason(c, w, path) = "filtered"
  BY DEF NativeVerdict
<1>2. /\ r.status = w.status /\ r.length = length /\ r.elapsed = w.elapsed /\ r.tags = w.tags
  <2> HIDE DEF raw
  <2> QED
    BY DEF NativeResponse, BaseResponse, raw
<1>3. Len(w.tags) <= 1
  <2>1. ~(Len(w.tags) > 1) /\ Len(w.tags) \in Nat
    BY LenProperties DEF ReadsDiffer
  <2> QED
    BY <2>1
<1>4. response_headers_text(r.tags) = native_headers_to_text(w.tags)
  BY <1>2, <1>3, SameHeaders
<1>5. ~has_non_utf8_charset(w) => text = Text(r) /\ native_word_count(text) = WordCount(text)
  <2>1. native_word_count(text) = WordCount(text)
    BY SameWords, Zenon
  <2> QED
    BY <2>1, SameText
<1>6. \/ status_filter_reason(c, w.status)
      \/ length < c.minimum_response_size
      \/ c.maximum_response_size > 0 /\ length > c.maximum_response_size
      \/ /\ ~(needs_text(c) /\ has_non_utf8_charset(w))
         /\ \/ ~native_matches_advanced_matchers(c, w, text, length)
            \/ native_matches_advanced_filters(c, w, text, length)
  <2> HIDE DEF raw
  <2> QED
    BY <1>1 DEF filter_reason, raw
<1> HIDE DEF raw, length, text, r
<1>7. CASE \/ status_filter_reason(c, w.status)
           \/ length < c.minimum_response_size
           \/ c.maximum_response_size > 0 /\ length > c.maximum_response_size
  <2>1. Excluded(c, r)
    BY <1>2, <1>7 DEF Excluded, status_filter_reason
  <2> QED
    BY <2>1 DEF r
<1>8. CASE /\ ~(needs_text(c) /\ has_non_utf8_charset(w))
           /\ \/ ~native_matches_advanced_matchers(c, w, text, length)
              \/ native_matches_advanced_filters(c, w, text, length)
  <2>1. SameView(c, w, r, text, length)
    BY <1>2, <1>4, <1>5, <1>8 DEF SameView
  <2>2. ~matches_advanced_matchers(c, r) \/ matches_advanced_filters(c, r)
    BY <1>8, <2>1, SameMatchers, SameFilters
  <2>3. Excluded(c, r)
    BY <2>2 DEF Excluded
  <2> QED
    BY <2>3 DEF r
<1> QED
  BY <1>6, <1>7, <1>8

-----------------------------------------------------------------------------
\* What never reached Python was dropped by the Rust filters.
DInv ==
  \A d \in dropped : d.w \in scenario.answers /\ NativeVerdict(options, d.w, d.path) = "dropped"

LEMMA NextDInv == DInv /\ [PipelineNext]_pipelineVars => DInv'
<1> SUFFICES ASSUME DInv, [PipelineNext]_pipelineVars
             PROVE  DInv'
  OBVIOUS
<1>1. ASSUME UNCHANGED <<scenario, dropped>>
      PROVE  DInv'
  BY <1>1 DEF DInv, options
<1>2. ASSUME NEW t \in Threads, Receive(t)
      PROVE  DInv'
  <2>1. PICK w \in scenario.answers :
          \/ dropped' = dropped
          \/ /\ NativeVerdict(options, w, Paths[asked + 1]) = "dropped"
             /\ dropped' = dropped \cup {[w |-> w, path |-> Paths[asked + 1]]}
    BY <1>2 DEF Receive
  <2>2. scenario' = scenario
    BY <1>2 DEF Receive
  <2> QED
    BY <2>1, <2>2 DEF DInv, options
<1>3. CASE \/ FirstSample \/ SecondSample \/ ExtraSample \/ Finished \/ UNCHANGED pipelineVars
           \/ \E t \in Threads : ExcludeByFilter(t) \/ is_auto_calibrated(t) \/ NotFound(t) \/ Match(t)
  <2>1. UNCHANGED <<scenario, dropped>>
    BY <1>3 DEF FirstSample, SecondSample, ExtraSample, Finished, pipelineVars, ExcludeByFilter,
       is_auto_calibrated, NotFound, Match
  <2> QED
    BY <1>1, <2>1
<1> QED
  BY <1>2, <1>3 DEF PipelineNext

\* NativeFilterSound: what the engine's filters drop before Python sees it,
\* Python's own filters would have excluded, for any options and any answer
\* that both read alike.
THEOREM NativeFiltersHideNothing == PipelineSpec => []NativeFilterSound
<1>1. PipelineInit => CInv /\ DInv
  BY InitCInv DEF PipelineInit, DInv
<1>2. CInv /\ DInv /\ [PipelineNext]_pipelineVars => CInv' /\ DInv'
  BY NextCInv, NextDInv
<1>3. CInv /\ DInv => NativeFilterSound
  <2> SUFFICES ASSUME CInv, DInv, NEW d \in dropped, ~ReadsDiffer(d.w, d.path)
               PROVE  Excluded(options, NativeResponse(d.w, d.path))
    BY DEF NativeFilterSound
  <2>1. d.w.body \in Seq(STRING) /\ d.w.tags \in Seq(STRING)
    BY ScenarioAssumption DEF CInv, DInv
  <2> QED
    BY <2>1, DroppedExcluded DEF DInv
<1> QED
  BY <1>1, <1>2, <1>3, PTL DEF PipelineSpec

(***************************************************************************)
(* Part 2.  The journalled report implements a durable log, for any rows,  *)
(* however many, and any sequence of failures and restarts.                *)
(***************************************************************************)
\* Sequence r is b followed by the first n elements of e, element by element.
Joins(r, b, e, n) ==
  /\ Len(r) = Len(b) + n
  /\ \A i \in 1 .. Len(b) + n : r[i] = IF i <= Len(b) THEN b[i] ELSE e[i - Len(b)]

LEMMA PrefixJoins ==
  ASSUME NEW S, NEW b \in Seq(S), NEW e \in Seq(S), NEW n \in 0 .. Len(e)
  PROVE  /\ b \o SubSeq(e, 1, n) \in Seq(S)
         /\ Joins(b \o SubSeq(e, 1, n), b, e, n)
<1>1. Len(e) \in Nat /\ Len(b) \in Nat /\ \A i \in 1 .. Len(e) : e[i] \in S
  BY LenProperties, ElementOfSeq
<1> DEFINE front == SubSeq(e, 1, n)
           r == b \o front
<1>2. front \in Seq(S) /\ Len(front) = n /\ \A i \in 1 .. n : front[i] = e[i]
  BY <1>1, SubSeqProperties
<1> HIDE DEF front
<1>3. /\ r \in Seq(S) /\ Len(r) = Len(b) + n
      /\ \A i \in 1 .. Len(b) + n : r[i] = IF i <= Len(b) THEN b[i] ELSE front[i - Len(b)]
  BY <1>1, <1>2, ConcatProperties
<1> HIDE DEF r
<1>4. \A i \in 1 .. Len(b) + n : r[i] = IF i <= Len(b) THEN b[i] ELSE e[i - Len(b)]
  <2> SUFFICES ASSUME NEW i \in 1 .. Len(b) + n
               PROVE  r[i] = IF i <= Len(b) THEN b[i] ELSE e[i - Len(b)]
    OBVIOUS
  <2>1. CASE i <= Len(b)
    BY <1>3, <2>1
  <2>2. CASE ~(i <= Len(b))
    <3>1. i - Len(b) \in 1 .. n
      BY <1>1, <2>2
    <3> QED
      BY <1>2, <1>3, <2>2, <3>1
  <2> QED
    BY <2>1, <2>2
<1> QED
  BY <1>3, <1>4 DEF Joins, r, front

\* Such a prefix and the rest after it make the whole.
LEMMA PrefixAndRest ==
  ASSUME NEW S, NEW b \in Seq(S), NEW e \in Seq(S), NEW n \in 0 .. Len(e),
         NEW r \in Seq(S), Joins(r, b, e, n)
  PROVE  r \o SubSeq(e, n + 1, Len(e)) = b \o e
<1>1. Len(e) \in Nat /\ Len(b) \in Nat /\ \A i \in 1 .. Len(e) : e[i] \in S
  BY LenProperties, ElementOfSeq
<1> DEFINE rest == SubSeq(e, n + 1, Len(e))
<1>3. /\ rest \in Seq(S) /\ Len(rest) = Len(e) - n
      /\ \A i \in 1 .. Len(e) - n : rest[i] = e[n + i]
  <2>1. \A i \in n + 1 .. Len(e) : e[i] \in S
    BY <1>1
  <2>2. CASE n = Len(e)
    BY <1>1, <2>2, SubSeqEmpty
  <2>3. CASE n < Len(e)
    <3>1. n + 1 \in Int /\ Len(e) \in Int /\ n + 1 <= Len(e)
      BY <1>1, <2>3
    <3>2. rest \in Seq(S) /\ Len(rest) = Len(e) - (n + 1) + 1
      BY <1>1, <2>1, <3>1, SubSeqProperties
    <3>3. \A i \in 1 .. Len(e) - n : rest[i] = e[n + 1 + i - 1]
      BY <1>1, <2>1, <3>1, SubSeqProperties
    <3> QED
      BY <1>1, <3>2, <3>3
  <2> QED
    BY <1>1, <2>2, <2>3
<1> HIDE DEF rest
<1>4. /\ Len(r) = Len(b) + n
      /\ \A i \in 1 .. Len(b) + n : r[i] = IF i <= Len(b) THEN b[i] ELSE e[i - Len(b)]
  BY DEF Joins
<1> DEFINE left == r \o rest
           right == b \o e
<1>5. /\ left \in Seq(S) /\ Len(left) = Len(b) + Len(e)
      /\ \A i \in 1 .. Len(b) + Len(e) :
           left[i] = IF i <= Len(b) + n THEN r[i] ELSE rest[i - (Len(b) + n)]
  <2>1. /\ left \in Seq(S) /\ Len(left) = Len(r) + Len(rest)
        /\ \A i \in 1 .. Len(r) + Len(rest) :
             left[i] = IF i <= Len(r) THEN r[i] ELSE rest[i - Len(r)]
    BY <1>3, <1>4, ConcatProperties
  <2>2. Len(r) + Len(rest) = Len(b) + Len(e)
    <3>1. Len(r) + Len(rest) = (Len(b) + n) + (Len(e) - n)
      BY <1>3, <1>4
    <3>2. n \in Int /\ Len(e) \in Int /\ Len(b) \in Int
      BY <1>1
    <3>3. (Len(b) + n) + (Len(e) - n) = Len(b) + Len(e)
      BY <3>2
    <3> QED
      BY <3>1, <3>3
  <2> QED
    BY <1>4, <2>1, <2>2
<1>6. /\ right \in Seq(S) /\ Len(right) = Len(b) + Len(e)
      /\ \A i \in 1 .. Len(b) + Len(e) : right[i] = IF i <= Len(b) THEN b[i] ELSE e[i - Len(b)]
  BY ConcatProperties
<1> HIDE DEF left, right
<1>7. \A i \in 1 .. Len(b) + Len(e) : left[i] = right[i]
  <2> SUFFICES ASSUME NEW i \in 1 .. Len(b) + Len(e) PROVE left[i] = right[i]
    OBVIOUS
  <2>1. \/ i <= Len(b)
        \/ i > Len(b) /\ i <= Len(b) + n
        \/ i > Len(b) + n
    BY <1>1
  <2>2. CASE i <= Len(b)
    <3>1. i <= Len(b) + n /\ i \in 1 .. Len(b) + n
      BY <1>1, <2>2
    <3>2. left[i] = r[i]
      BY <1>5, <3>1
    <3>3. r[i] = b[i]
      BY <1>4, <2>2, <3>1
    <3>4. right[i] = b[i]
      BY <1>6, <2>2
    <3> QED
      BY <3>2, <3>3, <3>4
  <2>3. CASE i > Len(b) /\ i <= Len(b) + n
    <3>2. i \in 1 .. Len(b) + n /\ ~(i <= Len(b))
      BY <1>1, <2>3
    <3>3. left[i] = r[i]
      BY <1>5, <2>3
    <3>4. r[i] = e[i - Len(b)]
      BY <1>4, <3>2
    <3>5. right[i] = e[i - Len(b)]
      BY <1>6, <3>2
    <3> QED
      BY <3>3, <3>4, <3>5
  <2>4. CASE i > Len(b) + n
    <3>1. i - (Len(b) + n) \in 1 .. Len(e) - n /\ n + (i - (Len(b) + n)) = i - Len(b)
      BY <1>1, <2>4
    <3>2. left[i] = rest[i - (Len(b) + n)]
      BY <1>1, <1>5, <2>4
    <3>3. right[i] = e[i - Len(b)]
      BY <1>1, <1>6, <2>4
    <3> QED
      BY <1>3, <3>1, <3>2, <3>3
  <2> QED
    BY <2>1, <2>2, <2>3, <2>4
<1>8. left = right
  BY <1>5, <1>6, <1>7, SeqEqual
<1> QED
  BY <1>8 DEF left, right, rest

\* A whole that is its own prefix has no rest.
LEMMA WholeLength ==
  ASSUME NEW S, NEW b \in Seq(S), NEW e \in Seq(S)
  PROVE  /\ b \o e \in Seq(S) /\ Len(b \o e) = Len(b) + Len(e)
         /\ SubSeq(e, 1, Len(e)) = e
         /\ b \o <<>> = b
         /\ Len(b) \in Nat /\ Len(e) \in Nat
         /\ (Len(e) = 0 => b \o e = b)
<1>1. Len(b) \in Nat /\ Len(e) \in Nat
  BY LenProperties
<1>2. b \o <<>> = b
  BY ConcatEmptySeq
<1>3. Len(e) = 0 => e = <<>>
  BY EmptySeq
<1> QED
  BY <1>1, <1>2, <1>3, ConcatProperties, SubSeqFull

\* What the report file holds of the journal, as the invariant describes it.
LEMMA AppliedIsLength ==
  ASSUME IInv, journal.exists
  PROVE  /\ Applied \in 0 .. Len(journal.entries)
         /\ report = journal.base \o SubSeq(journal.entries, 1, Applied)
         /\ Replayed = Whole
         /\ (Applied = Len(journal.entries) <=> report = Whole)
<1> DEFINE b == journal.base
           e == journal.entries
<1>1. /\ b \in Seq(Rows) /\ e \in Seq(Rows) /\ report \in Seq(Rows)
      /\ \A c \in journal.commits : /\ c.entries \in Nat /\ c.entries <= Len(e)
                                    /\ c.report = b \o SubSeq(e, 1, c.entries)
      /\ (report = b \/ Matching # {})
  BY DEF IInv, TypeOK, Contents, CommitsArePrefixes, Recoverable, Consistent
<1>2. Len(b) \in Nat /\ Len(e) \in Nat
  BY <1>1, LenProperties
<1>3. Applied \in 0 .. Len(e) /\ report = b \o SubSeq(e, 1, Applied)
  <2>1. CASE report = b
    <3>1. Applied = 0
      BY <2>1 DEF Applied
    <3>2. SubSeq(e, 1, 0) = <<>>
      BY SubSeqEmpty
    <3> QED
      BY <1>1, <1>2, <2>1, <3>1, <3>2, ConcatEmptySeq
  <2>2. CASE report # b
    <3> DEFINE P(n) == /\ \E c \in Matching : c.entries = n
                       /\ \A c \in Matching : c.entries <= n
    <3>1. PICK c0 \in Matching : TRUE
      BY <1>1, <2>2
    <3>2. \A c \in Matching : c.entries = Len(report) - Len(b) /\ c.entries \in 0 .. Len(e)
      <4> SUFFICES ASSUME NEW c \in Matching
                   PROVE  c.entries = Len(report) - Len(b) /\ c.entries \in 0 .. Len(e)
        OBVIOUS
      <4>1. c \in journal.commits /\ c.report = report
        BY DEF Matching
      <4> DEFINE n == c.entries
      <4>10. n \in Nat /\ n <= Len(e) /\ c.report = b \o SubSeq(e, 1, n)
        BY <1>1, <4>1
      <4>11. c.report = report
        BY <4>1
      <4>12. n \in 0 .. Len(e)
        BY <1>2, <4>10
      <4>2. c.entries \in 0 .. Len(e) /\ report = b \o SubSeq(e, 1, c.entries)
        BY <4>10, <4>11, <4>12
      <4> HIDE DEF b, e, n
      <4>3. Len(report) = Len(b) + n
        BY <1>1, <4>2, PrefixJoins DEF n, Joins
      <4>4. n \in 0 .. Len(e) /\ Len(report) = Len(b) + n
        BY <4>2, <4>3 DEF n
      <4>5. n = Len(report) - Len(b)
        BY <1>2, <4>4
      <4> QED
        BY <4>4, <4>5 DEF n
    <3>3. P(c0.entries) /\ c0.entries \in 0 .. Len(e)
      BY <1>2, <3>1, <3>2
    <3>4. Applied = CHOOSE n \in 0 .. Len(e) : P(n)
      BY <2>2 DEF Applied
    <3>5. Applied \in 0 .. Len(e) /\ P(Applied)
      <4> HIDE DEF P
      <4> QED
        BY <3>3, <3>4
    <3>6. PICK c \in Matching : c.entries = Applied
      BY <3>5
    <3>7. c \in journal.commits /\ c.report = report
      BY <3>6 DEF Matching
    <3> QED
      BY <1>1, <3>5, <3>6, <3>7
  <2> QED
    BY <2>1, <2>2
<1>4. Replayed = b \o e
  <2> DEFINE n == Applied
  <2>1. n \in 0 .. Len(e) /\ report = b \o SubSeq(e, 1, n)
    BY <1>3
  <2> HIDE DEF n, b, e
  <2>2. Joins(report, b, e, n)
    BY <1>1, <2>1, PrefixJoins
  <2>3. n \in 0 .. Len(e)
    BY <2>1
  <2>4. report \o SubSeq(e, n + 1, Len(e)) = b \o e
    BY <1>1, <2>2, <2>3, PrefixAndRest
  <2> QED
    BY <2>4 DEF Replayed, n, b, e
<1>5. Applied = Len(e) <=> report = b \o e
  <2> DEFINE n == Applied
  <2>1. n \in 0 .. Len(e) /\ report = b \o SubSeq(e, 1, n)
    BY <1>3
  <2> HIDE DEF n, b, e
  <2>2. Len(report) = Len(b) + n
    <3>1. Joins(report, b, e, n)
      BY <1>1, <2>1, PrefixJoins
    <3> QED
      BY <3>1 DEF Joins
  <2>3. Len(b \o e) = Len(b) + Len(e) /\ SubSeq(e, 1, Len(e)) = e
    BY <1>1, WholeLength
  <2>4. n \in Nat
    BY <1>2, <2>1
  <2>5. report = b \o e => n = Len(e)
    <3>1. report = b \o e => Len(b) + n = Len(b) + Len(e)
      BY <2>2, <2>3
    <3> QED
      BY <1>2, <2>4, <3>1
  <2>6. n = Len(e) => report = b \o e
    BY <2>1, <2>3
  <2> QED
    BY <2>5, <2>6 DEF n
<1> QED
  BY <1>3, <1>4, <1>5 DEF Whole

\* What the next user of the output path finds, in terms of the files.
Shown == IF journal.exists THEN Whole ELSE report

LEMMA RecoveredIsShown == IInv => Recovered = Shown
  BY AppliedIsLength DEF Recovered, Shown

LEMMA RecoveredIsShownNext == (IInv => Recovered = Shown)'
  BY RecoveredIsShown, PTL

-----------------------------------------------------------------------------
(* The invariant, in the part about the two files and the part about memory *)

FilesInv ==
  /\ report \in Contents
  /\ journal \in [exists : BOOLEAN, base : Contents, entries : Contents,
                  commits : SUBSET [entries : Nat, report : Contents]]
  /\ \A c \in journal.commits : c.entries <= Len(journal.entries)
  /\ (~journal.exists => journal = NoJournal)
  /\ CommitsArePrefixes
  /\ Recoverable

MemoryInv ==
  /\ state \in [known : BOOLEAN, base : Contents, entries : Nat, applied : Nat]
  /\ step \in {"idle", "header", "append", "commit", "snapshot", "remove"}
  /\ row \in Contents
  /\ MemoryAgrees
  /\ StepReady
  /\ AppliedAgrees

LEMMA InvParts == IInv <=> FilesInv /\ MemoryInv
  BY DEF IInv, TypeOK, FilesInv, MemoryInv

LEMMA InvPartsNext == (IInv <=> FilesInv /\ MemoryInv)'
  BY InvParts, PTL

\* A step that writes no file keeps what was said of the files.
LEMMA FilesKept ==
  ASSUME FilesInv, report' = report, journal' = journal
  PROVE  FilesInv' /\ Whole' = Whole /\ Shown' = Shown
  BY DEF FilesInv, CommitsArePrefixes, Recoverable, Consistent, Matching, Whole, Shown,
         NoJournal

\* A state without a journal is consistent whatever the report holds.
LEMMA FilesWithoutJournal ==
  ASSUME report' \in Contents, journal' = NoJournal
  PROVE  FilesInv' /\ ~journal'.exists
<1>1. <<>> \in Contents
  BY EmptySeq DEF Contents
<1> QED
  BY <1>1 DEF FilesInv, CommitsArePrefixes, Recoverable, NoJournal

LEMMA InitIInv == Init => IInv /\ Recovered = <<>>
<1> SUFFICES ASSUME Init PROVE IInv /\ Recovered = <<>>
  OBVIOUS
<1>1. <<>> \in Contents
  BY EmptySeq DEF Contents
<1>2. FilesInv
  BY <1>1 DEF Init, FilesInv, CommitsArePrefixes, Recoverable, NoJournal
<1>3. MemoryInv
  BY <1>1 DEF Init, MemoryInv, MemoryAgrees, StepReady, AppliedAgrees, NoState
<1>4. Recovered = <<>>
  BY DEF Init, Recovered, NoJournal
<1> QED
  BY <1>2, <1>3, <1>4, InvParts

LEMMA InitiateFreshSafe ==
  ASSUME IInv, InitiateFresh
  PROVE  IInv' /\ Shown' = Shown
<1>1. FilesInv /\ MemoryInv
  BY InvParts
<1>2. FilesInv' /\ ~journal'.exists
  BY <1>1, FilesWithoutJournal DEF InitiateFresh, FilesInv
<1>3. MemoryInv'
  BY <1>1, <1>2 DEF InitiateFresh, FilesInv, MemoryInv, MemoryAgrees, StepReady,
                    AppliedAgrees, Fresh
<1>4. journal.exists => report = Whole
  BY AppliedIsLength DEF InitiateFresh, AllApplied
<1>5. Shown' = Shown
  BY <1>2, <1>4 DEF Shown, InitiateFresh
<1> QED
  BY <1>2, <1>3, <1>5, InvPartsNext

\* What reading the journal yields is what the counters should be.
LEMMA ReadStateRight ==
  ASSUME IInv, journal.exists
  PROVE  /\ ReadState \in [known : BOOLEAN, base : Contents, entries : Nat, applied : Nat]
         /\ ReadState.entries = Len(journal.entries)
         /\ ReadState.applied <= ReadState.entries
         /\ (ReadState.applied = ReadState.entries <=> report = Whole)
<1>1. Len(journal.entries) \in Nat /\ journal.base \in Contents
  BY LenProperties DEF IInv, TypeOK, Contents
<1>2. Applied \in 0 .. Len(journal.entries) /\ (Applied = Len(journal.entries) <=> report = Whole)
  BY AppliedIsLength
<1>3. Applied \in Nat /\ Applied <= Len(journal.entries)
  BY <1>1, <1>2
<1> QED
  BY <1>1, <1>2, <1>3 DEF ReadState

LEMMA InitiatePendingSafe ==
  ASSUME IInv, InitiatePending
  PROVE  IInv' /\ Shown' = Shown
<1>1. FilesInv /\ MemoryInv
  BY InvParts
<1>2. FilesInv' /\ Whole' = Whole /\ Shown' = Shown
  BY <1>1, FilesKept DEF InitiatePending
<1>3. /\ ReadState \in [known : BOOLEAN, base : Contents, entries : Nat, applied : Nat]
      /\ ReadState.entries = Len(journal.entries)
      /\ ReadState.applied <= ReadState.entries
      /\ (ReadState.applied = ReadState.entries <=> report = Whole)
  BY ReadStateRight DEF InitiatePending
<1>4. step = "idle"
  BY <1>1 DEF InitiatePending, MemoryInv, StepReady
<1>5. MemoryInv'
  BY <1>1, <1>2, <1>3, <1>4 DEF InitiatePending, MemoryInv, MemoryAgrees, StepReady, AppliedAgrees
<1> QED
  BY <1>2, <1>5, InvPartsNext

LEMMA SaveSafe ==
  ASSUME IInv, NEW entry \in Rows, Save(entry)
  PROVE  IInv' /\ Shown' = Shown
<1>1. FilesInv /\ MemoryInv
  BY InvParts
<1>2. FilesInv' /\ Whole' = Whole /\ Shown' = Shown
  BY <1>1, FilesKept DEF Save
<1>3. <<entry>> \in Contents
  BY DEF Contents
<1>4. MemoryAgrees' /\ AppliedAgrees'
  BY <1>1, <1>2 DEF Save, Idle, MemoryInv, MemoryAgrees, AppliedAgrees, Fresh
<1>5. StepReady'
  BY <1>1, <1>2 DEF Save, Idle, MemoryInv, StepReady
<1>6. MemoryInv'
  BY <1>1, <1>3, <1>4, <1>5 DEF Save, MemoryInv
<1> QED
  BY <1>2, <1>6, InvPartsNext

LEMMA WriteHeaderSafe ==
  ASSUME IInv, WriteHeader
  PROVE  IInv' /\ Shown' = Shown
<1>1. FilesInv /\ MemoryInv
  BY InvParts
<1>2. /\ ~journal.exists /\ state.known /\ state = Fresh(report)
      /\ report \in Contents
  BY <1>1 DEF WriteHeader, FilesInv, MemoryInv, MemoryAgrees, StepReady
<1>3. /\ journal' = [exists |-> TRUE, base |-> report, entries |-> <<>>, commits |-> {}]
      /\ report' = report /\ state' = state /\ row' = row /\ step = "header" /\ step' = "append"
  BY <1>2 DEF WriteHeader, NoJournal, Fresh
<1>4. <<>> \in Contents /\ Len(<<>>) = 0 /\ report \o <<>> = report
  BY <1>2, EmptySeq, ConcatEmptySeq DEF Contents
<1>5. Whole' = report
  BY <1>3, <1>4 DEF Whole
<1>6. FilesInv'
  BY <1>2, <1>3, <1>4 DEF FilesInv, CommitsArePrefixes, Recoverable, Consistent
<1>7. MemoryInv'
  BY <1>1, <1>2, <1>3, <1>4, <1>5 DEF MemoryInv, MemoryAgrees, StepReady, AppliedAgrees, Fresh
<1>8. Shown' = Shown
  BY <1>2, <1>3, <1>5 DEF Shown
<1> QED
  BY <1>6, <1>7, <1>8, InvPartsNext

\* Commit records keep announcing prefixes when an entry is appended, and the
\* whole grows by that entry.
LEMMA AppendKeepsPrefixes ==
  ASSUME NEW b \in Seq(Rows), NEW e \in Seq(Rows), NEW entry \in Rows
  PROVE  /\ e \o <<entry>> \in Seq(Rows)
         /\ Len(e \o <<entry>>) = Len(e) + 1
         /\ \A n \in 0 .. Len(e) : SubSeq(e \o <<entry>>, 1, n) = SubSeq(e, 1, n)
         /\ b \o (e \o <<entry>>) = Append(b \o e, entry)
<1> DEFINE r == <<entry>>
<1>1. r \in Seq(Rows) /\ Len(r) = 1 /\ Len(e) \in Nat
  BY LenProperties
<1>2. b \o e \in Seq(Rows) /\ Append(b \o e, entry) = (b \o e) \o r
  BY ConcatProperties, AppendIsConcat
<1> HIDE DEF r
<1>3. e \o r \in Seq(Rows) /\ Len(e \o r) = Len(e) + 1
  <2>1. e \o r \in Seq(Rows)
    BY <1>1, ConcatProperties
  <2> DEFINE total == Len(e \o r)
  <2>2. total = Len(e) + Len(r)
    BY <1>1, ConcatProperties
  <2> HIDE DEF total
  <2>3. total = Len(e) + 1
    BY <1>1, <2>2
  <2> QED
    BY <2>1, <2>3 DEF total
<1>4. (b \o e) \o r = b \o (e \o r)
  BY <1>1, ConcatAssociative, SMTT(60)
<1>5. \A n \in 0 .. Len(e) : SubSeq(e \o r, 1, n) = SubSeq(e, 1, n)
  <2> SUFFICES ASSUME NEW n \in 0 .. Len(e)
               PROVE  SubSeq(e \o r, 1, n) = SubSeq(e, 1, n)
    OBVIOUS
  <2>1. CASE n = 0
    BY <2>1, SubSeqEmpty
  <2>2. CASE n # 0
    <3>1. 1 \in 1 .. Len(e) /\ n \in 1 .. Len(e)
      BY <1>1, <2>2
    <3> QED
      BY <1>1, <3>1, SubSeqOfConcat1
  <2> QED
    BY <2>1, <2>2
<1> QED
  BY <1>2, <1>3, <1>4, <1>5 DEF r

LEMMA AppendEntrySafe ==
  ASSUME IInv, AppendEntry
  PROVE  IInv' /\ \E entry \in Rows : Shown' = Append(Shown, entry)
<1>1. FilesInv /\ MemoryInv
  BY InvParts
<1>2. PICK entry \in Rows : row = <<entry>>
  BY <1>1 DEF AppendEntry, MemoryInv, StepReady
<1>3. /\ journal.exists /\ state.known /\ state.entries = Len(journal.entries)
      /\ state.applied <= state.entries
      /\ journal.base \in Seq(Rows) /\ journal.entries \in Seq(Rows)
  BY <1>1 DEF AppendEntry, FilesInv, MemoryInv, MemoryAgrees, StepReady, Contents
<1> DEFINE new == journal.entries \o <<entry>>
<1>4. /\ new \in Seq(Rows) /\ Len(new) = Len(journal.entries) + 1
      /\ \A n \in 0 .. Len(journal.entries) :
           SubSeq(new, 1, n) = SubSeq(journal.entries, 1, n)
      /\ journal.base \o new = Append(Whole, entry)
  <2> DEFINE b == journal.base
             e == journal.entries
  <2>1. b \in Seq(Rows) /\ e \in Seq(Rows)
    BY <1>3
  <2> HIDE DEF b, e
  <2>2. /\ e \o <<entry>> \in Seq(Rows)
        /\ Len(e \o <<entry>>) = Len(e) + 1
        /\ \A n \in 0 .. Len(e) : SubSeq(e \o <<entry>>, 1, n) = SubSeq(e, 1, n)
        /\ b \o (e \o <<entry>>) = Append(b \o e, entry)
    BY <2>1, AppendKeepsPrefixes, Zenon
  <2> QED
    BY <2>2, Zenon DEF Whole, b, e
<1>5. journal' = [journal EXCEPT !.entries = new]
  BY <1>2 DEF AppendEntry
<1> HIDE DEF new
<1>6. /\ journal'.exists = journal.exists /\ journal'.base = journal.base
      /\ journal'.entries = new /\ journal'.commits = journal.commits
      /\ journal' \in [exists : BOOLEAN, base : Contents, entries : Contents,
                       commits : SUBSET [entries : Nat, report : Contents]]
  BY <1>1, <1>4, <1>5 DEF FilesInv, Contents
<1>7. Len(journal.entries) \in Nat
  BY <1>3, LenProperties
<1>8. \A c \in journal.commits : /\ c.entries \in 0 .. Len(journal.entries)
                                 /\ c.entries <= Len(new)
  <2> SUFFICES ASSUME NEW c \in journal.commits
               PROVE  /\ c.entries \in 0 .. Len(journal.entries)
                      /\ c.entries <= Len(new)
    OBVIOUS
  <2>1. c.entries \in Nat /\ c.entries <= Len(journal.entries)
    BY <1>1 DEF FilesInv
  <2> QED
    BY <1>4, <1>7, <2>1
<1>9. CommitsArePrefixes'
  <2>1. \A c \in journal.commits :
          c.report = journal.base \o SubSeq(journal.entries, 1, c.entries)
    BY <1>1 DEF FilesInv, CommitsArePrefixes
  <2>2. \A c \in journal.commits : c.report = journal.base \o SubSeq(new, 1, c.entries)
    <3> SUFFICES ASSUME NEW c \in journal.commits
                 PROVE  c.report = journal.base \o SubSeq(new, 1, c.entries)
      OBVIOUS
    <3>1. SubSeq(new, 1, c.entries) = SubSeq(journal.entries, 1, c.entries)
      BY <1>4, <1>8
    <3> QED
      BY <2>1, <3>1
  <2> QED
    BY <1>6, <2>2 DEF CommitsArePrefixes
<1>10. Recoverable'
  BY <1>1, <1>3, <1>6 DEF AppendEntry, FilesInv, Recoverable, Consistent, Matching
<1>11. FilesInv'
  BY <1>1, <1>3, <1>6, <1>8, <1>9, <1>10 DEF FilesInv, AppendEntry
<1>12. MemoryInv'
  <2>1. /\ state' = [state EXCEPT !.entries = @ + 1] /\ step' = "idle" /\ row' = <<>>
        /\ state \in [known : BOOLEAN, base : Contents, entries : Nat, applied : Nat]
    BY <1>1 DEF AppendEntry, MemoryInv
  <2>2. /\ state' \in [known : BOOLEAN, base : Contents, entries : Nat, applied : Nat]
        /\ state'.known = state.known /\ state'.applied = state.applied
        /\ state'.entries = state.entries + 1
    BY <2>1
  <2>3. <<>> \in Contents
    BY EmptySeq DEF Contents
  <2>4. state'.applied < state'.entries
    BY <1>3, <2>1, <2>2
  <2>5. MemoryAgrees'
    BY <1>3, <1>4, <1>6, <2>2, <2>4 DEF MemoryAgrees
  <2>6. AppliedAgrees'
    BY <2>2, <2>4 DEF AppliedAgrees
  <2>7. StepReady'
    BY <2>1 DEF StepReady
  <2> QED
    BY <2>1, <2>2, <2>3, <2>5, <2>6, <2>7 DEF MemoryInv
<1>13. Shown' = Append(Shown, entry)
  BY <1>3, <1>4, <1>6 DEF Shown, Whole
<1> QED
  BY <1>11, <1>12, <1>13, InvPartsNext

LEMMA CompactAppliedSafe ==
  ASSUME IInv, CompactApplied
  PROVE  IInv' /\ Shown' = Shown
<1>1. FilesInv /\ MemoryInv
  BY InvParts
<1>2. FilesInv' /\ ~journal'.exists
  BY <1>1, FilesWithoutJournal DEF CompactApplied, FilesInv
<1>3. MemoryInv'
  BY <1>1, <1>2 DEF CompactApplied, Idle, FilesInv, MemoryInv, MemoryAgrees, StepReady,
                    AppliedAgrees, Fresh
<1>4. report = Whole
  BY AppliedIsLength DEF CompactApplied, AllApplied
<1>5. Shown' = Shown
  BY <1>2, <1>4 DEF Shown, CompactApplied
<1> QED
  BY <1>2, <1>3, <1>5, InvPartsNext

LEMMA CompactReadSafe ==
  ASSUME IInv, CompactRead
  PROVE  IInv' /\ Shown' = Shown
<1>1. FilesInv /\ MemoryInv
  BY InvParts
<1>2. FilesInv' /\ Whole' = Whole /\ Shown' = Shown
  BY <1>1, FilesKept DEF CompactRead
<1>3. /\ ReadState \in [known : BOOLEAN, base : Contents, entries : Nat, applied : Nat]
      /\ ReadState.entries = Len(journal.entries)
      /\ ReadState.applied <= ReadState.entries
      /\ (ReadState.applied = ReadState.entries <=> report = Whole)
  BY ReadStateRight DEF CompactRead
<1>4. /\ state' = ReadState /\ journal' = journal /\ report' = report /\ row' = row
      /\ step' \in {"idle", "commit"} /\ journal.exists /\ state'.known
  BY DEF CompactRead, ReadState
<1>5. MemoryInv'
  BY <1>1, <1>2, <1>3, <1>4 DEF MemoryInv, MemoryAgrees, StepReady, AppliedAgrees
<1> QED
  BY <1>2, <1>5, InvPartsNext

LEMMA AppendCommitSafe ==
  ASSUME IInv, AppendCommit
  PROVE  IInv' /\ Shown' = Shown
<1>1. FilesInv /\ MemoryInv
  BY InvParts
<1> DEFINE record == [entries |-> state.entries, report |-> Replayed]
<1>2. /\ journal.exists /\ state.known /\ state.entries = Len(journal.entries)
      /\ journal.base \in Seq(Rows) /\ journal.entries \in Seq(Rows)
      /\ state.entries \in Nat
  BY <1>1 DEF AppendCommit, FilesInv, MemoryInv, MemoryAgrees, StepReady, Contents
<1>3. Replayed = Whole
  BY <1>2, AppliedIsLength
<1>4. Whole \in Contents /\ Whole = journal.base \o SubSeq(journal.entries, 1, state.entries)
  BY <1>2, WholeLength DEF Whole, Contents
<1>5. /\ record \in [entries : Nat, report : Contents]
      /\ record.entries = Len(journal.entries) /\ record.report = Whole
      /\ record.report = journal.base \o SubSeq(journal.entries, 1, record.entries)
  BY <1>2, <1>3, <1>4
<1>6. journal' = [journal EXCEPT !.commits = @ \cup {record}]
  BY DEF AppendCommit
<1> HIDE DEF record
<1>7. /\ journal'.exists = journal.exists /\ journal'.base = journal.base
      /\ journal'.entries = journal.entries /\ journal'.commits = journal.commits \cup {record}
      /\ journal' \in [exists : BOOLEAN, base : Contents, entries : Contents,
                       commits : SUBSET [entries : Nat, report : Contents]]
  BY <1>1, <1>5, <1>6 DEF FilesInv
<1>8. \A c \in journal'.commits : c.entries <= Len(journal'.entries)
  <2>1. Len(journal.entries) <= Len(journal.entries)
    BY <1>2, LenProperties
  <2> QED
    BY <1>1, <1>5, <1>7, <2>1 DEF FilesInv
<1>9. CommitsArePrefixes'
  <2>1. \A c \in journal.commits \cup {record} :
          c.report = journal.base \o SubSeq(journal.entries, 1, c.entries)
    BY <1>1, <1>5 DEF FilesInv, CommitsArePrefixes
  <2> QED
    BY <1>7, <2>1 DEF CommitsArePrefixes
<1>10. Recoverable'
  BY <1>1, <1>2, <1>7 DEF AppendCommit, FilesInv, Recoverable, Consistent, Matching
<1>11. FilesInv'
  BY <1>1, <1>2, <1>7, <1>8, <1>9, <1>10 DEF FilesInv, AppendCommit
<1>12. Whole' = Whole /\ Shown' = Shown
  BY <1>2, <1>7 DEF Whole, Shown
<1>13. MemoryInv'
  BY <1>1, <1>2, <1>5, <1>7, <1>12
     DEF AppendCommit, MemoryInv, MemoryAgrees, StepReady, AppliedAgrees
<1> QED
  BY <1>11, <1>12, <1>13, InvPartsNext

LEMMA WriteSnapshotSafe ==
  ASSUME IInv, WriteSnapshot
  PROVE  IInv' /\ Shown' = Shown
<1>1. FilesInv /\ MemoryInv
  BY InvParts
<1>2. /\ journal.exists /\ state.known /\ state.entries = Len(journal.entries)
      /\ journal.base \in Seq(Rows) /\ journal.entries \in Seq(Rows)
      /\ \E c \in journal.commits : c.report = Whole
  BY <1>1 DEF WriteSnapshot, FilesInv, MemoryInv, MemoryAgrees, StepReady, Contents
<1>3. Replayed = Whole
  BY <1>2, AppliedIsLength
<1>4. Whole \in Contents
  BY <1>2, WholeLength DEF Whole, Contents
<1>5. report' = Whole /\ journal' = journal
  BY <1>3 DEF WriteSnapshot
<1>6. FilesInv'
  BY <1>1, <1>2, <1>4, <1>5
     DEF FilesInv, CommitsArePrefixes, Recoverable, Consistent, Matching, NoJournal
<1>7. Whole' = Whole /\ Shown' = Shown
  BY <1>2, <1>5 DEF Whole, Shown
<1>8. state \in [known : BOOLEAN, base : Contents, entries : Nat, applied : Nat]
  BY <1>1 DEF MemoryInv
<1>9. /\ state' \in [known : BOOLEAN, base : Contents, entries : Nat, applied : Nat]
      /\ state'.known /\ state'.entries = state.entries /\ state'.applied <= state'.entries
  BY <1>2, <1>8 DEF WriteSnapshot
<1>10. MemoryInv'
  BY <1>1, <1>2, <1>5, <1>7, <1>9
     DEF WriteSnapshot, MemoryInv, MemoryAgrees, StepReady, AppliedAgrees
<1> QED
  BY <1>6, <1>7, <1>10, InvPartsNext

LEMMA RemoveJournalSafe ==
  ASSUME IInv, RemoveJournal
  PROVE  IInv' /\ Shown' = Shown
<1>1. FilesInv /\ MemoryInv
  BY InvParts
<1>2. FilesInv' /\ ~journal'.exists
  BY <1>1, FilesWithoutJournal DEF RemoveJournal, FilesInv
<1>3. report = Whole /\ report \in Contents
  BY <1>1 DEF RemoveJournal, FilesInv, MemoryInv, StepReady
<1>4. MemoryInv'
  BY <1>1, <1>2, <1>3 DEF RemoveJournal, MemoryInv, MemoryAgrees, StepReady,
                          AppliedAgrees, Fresh
<1>5. Shown' = Shown
  BY <1>2, <1>3 DEF Shown, RemoveJournal
<1> QED
  BY <1>2, <1>4, <1>5, InvPartsNext

LEMMA WriteFailsSafe ==
  ASSUME IInv, WriteFails
  PROVE  IInv' /\ Shown' = Shown
<1>1. FilesInv /\ MemoryInv
  BY InvParts
<1>2. FilesInv' /\ Whole' = Whole /\ Shown' = Shown
  BY <1>1, FilesKept DEF WriteFails
<1>3. <<>> \in Contents
  BY EmptySeq DEF Contents
<1>4. MemoryInv'
  BY <1>1, <1>2, <1>3 DEF WriteFails, MemoryInv, MemoryAgrees, StepReady, AppliedAgrees, Fresh
<1> QED
  BY <1>2, <1>4, InvPartsNext

LEMMA RestartSafe ==
  ASSUME IInv, Restart
  PROVE  IInv' /\ Shown' = Shown
<1>1. FilesInv /\ MemoryInv
  BY InvParts
<1>2. FilesInv' /\ Whole' = Whole /\ Shown' = Shown
  BY <1>1, FilesKept DEF Restart
<1>3. <<>> \in Contents
  BY EmptySeq DEF Contents
<1>4. MemoryInv'
  BY <1>1, <1>2, <1>3 DEF Restart, NoState, MemoryInv, MemoryAgrees, StepReady, AppliedAgrees
<1> QED
  BY <1>2, <1>4, InvPartsNext

-----------------------------------------------------------------------------
(* The theorems                                                            *)

LEMMA NextSafe ==
  ASSUME IInv, [Next]_vars
  PROVE  /\ IInv'
         /\ Shown' = Shown \/ \E entry \in Rows : Shown' = Append(Shown, entry)
<1>1. CASE Next
  BY <1>1, InitiateFreshSafe, InitiatePendingSafe, SaveSafe, WriteHeaderSafe,
     AppendEntrySafe, CompactAppliedSafe, CompactReadSafe, AppendCommitSafe,
     WriteSnapshotSafe, RemoveJournalSafe, WriteFailsSafe, RestartSafe DEF Next
<1>2. CASE UNCHANGED vars
  <2>1. FilesInv /\ MemoryInv
    BY InvParts
  <2>2. FilesInv' /\ Whole' = Whole /\ Shown' = Shown
    BY <1>2, <2>1, FilesKept DEF vars
  <2>3. MemoryInv'
    BY <1>2, <2>1, <2>2 DEF vars, MemoryInv, MemoryAgrees, StepReady, AppliedAgrees, Fresh
  <2> QED
    BY <2>2, <2>3, InvPartsNext
<1> QED
  BY <1>1, <1>2

LEMMA SpecIInv == Spec => []IInv
<1>1. Init => IInv
  BY InitIInv
<1>2. IInv /\ [Next]_vars => IInv'
  BY NextSafe
<1> QED
  BY <1>1, <1>2, PTL DEF Spec

\* TypeOK: what the processes write and count stays well formed, and no commit
\* record announces entries the journal does not have.
THEOREM TypeCorrect == Spec => []TypeOK
<1>1. IInv => TypeOK
  BY DEF IInv
<1> QED
  BY <1>1, SpecIInv, PTL

\* Recoverable: wherever a process is interrupted, the next initiate accepts
\* the report and the journal it left.
THEOREM AlwaysRecoverable == Spec => []Recoverable
<1>1. IInv => Recoverable
  BY DEF IInv
<1> QED
  BY <1>1, SpecIInv, PTL

\* NeverDisappeared: no sequence of failed saves and flushes leaves the
\* counters describing a journal that is gone.
THEOREM JournalNeverDisappears == Spec => []NeverDisappeared
<1>1. IInv => NeverDisappeared
  BY DEF IInv, MemoryAgrees, NeverDisappeared, Disappeared, Fresh
<1> QED
  BY <1>1, SpecIInv, PTL

\* FlushedMeansPublished: after a flush that succeeded, the report file alone
\* has every row saved.
THEOREM FlushPublishes == Spec => []FlushedMeansPublished
<1>1. IInv => FlushedMeansPublished
  <2> SUFFICES ASSUME IInv, Idle, state.entries = state.applied
               PROVE  report = Recovered
    BY DEF FlushedMeansPublished
  <2>1. journal.exists => report = Whole
    BY DEF Idle, IInv, AppliedAgrees
  <2> QED
    BY <2>1, RecoveredIsShown DEF Shown
<1> QED
  BY <1>1, SpecIInv, PTL

\* ImplementsLog: under the refinement mapping Recovered, every step of the
\* report appends exactly one saved row to the durable log or leaves it alone.
THEOREM ReportImplementsLog == Spec => ImplementsLog
<1>1. Init => Log!LogInit
  BY InitIInv DEF Log!LogInit
<1>2. ASSUME IInv, IInv', [Next]_vars
      PROVE  [Log!LogNext]_Recovered
  <2>1. Recovered = Shown /\ Recovered' = Shown'
    BY <1>2, RecoveredIsShown, RecoveredIsShownNext
  <2>2. Shown' = Shown \/ \E entry \in Rows : Shown' = Append(Shown, entry)
    BY <1>2, NextSafe
  <2> QED
    BY <2>1, <2>2 DEF Log!LogNext
<1> QED
  BY <1>1, <1>2, SpecIInv, PTL DEF Spec, ImplementsLog, Log!LogSpec
=============================================================================
