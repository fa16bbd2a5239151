-------------------------- MODULE ResponsePipeline --------------------------
(***************************************************************************)
(* From the answers of a server to the findings of a scan: the fuzzer      *)
(* first builds its wildcard profiles (setup_scanners), then its threads   *)
(* receive answers and pass each through the filters, the calibration of   *)
(* repeated responses, the profiles and --filter-threshold                 *)
(* (BaseFuzzer.response_callbacks).  With the native engine one thread     *)
(* receives them, and the Rust filters have already dropped some.          *)
(*                                                                         *)
(* The counters of repeated responses are shared by the threads and read   *)
(* and written under _filter_state_lock, twice for each response; every    *)
(* other decision depends on nothing that changes during the scan, so a    *)
(* response takes two steps: is_excluded and the rest.                     *)
(***************************************************************************)
EXTENDS WildcardScanner

CONSTANTS
    Threads,             \* the fuzzer's threads
    Scenarios,           \* options, engine, wordlist and behaviour of the server
    ForcedThreshold,     \* AUTO_CALIBRATION_FORCED_THRESHOLD (3)
    DuplicateThreshold,  \* AUTO_CALIBRATION_DUPLICATE_THRESHOLD (8)
    MinContentLength     \* AUTO_CALIBRATION_MIN_CONTENT_LENGTH (32)

ASSUME PipelineAssumption ==
    /\ ForcedThreshold \in Nat \ {0}
    /\ DuplicateThreshold \in Nat \ {0}
    /\ MinContentLength \in Nat

\* A client reads no further than the declared length of a body, which may be
\* missing, or longer than what arrives.
ASSUME ScenarioAssumption ==
    \A s \in Scenarios :
        /\ s.options.filter_threshold \in Nat
        /\ s.options.store \in BOOLEAN
        /\ \A w \in s.samples \cup s.answers :
              /\ w.body \in Seq(STRING)
              /\ w.tags \in Seq(STRING)
              /\ w.encoded \in BOOLEAN
              /\ w.encoded \/ w.clen = NoLength \/ (w.clen \in Nat /\ w.clen >= Len(w.body))

VARIABLES
    scenario,    \* [options, engine, contexts, samples, answers, paths], fixed
    scanners,    \* the profiles built so far, in the order of Contexts
    sampled,     \* the answers of the profile under construction
    parser,      \* its DynamicContentParser, once there are two
    asked,       \* the paths of the wordlist requested so far
    held,        \* what each thread is working on
    _similar_fingerprints, _auto_calibrated_fingerprints, _filter_fingerprints,
    dropped,     \* what the native filters hid from Python
    found        \* what the match callbacks received

pipelineVars == <<scenario, scanners, sampled, parser, asked, held, _similar_fingerprints,
          _auto_calibrated_fingerprints, _filter_fingerprints, dropped, found>>

setupVars == <<scanners, sampled, parser>>
stateVars == <<_similar_fingerprints, _auto_calibrated_fingerprints, _filter_fingerprints>>

\* The profiles: of random names, and of random names with a suffix.
Contexts == scenario.contexts
SampleNames == [default |-> <<"r1", "r2", "r3", "r4">>, suffix |-> <<"q1", "q2", "q3", "q4">>]

\* The wordlist; every second path ends with the suffix.
Paths == SubSeq(<<"f1", "f2", "f3", "f4">>, 1, scenario.paths)
EndsWithSuffix == {"f2", "f4"}

options == scenario.options
Count(counts, key) == IF key \in DOMAIN counts THEN counts[key] ELSE 0
Counted(counts, key) == [k \in DOMAIN counts \cup {key} |-> Count(counts, k) + (IF k = key THEN 1 ELSE 0)]

Nothing == [step |-> "idle"]
Busy(t) == held[t].step # "idle"

\* The response object of an answer, by the requester in use.
Received(w, path) ==
    IF scenario.engine = "native" THEN NativeResponse(w, path)
    ELSE Response(w, path, options.store, scenario.engine = "threads")

PipelineInit ==
    /\ scenario \in Scenarios
    /\ scanners = <<>>
    /\ sampled = <<>>
    /\ parser = [contents |-> <<>>, common |-> <<>>]
    /\ asked = 0
    /\ held = [t \in Threads |-> Nothing]
    /\ _similar_fingerprints = <<>>
    /\ _auto_calibrated_fingerprints = {}
    /\ _filter_fingerprints = <<>>
    /\ dropped = {}
    /\ found = {}

(***************************************************************************)
(* setup_scanners: Scanner.setup for every context.                        *)
(***************************************************************************)
Ready == Len(scanners) = Len(Contexts)
Context == Contexts[Len(scanners) + 1]
SamplePath == SampleNames[Context][Len(sampled) + 1]

\* A profile is complete.
Add(profile) ==
    /\ scanners' = Append(scanners, profile)
    /\ sampled' = <<>>
    /\ parser' = [contents |-> <<>>, common |-> <<>>]

\* sample is the first answer, redirect what the second one's Location was.
Profile(sample, regex, redirect, p) ==
    [w |-> sample.w, response |-> sample.r, regex |-> regex, redirect |-> redirect, parser |-> p]

\* get_duplicate: the testers of the other contexts; the first has none.
Duplicates(r) == {i \in DOMAIN scanners : SameResponse(r, scanners[i].response)}

FirstSample ==
    /\ ~Ready
    /\ sampled = <<>>
    /\ \E w \in scenario.samples :
          LET r == Received(w, SamplePath)
          IN  IF Duplicates(r) = {}
              THEN sampled' = <<[w |-> w, r |-> r]>> /\ UNCHANGED <<scanners, parser>>
              ELSE \E i \in Duplicates(r) :
                      Add(Profile([w |-> w, r |-> r], scanners[i].regex, scanners[i].redirect,
                                  scanners[i].parser))
    /\ UNCHANGED <<scenario, asked, held, stateVars, dropped, found>>

Regex == generate_redirect_regex(sampled[1].r, sampled[2].r)

should_auto_calibrate(p, ratio) == options.auto_calibration \/ is_ambiguous(p, ratio)

SecondSample ==
    /\ Len(sampled) = 1
    /\ \E w \in scenario.samples :
          LET r == Received(w, SamplePath)
              first == sampled[1].r
              words == normalize_dynamic_content(r.content)
          IN  \E common \in StaticPatterns(normalize_dynamic_content(first.content), words),
                 ratio \in Ratios(normalize_dynamic_content(first.content), words) :
                LET p == [contents |-> <<first.content, r.content>>, common |-> common]
                IN  IF should_auto_calibrate(p, ratio)
                    THEN /\ sampled' = Append(sampled, [w |-> w, r |-> r])
                         /\ parser' = p
                         /\ UNCHANGED scanners
                    ELSE Add(Profile(sampled[1], generate_redirect_regex(first, r),
                                     MarkedAtSetup(r), p))
    /\ UNCHANGED <<scenario, asked, held, stateVars, dropped, found>>

\* auto_calibrate: two more samples; one without text is only counted.
ExtraSample ==
    /\ Len(sampled) \in {2, 3}
    /\ \E w \in scenario.samples :
          LET r == Received(w, SamplePath)
              p == IF r.content # <<>> THEN add_sample(parser, r.content) ELSE parser
          IN  IF Len(sampled) = 2
              THEN sampled' = Append(sampled, [w |-> w, r |-> r]) /\ parser' = p /\ UNCHANGED scanners
              ELSE Add(Profile(sampled[1], Regex, MarkedAtSetup(sampled[2].r), p))
    /\ UNCHANGED <<scenario, asked, held, stateVars, dropped, found>>

(***************************************************************************)
(* The scan: a thread takes the next path and gets an answer.  The native  *)
(* engine hands over results it did not filter, or an error.               *)
(***************************************************************************)
Receive(t) ==
    /\ Ready
    /\ ~Busy(t)
    /\ asked < Len(Paths)
    /\ scenario.engine = "native" => \A u \in Threads : ~Busy(u)
    /\ asked' = asked + 1
    /\ \E w \in scenario.answers :
          LET path == Paths[asked + 1]
              verdict == IF scenario.engine = "native" THEN NativeVerdict(options, w, path)
                         ELSE "event"
          IN  /\ dropped' = IF verdict = "dropped" THEN dropped \cup {[w |-> w, path |-> path]}
                            ELSE dropped
              /\ held' = IF verdict = "event"
                         THEN [held EXCEPT ![t] = [step |-> "exclude", w |-> w,
                                                   r |-> Received(w, path)]]
                         ELSE held
    /\ UNCHANGED <<scenario, setupVars, stateVars, found>>

(***************************************************************************)
(* is_excluded.                                                            *)
(***************************************************************************)
response_fingerprint(r) ==
    <<r.status, r.media, ReplacePath(r.redirect, r.path, "__PATH__"),
      LET words == normalize_dynamic_content(Text(r))
      IN  [i \in DOMAIN words |-> ReplacePath(words[i], r.path, "__PATH__")]>>

should_record_auto_calibration(c, r) ==
    /\ ~has_advanced_matchers(c)
    /\ r.length >= MinContentLength
    /\ \/ c.auto_calibration
       \/ r.status \in 400..599
       \/ Occurs(<<r.path>>, Text(r))
       \/ r.redirect # <<>>

CalibrationThreshold ==
    IF options.auto_calibration THEN ForcedThreshold ELSE DuplicateThreshold

\* The response that reaches the threshold is still reported.
CalibratedAt_late(fp) == Count(_similar_fingerprints, fp) >= CalibrationThreshold

\* is_auto_calibrated, for a recordable response with a new fingerprint.
CalibratedAt(fp) == Count(_similar_fingerprints, fp) + 1 >= CalibrationThreshold

Drop(t) == held' = [held EXCEPT ![t] = Nothing]
Keep(t) == held' = [held EXCEPT ![t].step = "decide"]

\* The common filters exclude the response; the counters do not see it.
ExcludeByFilter(t) ==
    /\ held[t].step = "exclude"
    /\ Excluded(options, held[t].r)
    /\ Drop(t)
    /\ UNCHANGED <<scenario, setupVars, asked, stateVars, dropped, found>>

is_auto_calibrated(t) ==
    LET r == held[t].r
        fp == response_fingerprint(r)
    IN  /\ held[t].step = "exclude"
        /\ ~Excluded(options, r)
        /\ \/ /\ fp \in _auto_calibrated_fingerprints
              /\ Drop(t)
              /\ UNCHANGED <<_similar_fingerprints, _auto_calibrated_fingerprints>>
           \/ /\ fp \notin _auto_calibrated_fingerprints
              /\ ~should_record_auto_calibration(options, r)
              /\ Keep(t)
              /\ UNCHANGED <<_similar_fingerprints, _auto_calibrated_fingerprints>>
           \/ /\ fp \notin _auto_calibrated_fingerprints
              /\ should_record_auto_calibration(options, r)
              /\ _similar_fingerprints' = Counted(_similar_fingerprints, fp)
              /\ IF CalibratedAt(fp)
                 THEN Drop(t) /\ _auto_calibrated_fingerprints' = _auto_calibrated_fingerprints \cup {fp}
                 ELSE Keep(t) /\ UNCHANGED _auto_calibrated_fingerprints
        /\ UNCHANGED <<scenario, setupVars, asked, _filter_fingerprints, dropped, found>>

(***************************************************************************)
(* The profiles, --filter-threshold and the callbacks.                     *)
(***************************************************************************)
get_scanners_for(path) == {i \in DOMAIN scanners : Contexts[i] = "suffix" => path \in EndsWithSuffix}

\* Some scanner of the path takes the response for a wildcard: ratios are
\* difflib's.
Wildcard(r, ratio) ==
    \E i \in get_scanners_for(r.path) :
        classify(scanners[i], r,
                 IF normalize_dynamic_content(Text(r))
                        = normalize_dynamic_content(scanners[i].parser.contents[1])
                 THEN 100 ELSE ratio, ratio) = "wildcard"

is_filter_threshold_reached(r) ==
    /\ options.filter_threshold > 0
    /\ Count(_filter_fingerprints, filter_fingerprint(r)) >= options.filter_threshold

NotFound(t) ==
    /\ held[t].step = "decide"
    /\ \/ \E ratio \in Similarities : Wildcard(held[t].r, ratio)
       \/ is_filter_threshold_reached(held[t].r)
    /\ Drop(t)
    /\ UNCHANGED <<scenario, setupVars, asked, stateVars, dropped, found>>

Match(t) ==
    LET r == held[t].r
    IN  /\ held[t].step = "decide"
        /\ \E ratio \in Similarities : ~Wildcard(r, ratio)
        /\ ~is_filter_threshold_reached(r)
        /\ _filter_fingerprints' = IF options.filter_threshold > 0
                                   THEN Counted(_filter_fingerprints, filter_fingerprint(r))
                                   ELSE _filter_fingerprints
        /\ found' = found \cup {r}
        /\ Drop(t)
        /\ UNCHANGED <<scenario, setupVars, asked, _similar_fingerprints,
                       _auto_calibrated_fingerprints, dropped>>

\* Every path is answered and every response settled.
Finished ==
    /\ Ready
    /\ asked = Len(Paths)
    /\ \A t \in Threads : ~Busy(t)
    /\ UNCHANGED pipelineVars

PipelineNext ==
    \/ FirstSample \/ SecondSample \/ ExtraSample
    \/ \E t \in Threads : \/ Receive(t) \/ ExcludeByFilter(t) \/ is_auto_calibrated(t)
                          \/ NotFound(t) \/ Match(t)
    \/ Finished

PipelineSpec == PipelineInit /\ [][PipelineNext]_pipelineVars

(***************************************************************************)
(* Properties.                                                             *)
(***************************************************************************)
\* What the Rust filters drop, the Python filters would have excluded: the
\* copy of the filters in native/src/filters.rs never hides a response that the
\* other engines report, except where the two sides read it differently
\* (ReadsDiffer: a header sent twice, invalid bytes in a binary body, a
\* separator byte).
NativeFilterSound ==
    \A d \in dropped : \/ ReadsDiffer(d.w, d.path)
                       \/ Excluded(options, NativeResponse(d.w, d.path))

\* However the threads interleave between the two critical sections, no
\* fingerprint is reported more often than --filter-threshold allows, and a
\* recordable one is reported less often than the calibration threshold.
MatchesBounded ==
    \A r \in found :
        /\ options.filter_threshold > 0 =>
              Cardinality({s \in found : filter_fingerprint(s) = filter_fingerprint(r)})
                 <= options.filter_threshold
        /\ Cardinality({s \in found : /\ response_fingerprint(s) = response_fingerprint(r)
                                      /\ should_record_auto_calibration(options, s)})
              < CalibrationThreshold

Answers ==
    {sampled[i] : i \in DOMAIN sampled}
    \cup {[w |-> scanners[i].w, r |-> scanners[i].response] : i \in DOMAIN scanners}
    \cup {[w |-> held[t].w, r |-> held[t].r] : t \in {t \in Threads : Busy(t)}}

\* Two responses count as having the same body (which makes a scanner reuse
\* another one's profile, and a binary answer a wildcard) only when the server
\* sent the same body: a truncated or partly kept body is never compared as if
\* it were whole.
SameBodySound ==
    \A a, b \in Answers :
        has_same_body(a.r, b.r) => Rendered(a.w.body, a.r.path) = Rendered(b.w.body, b.r.path)

\* The two redirects of a profile are equal, or neither is the start of the
\* other and what they share at both ends does not overlap in the shorter one.
RegexExact(p) ==
    LET s == MarkedAtSetup(p.response)
    IN  \/ ~p.regex.set
        \/ s = p.redirect
        \/ /\ p.regex.wild
           /\ Len(p.regex.prefix) + Len(p.regex.suffix) <= Len(s)

\* Setup and classify mark the profile's first redirect alike: the path it
\* reflects, if any, is not followed by a word character.
MarkedAlike(p) == MarkedAtSetup(p.response) = MarkedByClassify(p.response)

\* A profile recognises the answer it was built from: whatever the other
\* samples were, whichever texts difflib finds alike and whichever profile was
\* reused, the first sample is a wildcard for it - unless its redirect and the
\* second one's are such that generate_matching_regex misses one of the two it
\* was given (RegexExact), or classify marks its redirect otherwise than the
\* setup that made the pattern did (MarkedAlike).
ProfileMatchesItself ==
    \A i \in DOMAIN scanners : \A ratio \in Similarities :
        RegexExact(scanners[i]) /\ MarkedAlike(scanners[i]) =>
            classify(scanners[i], scanners[i].response, 100, ratio) = "wildcard"
=============================================================================
