--------------------------- MODULE ResponseFilters ---------------------------
(***************************************************************************)
(* The filters a response passes before it counts as a finding: the        *)
(* stateless part of BaseFuzzer.is_excluded (lib/core/fuzzer.py,           *)
(* lib/core/filters.py) and the copy of it that the native engine runs     *)
(* before it hands a result to Python (native/src/filters.rs, result.rs,   *)
(* scan.rs and NativeHTTPBackend._make_scan_chunk).                        *)
(*                                                                         *)
(* A configuration is the record of the options' names; <<>> is an unset   *)
(* regular expression or redirect, {} an unset list.                       *)
(***************************************************************************)
EXTENDS HttpResponse

\* matches_numeric_ranges, matches_time_filters (lib/core/filters.py).
matches_numeric_ranges(value, ranges) == \E r \in ranges : r[1] <= value /\ value <= r[2]

matches_time_filters(elapsed, filters) ==
    \E f \in filters : \/ f[1] = ">" /\ elapsed > f[2]
                       \/ f[1] = "<" /\ elapsed < f[2]
                       \/ f[1] = "=" /\ elapsed = f[2]

\* A check that was not configured is not in the list.
Check(configured, result) == IF configured THEN {result} ELSE {}

_combine_advanced_checks(checks, mode, default) ==
    IF checks = {} THEN default
    ELSE IF mode = "and" THEN \A c \in checks : c
    ELSE \E c \in checks : c

(***************************************************************************)
(* Python.                                                                 *)
(***************************************************************************)
\* Also matches_header_regex: patterns are literals.
matches_header_text(r, patterns) ==
    \E p \in patterns : Occurs(p, response_headers_text(r.tags))

matches_advanced_matchers(c, r) ==
    _combine_advanced_checks(
        UNION {Check(c.match_status_codes # {}, r.status \in c.match_status_codes),
               Check(c.match_sizes # {}, matches_numeric_ranges(r.length, c.match_sizes)),
               Check(c.match_words # {}, matches_numeric_ranges(WordCount(Text(r)), c.match_words)),
               Check(c.match_lines # {}, matches_numeric_ranges(LineCount(Text(r)), c.match_lines)),
               Check(c.match_regex # <<>>, Occurs(c.match_regex, Text(r))),
               Check(c.match_headers # {}, matches_header_text(r, c.match_headers)),
               Check(c.match_header_regex # <<>>, matches_header_text(r, {c.match_header_regex})),
               Check(c.match_time # {}, matches_time_filters(r.elapsed, c.match_time))},
        c.matcher_mode, TRUE)

matches_advanced_filters(c, r) ==
    _combine_advanced_checks(
        UNION {Check(c.filter_status_codes # {}, r.status \in c.filter_status_codes),
               Check(c.filter_sizes # {}, matches_numeric_ranges(r.length, c.filter_sizes)),
               Check(c.filter_words # {}, matches_numeric_ranges(WordCount(Text(r)), c.filter_words)),
               Check(c.filter_lines # {}, matches_numeric_ranges(LineCount(Text(r)), c.filter_lines)),
               Check(c.filter_regex # <<>>, Occurs(c.filter_regex, Text(r))),
               Check(c.filter_headers # {}, matches_header_text(r, c.filter_headers)),
               Check(c.filter_header_regex # <<>>, matches_header_text(r, {c.filter_header_regex})),
               Check(c.filter_time # {}, matches_time_filters(r.elapsed, c.filter_time))},
        c.filter_mode, FALSE)

has_advanced_matchers(c) ==
    \/ c.match_status_codes # {} \/ c.match_sizes # {} \/ c.match_words # {}
    \/ c.match_lines # {} \/ c.match_headers # {} \/ c.match_time # {}
    \/ c.match_regex # <<>> \/ c.match_header_regex # <<>>

\* is_excluded up to is_auto_calibrated: what depends on nothing but the
\* options and the response.  A blacklist is the set of paths its suffixes end.
Excluded(c, r) ==
    \/ r.status \in c.exclude_status_codes
    \/ c.include_status_codes # {} /\ r.status \notin c.include_status_codes
    \/ <<r.status, r.path>> \in c.blacklists
    \/ r.length \in c.exclude_sizes
    \/ r.length < c.minimum_response_size
    \/ c.maximum_response_size > 0 /\ r.length > c.maximum_response_size
    \/ \E text \in c.exclude_texts : Occurs(text, r.content)
    \/ c.exclude_regex # <<>> /\ Occurs(c.exclude_regex, r.content)
    \/ c.exclude_redirect # <<>> /\ Occurs(c.exclude_redirect, r.redirect)
    \/ ~matches_advanced_matchers(c, r)
    \/ matches_advanced_filters(c, r)

(***************************************************************************)
(* Rust.  The engine's filters see the wire (headers as sent, bytes        *)
(* decoded as UTF-8 with a mark for invalid ones) and only the options     *)
(* _filter_options passes.                                                 *)
(***************************************************************************)
status_filter_reason(c, status) ==
    \/ status \in c.exclude_status_codes
    \/ c.include_status_codes # {} /\ status \notin c.include_status_codes

needs_text(c) ==
    \/ {} # UNION {c.match_words, c.filter_words, c.match_lines, c.filter_lines}
    \/ c.match_regex # <<>>
    \/ c.filter_regex # <<>>

has_non_utf8_charset(w) == w.charset \in {"latin", "unknown"}

native_matches_advanced_matchers(c, w, text, length) ==
    _combine_advanced_checks(
        UNION {Check(c.match_status_codes # {}, w.status \in c.match_status_codes),
               Check(c.match_sizes # {}, matches_numeric_ranges(length, c.match_sizes)),
               Check(c.match_words # {}, matches_numeric_ranges(native_word_count(text), c.match_words)),
               Check(c.match_lines # {}, matches_numeric_ranges(LineCount(text), c.match_lines)),
               Check(c.match_regex # <<>>, Occurs(c.match_regex, text)),
               Check(c.match_headers # {},
                     \E p \in c.match_headers : Occurs(p, native_headers_to_text(w.tags))),
               Check(c.match_header_regex # <<>>,
                     Occurs(c.match_header_regex, native_headers_to_text(w.tags))),
               Check(c.match_time # {}, matches_time_filters(w.elapsed, c.match_time))},
        c.matcher_mode, TRUE)

native_matches_advanced_filters(c, w, text, length) ==
    _combine_advanced_checks(
        UNION {Check(c.filter_status_codes # {}, w.status \in c.filter_status_codes),
               Check(c.filter_sizes # {}, matches_numeric_ranges(length, c.filter_sizes)),
               Check(c.filter_words # {}, matches_numeric_ranges(native_word_count(text), c.filter_words)),
               Check(c.filter_lines # {}, matches_numeric_ranges(LineCount(text), c.filter_lines)),
               Check(c.filter_regex # <<>>, Occurs(c.filter_regex, text)),
               Check(c.filter_headers # {},
                     \E p \in c.filter_headers : Occurs(p, native_headers_to_text(w.tags))),
               Check(c.filter_header_regex # <<>>,
                     Occurs(c.filter_header_regex, native_headers_to_text(w.tags))),
               Check(c.filter_time # {}, matches_time_filters(w.elapsed, c.filter_time))},
        c.filter_mode, FALSE)

\* Text filters run on a body with another charset.
filter_reason_any_charset(c, w, path) ==
    LET raw == read_decoded_body(Rendered(w.body, path))
        length == native_response_length(w, raw.length)
        text == Decode(raw.body, "utf8", "replace")
    IN  IF \/ status_filter_reason(c, w.status)
           \/ length < c.minimum_response_size
           \/ c.maximum_response_size > 0 /\ length > c.maximum_response_size
        THEN "filtered"
        ELSE IF w.hostile /\ {c.match_regex, c.match_header_regex} # {<<>>} THEN "error"
        ELSE IF ~native_matches_advanced_matchers(c, w, text, length) THEN "filtered"
        ELSE IF w.hostile /\ {c.filter_regex, c.filter_header_regex} # {<<>>} THEN "error"
        ELSE IF native_matches_advanced_filters(c, w, text, length) THEN "filtered"
        ELSE "none"

\* filter_reason: "filtered", "none", or "error" when a regular expression runs
\* into the backtracking limit.  Responses whose text Python must decode are
\* left to Python.
filter_reason(c, w, path) ==
    LET raw == read_decoded_body(Rendered(w.body, path))
        length == native_response_length(w, raw.length)
        text == Decode(raw.body, "utf8", "replace")
    IN  IF \/ status_filter_reason(c, w.status)
           \/ length < c.minimum_response_size
           \/ c.maximum_response_size > 0 /\ length > c.maximum_response_size
        THEN "filtered"
        ELSE IF needs_text(c) /\ has_non_utf8_charset(w) THEN "none"
        ELSE IF w.hostile /\ {c.match_regex, c.match_header_regex} # {<<>>} THEN "error"
        ELSE IF ~native_matches_advanced_matchers(c, w, text, length) THEN "filtered"
        ELSE IF w.hostile /\ {c.filter_regex, c.filter_header_regex} # {<<>>} THEN "error"
        ELSE IF native_matches_advanced_filters(c, w, text, length) THEN "filtered"
        ELSE "none"

\* scan.rs and _make_scan_chunk: a filtered result is a gap between events; a
\* 407 of a proxy is reported as an error even when the filters exclude it.
NativeVerdict(c, w, path) ==
    LET reason == filter_reason(c, w, path)
    IN  IF reason = "error" THEN "error"
        ELSE IF w.status = 407 /\ c.proxies THEN "error"
        ELSE IF reason = "filtered" THEN "dropped"
        ELSE "event"

(***************************************************************************)
(* Where the two header texts or the two decodings differ the native       *)
(* filter may decide otherwise than Python: a header sent twice, a binary  *)
(* body with invalid bytes, which Python's text leaves out, and separator  *)
(* bytes, which end a word for Python only.                                *)
(***************************************************************************)
ReadsDiffer(w, path) ==
    \/ Len(w.tags) > 1
    \/ LET r == NativeResponse(w, path)
       IN  \E i \in DOMAIN r.body : \/ r.content = <<>> /\ r.body[i] = "hi"
                                    \/ r.body[i] = "fs"
=============================================================================
