------------------------- MODULE MCResponsePipeline -------------------------
(***************************************************************************)
(* Scenarios for ResponsePipeline: options against the answers that tell   *)
(* them apart, and servers whose answers to random names are hard to       *)
(* profile.                                                                *)
(***************************************************************************)
EXTENDS ResponsePipeline

NoOptions ==
    [include_status_codes |-> {}, exclude_status_codes |-> {}, blacklists |-> {},
     exclude_sizes |-> {}, minimum_response_size |-> 0, maximum_response_size |-> 0,
     exclude_texts |-> {}, exclude_regex |-> <<>>, exclude_redirect |-> <<>>,
     match_status_codes |-> {}, match_sizes |-> {}, match_words |-> {}, match_lines |-> {},
     match_regex |-> <<>>, match_headers |-> {}, match_header_regex |-> <<>>, match_time |-> {},
     matcher_mode |-> "or",
     filter_status_codes |-> {}, filter_sizes |-> {}, filter_words |-> {}, filter_lines |-> {},
     filter_regex |-> <<>>, filter_headers |-> {}, filter_header_regex |-> <<>>, filter_time |-> {},
     filter_mode |-> "or",
     auto_calibration |-> FALSE, filter_threshold |-> 0, proxies |-> FALSE, store |-> FALSE]

Page == [status |-> 200, media |-> "text", charset |-> "none", location |-> <<>>, tags |-> <<>>,
         clen |-> NoLength, encoded |-> FALSE, elapsed |-> 5, hostile |-> FALSE,
         body |-> <<"a", " ", "b">>]
Missing == [Page EXCEPT !.status = 404, !.body = <<"b">>]

\* Answers that the filters tell apart, and the ones they read differently.
Answers1 == {Page,
             [Page EXCEPT !.body = <<"a", "\n", "a", "b">>, !.tags = <<"u">>],
             [Page EXCEPT !.tags = <<"u", "v">>, !.elapsed = 9],
             [Page EXCEPT !.body = <<"hi", " ", "a">>, !.charset = "latin"],
             [Page EXCEPT !.body = <<"nul", " ", "hi">>, !.media = "other", !.clen = 3],
             [Page EXCEPT !.body = <<"a", "hi">>, !.hostile = TRUE],
             [Page EXCEPT !.body = <<"a", "fs", "a">>, !.charset = "utf8"],
             [Page EXCEPT !.body = <<>>, !.status = 407]}

FilterOptions ==
    {[NoOptions EXCEPT !.include_status_codes = {200}, !.proxies = TRUE],
     [NoOptions EXCEPT !.exclude_status_codes = {200, 407}, !.match_regex = <<"a">>],
     [NoOptions EXCEPT !.minimum_response_size = 3, !.maximum_response_size = 3],
     [NoOptions EXCEPT !.match_words = {<<2, 2>>}, !.match_status_codes = {407}],
     [NoOptions EXCEPT !.match_sizes = {<<0, 3>>}, !.match_lines = {<<2, 9>>}, !.matcher_mode = "and"],
     [NoOptions EXCEPT !.match_regex = <<"a", "b">>, !.filter_status_codes = {407}],
     [NoOptions EXCEPT !.filter_words = {<<2, 2>>}, !.filter_sizes = {<<0, 3>>}, !.filter_mode = "and"],
     [NoOptions EXCEPT !.filter_lines = {<<2, 2>>}, !.blacklists = {<<200, "f2">>}],
     [NoOptions EXCEPT !.filter_regex = <<"a">>, !.exclude_sizes = {3}],
     [NoOptions EXCEPT !.filter_headers = {<<"v">>}, !.match_time = {<<">", 7>>}],
     [NoOptions EXCEPT !.match_headers = {<<"x:", "u">>}, !.filter_time = {<<"=", 9>>}],
     [NoOptions EXCEPT !.match_regex = <<"e">>],
     [NoOptions EXCEPT !.exclude_texts = {<<"b">>}],
     [NoOptions EXCEPT !.exclude_regex = <<"b">>, !.match_header_regex = <<"u">>],
     [NoOptions EXCEPT !.filter_header_regex = <<"x:", "v">>]}

\* Answers that repeat: with the path, with volatile values, with a redirect.
Answers2 == {[Page EXCEPT !.body = <<"a", "p">>],
             [Missing EXCEPT !.body = <<"b", "d1">>],
             [Missing EXCEPT !.body = <<"b", "d2">>],
             [Page EXCEPT !.status = 301, !.location = <<"a", "p">>]}

CountOptions ==
    {NoOptions,
     [NoOptions EXCEPT !.auto_calibration = TRUE],
     [NoOptions EXCEPT !.filter_threshold = 1, !.exclude_redirect = <<"b">>],
     [NoOptions EXCEPT !.filter_threshold = 2, !.auto_calibration = TRUE]}

\* Binary answers longer than what is kept, of which only the end differs, and
\* with or without a length that can be trusted.
Binary == {[Page EXCEPT !.media = "other", !.body = <<"nul", "a", "a", "a", e>>, !.clen = l] : e \in {"a", "b"}, l \in {NoLength, 5}}
          \cup {[Page EXCEPT !.media = "other", !.body = <<"nul", "a", "a">>, !.clen = 3],
                [Page EXCEPT !.media = "other", !.body = <<"nul", "a", "b">>, !.clen = 3],
                [Page EXCEPT !.media = "other", !.body = <<"nul", "a", "a", "a">>, !.clen = 4,
                             !.encoded = TRUE]}

\* Soft 404 pages: static, volatile, longer than the first, reordered, and
\* with the path in them.
Soft == {[Page EXCEPT !.body = b] : b \in {<<"a", " ", "b">>, <<"a", " ", "d1">>, <<"a", " ", "d2">>,
                                          <<"b", " ", "a", " ", "a">>, <<"a", " ", "p">>}}

\* Redirects of which one may be the start of the other, and one that goes on
\* after the path.
Redirects == {[Missing EXCEPT !.status = 301, !.location = l] :
                l \in {<<"a">>, <<"a", "p">>, <<"p", "b">>, <<"a", "b">>, <<"a", "a", "b">>, <<"b", "b">>}}

ThreadSymmetry == Permutations(Threads)

Scenario(o, e, c, s, a, n) ==
    [options |-> o, engine |-> e, contexts |-> c, samples |-> s, answers |-> a, paths |-> n]
One == <<"default">>
Both == <<"default", "suffix">>

MCScenarios ==
    {Scenario(o, e, One, {Missing}, Answers1, 2) : o \in FilterOptions, e \in {"threads", "native"}}
    \cup {Scenario(o, e, One, {[Page EXCEPT !.status = 500]}, Answers2, 4) :
             o \in CountOptions, e \in {"threads", "async"}}
    \cup {Scenario(o, e, Both, Binary, Binary, 1) :
             o \in {NoOptions, [NoOptions EXCEPT !.store = TRUE]}, e \in {"threads", "native"}}
    \cup {Scenario(o, "async", One, s, {Missing, [Page EXCEPT !.body = <<"p">>]}, 1) :
             o \in {NoOptions, [NoOptions EXCEPT !.auto_calibration = TRUE]}, s \in {Soft, Redirects}}
    \cup {Scenario(NoOptions, "threads", Both, Redirects, {Page}, 2)}
=============================================================================
