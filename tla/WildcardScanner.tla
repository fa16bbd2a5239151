--------------------------- MODULE WildcardScanner ---------------------------
(***************************************************************************)
(* The wildcard profile of one kind of path, built from the answers to     *)
(* random names (lib/core/scanner.py), and DynamicContentParser and the    *)
(* redirect pattern it is made of (lib/utils/diff.py).                     *)
(*                                                                         *)
(* difflib is external: which words of two texts it pairs is some common   *)
(* subsequence of them, and a ratio of similarity is one of Similarities,  *)
(* in percent, except that equal texts have the ratio 100.                 *)
(***************************************************************************)
EXTENDS ResponseFilters

CONSTANTS
    ReliablePatterns,   \* 20: static patterns that are proof enough
    AmbiguousPatterns,  \* 8: with fewer, the profile is ambiguous
    AmbiguousMaxLength, \* AMBIGUOUS_SIMILARITY_MAX_CONTENT_LENGTH: longer texts are not compared
    Similarities        \* the ratios, in percent, difflib may find

ASSUME ScannerAssumption ==
    /\ ReliablePatterns \in Nat \ {0}
    /\ AmbiguousPatterns \in Nat
    /\ AmbiguousMaxLength \in Nat
    /\ Similarities \subseteq 0..99

Ratios(words1, words2) == IF words1 = words2 THEN {100} ELSE Similarities

(***************************************************************************)
(* DynamicContentParser.                                                   *)
(***************************************************************************)
Kept(s, S) == SelectSeq([i \in DOMAIN s |-> <<i, s[i]>>], LAMBDA e : e[1] \in S)
SubSequences(s) == {LET k == Kept(s, S) IN [i \in DOMAIN k |-> k[i][2]] : S \in SUBSET DOMAIN s}

\* get_static_patterns of Differ.compare.
StaticPatterns(words1, words2) ==
    IF words1 = words2 THEN {words1}
    ELSE SubSequences(words1) \cap SubSequences(words2)

IsStatic(parser) == \A i \in DOMAIN parser.contents : parser.contents[i] = parser.contents[1]

\* _recalculate: the patterns of the first two samples that later ones have too.
Patterns(parser) ==
    IF IsStatic(parser) THEN <<>>
    ELSE SelectSeq(parser.common, LAMBDA word :
             \A i \in 3..Len(parser.contents) :
                \E j \in DOMAIN normalize_dynamic_content(parser.contents[i]) :
                    normalize_dynamic_content(parser.contents[i])[j] = word)

add_sample(parser, content) == [parser EXCEPT !.contents = Append(@, content)]

is_ambiguous(parser, ratio) ==
    /\ ~IsStatic(parser)
    /\ Len(Patterns(parser)) < AmbiguousPatterns \/ ratio < 55

\* splitted_content.index(pattern, i + 1), 0 when there is none.
IndexAfter(words, pattern, i) ==
    LET found == {j \in (i + 1)..Len(words) : words[j] = pattern}
    IN  IF found = {} THEN 0 ELSE CHOOSE j \in found : \A k \in found : j <= k

Misses(patterns, words) ==
    FoldLeft(LAMBDA at, p : LET j == IndexAfter(words, p, at.i)
                            IN  IF j = 0 THEN [at EXCEPT !.misses = @ + 1] ELSE [at EXCEPT !.i = j],
             [i |-> 0, misses |-> 0], patterns).misses

compare_to(parser, content, normalized, ratio) ==
    IF IsStatic(parser)
    THEN content = parser.contents[1] \/ normalized = normalize_dynamic_content(parser.contents[1])
    ELSE LET patterns == Patterns(parser)
             reliable == Len(patterns) >= ReliablePatterns
         IN  /\ Misses(patterns, normalized) <= (IF reliable THEN 1 ELSE 0)
             /\ WordCount(content) > WordCount(parser.contents[1]) /\ ~reliable => ratio > 75

(***************************************************************************)
(* Redirects: the reflected path becomes a mark, and the pattern is what   *)
(* two redirects share at their start and at their end.  The two places    *)
(* that mark a redirect do not agree: setup replaces the path wherever it  *)
(* stands, classify leaves it when a word character follows.               *)
(***************************************************************************)
NoPattern == [prefix |-> <<>>, wild |-> FALSE, suffix |-> <<>>, set |-> FALSE]

generate_matching_regex(s, t) ==
    LET short == IF Len(s) < Len(t) THEN Len(s) ELSE Len(t)
        differ == {i \in 1..short : s[i] # t[i]}
        tails == {i \in 0..short : SubSeq(s, Len(s) - i + 1, Len(s)) = SubSeq(t, Len(t) - i + 1, Len(t))}
    IN  IF differ = {}
        THEN [prefix |-> SubSeq(s, 1, short), wild |-> FALSE, suffix |-> <<>>, set |-> TRUE]
        ELSE [prefix |-> SubSeq(s, 1, (CHOOSE i \in differ : \A j \in differ : i <= j) - 1),
              wild |-> TRUE,
              suffix |-> SubSeq(s, Len(s) - (CHOOSE i \in tails : \A j \in tails : j <= i) + 1, Len(s)),
              set |-> TRUE]

RedirectMatches(regex, s) ==
    IF regex.wild
    THEN /\ Len(s) >= Len(regex.prefix) + Len(regex.suffix)
         /\ IsPrefix(regex.prefix, s)
         /\ IsSuffix(regex.suffix, s)
    ELSE s = regex.prefix

MarkedAtSetup(r) == ReplacePath(r.redirect, r.path, "__PATH__")

MarkedByClassify(r) == replace_path(r.redirect, r.path, "__PATH__")

generate_redirect_regex(r1, r2) ==
    IF r1.redirect # <<>> /\ r2.redirect # <<>>
    THEN generate_matching_regex(MarkedAtSetup(r1), MarkedAtSetup(r2))
    ELSE NoPattern

(***************************************************************************)
(* The profile and its verdict.                                            *)
(***************************************************************************)
\* A binary answer is never a wildcard.
is_wildcard_text_only(profile, r, ratio) ==
    /\ profile.response.content # <<>> \/ r.content # <<>>
    /\ compare_to(profile.parser, r.content, normalize_dynamic_content(Text(r)), ratio)

is_wildcard(profile, r, ratio) ==
    IF profile.response.content = <<>> /\ r.content = <<>>
    THEN r = profile.response \/ has_same_body(profile.response, r)
    ELSE compare_to(profile.parser, r.content, normalize_dynamic_content(Text(r)), ratio)

is_probable_wildcard(profile, r, ratio, lastRatio) ==
    LET base == profile.response
        words == normalize_dynamic_content(Text(r))
    IN  /\ base.content # <<>> /\ r.content # <<>>
        /\ base.media = r.media
        /\ base.redirect # <<>> => r.redirect # <<>>
        /\ Len(Patterns(profile.parser)) < ReliablePatterns
        /\ Len(base.content) <= AmbiguousMaxLength /\ Len(r.content) <= AmbiguousMaxLength
        /\ ratio >= 90
        /\ LET delta == IF base.length > r.length THEN base.length - r.length
                        ELSE r.length - base.length
           IN  delta * 100 <= 35 * (IF base.length > 1 THEN base.length ELSE 1)
        /\ \/ \E i \in DOMAIN words : Occurs(<<r.path>>, words[i])
           \/ is_ambiguous(profile.parser, lastRatio)

\* classify: "unique" or "wildcard".
classify(profile, r, ratio, lastRatio) ==
    IF profile.response.status # r.status THEN "unique"
    ELSE IF /\ profile.regex.set
            /\ r.redirect # <<>>
            /\ ~RedirectMatches(profile.regex, MarkedByClassify(r))
    THEN "unique"
    ELSE IF is_wildcard(profile, r, ratio) \/ is_probable_wildcard(profile, r, ratio, lastRatio)
    THEN "wildcard"
    ELSE "unique"
=============================================================================
