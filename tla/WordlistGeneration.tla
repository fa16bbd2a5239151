-------------------------- MODULE WordlistGeneration --------------------------
(***************************************************************************)
(* From wordlist files to the paths of a scan: PythonWordlistBackend and   *)
(* NativeWordlistBackend (lib/core/wordlist_backend.py), the templates     *)
(* (lib/core/wordlist_template.py) and the Rust generator                  *)
(* (native/src/wordlist.rs).                                               *)
(*                                                                         *)
(* A line is a sequence of tokens: the characters the code looks for       *)
(* ("/", "#", "?", ".", "%", "~", and "sep": a separator, such as a form   *)
(* feed, that ends a line for str.splitlines() but not for Rust) and       *)
(* words, each of two to five letters, among them "ext" and "sub", the     *)
(* names of the placeholders %EXT% and (for every other one) %SUBJECT%.    *)
(* "Word" is a word that changes with the case options, "kana" one of      *)
(* letters outside ASCII, which have no case.                              *)
(***************************************************************************)
EXTENDS Integers, Sequences, FiniteSets, SequencesExt, Functions

CONSTANTS
    AllOptions,     \* the configurations: records of the options' names
    AllLines,       \* what a line of a wordlist may be
    MaxLines,       \* bound on the length of the wordlist
    Subjects        \* the values of %SUBJECT%, a sequence of lines

ASSUME LinesAssumption ==
    /\ MaxLines \in Nat
    /\ Subjects \in Seq(Seq(STRING)) /\ Subjects # <<>>
    /\ AllLines \subseteq Seq(STRING)

ASSUME OptionsAssumption ==
    \A o \in AllOptions :
        /\ o.extensions \in Seq(STRING)
        /\ o.prefixes \in Seq(STRING)
        /\ o.suffixes \in Seq(STRING)
        /\ o.wordlist_max_size \in Nat \ {0}

VARIABLES
    options,    \* the configuration, fixed
    lines,      \* what the files hold between two newlines, in order
    generated   \* what each backend made of them, or NotYet

generationVars == <<options, lines, generated>>

Backends == {"python", "native"}
NotYet == [error |-> FALSE, items |-> <<<<"not yet">>>>]

\* \w of a Python pattern, and the letters and digits of ASCII.
Word(t) == t \notin {"/", "#", "?", ".", "%", "~", "sep"}
Ascii(t) == Word(t) /\ t # "kana"
EXCLUDE_OVERWRITE_EXTENSIONS == {"css"}

Has(line, t) == \E i \in DOMAIN line : line[i] = t
Ends(line, t) == line # <<>> /\ line[Len(line)] = t
lstrip_once(line, t) == IF line # <<>> /\ line[1] = t THEN Tail(line) ELSE line

\* What comes before the first token of S.
Before(line, S) ==
    LET stops == {i \in DOMAIN line : line[i] \in S}
    IN  IF stops = {} THEN line
        ELSE SubSeq(line, 1, (CHOOSE i \in stops : \A j \in stops : i <= j) - 1)

clean_path(line) == Before(line, {"#", "?"})

\* read().splitlines(): a separator ends a line too.
Cut(pieces, t) ==
    IF t = "sep" THEN Append(pieces, <<>>)
    ELSE [pieces EXCEPT ![Len(pieces)] = Append(@, t)]

splitlines(line) ==
    LET pieces[i \in 0..Len(line)] == IF i = 0 THEN <<<<>>>> ELSE Cut(pieces[i - 1], line[i])
    IN  pieces

get_lines(file) == FlattenSeq([i \in DOMAIN file |-> splitlines(file[i])[Len(file[i])]])

(***************************************************************************)
(* Templates.                                                              *)
(***************************************************************************)
\* TOKEN_RE.findall: %name% from left to right, without overlaps.  A search is
\* the name since an open "%", and the names found.
NoSearch == [open |-> FALSE, name |-> <<>>, names |-> <<>>]

Searched(s, t) ==
    IF t = "%" THEN IF s.open /\ s.name # <<>>
                    THEN [open |-> FALSE, name |-> <<>>, names |-> Append(s.names, s.name)]
                    ELSE [s EXCEPT !.open = TRUE, !.name = <<>>]
    ELSE IF s.open /\ (Ascii(t) \/ t = "/") THEN [s EXCEPT !.name = Append(@, t)]
    ELSE [s EXCEPT !.open = FALSE, !.name = <<>>]

Search(line) ==
    LET after[i \in 0..Len(line)] == IF i = 0 THEN NoSearch ELSE Searched(after[i - 1], line[i])
    IN  after

FindTokens(line) == Search(line)[Len(line)].names

\* re.sub and replace_case_insensitive: every %name% becomes the value.
Replaced(out, name, value) ==
    IF IsSuffix(<<"%", name, "%">>, out) THEN SubSeq(out, 1, Len(out) - 3) \o value ELSE out

Substitution(line, name, value) ==
    LET out[i \in 0..Len(line)] ==
            IF i = 0 THEN <<>> ELSE Replaced(Append(out[i - 1], line[i]), name, value)
    IN  out

Substitute(line, name, value) == Substitution(line, name, value)[Len(line)]

ExtValues(o) == [i \in DOMAIN o.extensions |-> <<o.extensions[i]>>]

_resolve_token(o, name) == IF name = "ext" THEN ExtValues(o) ELSE Subjects

\* A placeholder the code knows: the name is one word, "ext" or "sub".
is_template_token(name) == name \in {<<"ext">>, <<"sub">>}

SubstituteAll(rendered, name, values) ==
    FlattenSeq([i \in DOMAIN rendered |->
        [j \in DOMAIN values |-> Substitute(rendered[i], name, values[j])]])

\* The placeholders among the first tokens, in the order they appear in.
Named(names, token) ==
    IF is_template_token(token) /\ ~Contains(names, token[1]) THEN Append(names, token[1]) ELSE names

TemplateNames(tokens) ==
    LET names[i \in 0..Len(tokens)] == IF i = 0 THEN <<>> ELSE Named(names[i - 1], tokens[i])
    IN  names

Renders(o, line, names) ==
    LET rendered[i \in 0..Len(names)] ==
            IF i = 0 THEN <<line>>
            ELSE SubstituteAll(rendered[i - 1], names[i], _resolve_token(o, names[i]))
    IN  rendered

\* One rendering for every combination of values, in the order of
\* itertools.product; none when a placeholder has no value.
expand_template_line(o, line) ==
    LET names == TemplateNames(FindTokens(line))[Len(FindTokens(line))]
    IN  Renders(o, line, names)[Len(names)]

(***************************************************************************)
(* The Python generator.                                                   *)
(***************************************************************************)
is_valid_path(o, line) ==
    /\ line # <<>>
    /\ line[1] # "#"
    /\ \A e \in o.exclude_extensions : ~IsSuffix(<<".", e>>, clean_path(line))

Start == [error |-> FALSE, items |-> <<>>]

\* The entry that exceeds the limit is kept.
_add_wordlist_entry_late(o, wordlist, path) ==
    IF wordlist.error \/ Contains(wordlist.items, path) THEN wordlist
    ELSE [items |-> Append(wordlist.items, path),
          error |-> o.wordlist_max_size > 0 /\ Len(wordlist.items) > o.wordlist_max_size]

\* An OrderedSet with a limit; the first entry beyond it raises.  (Rust does not
\* take 0 for "no limit", but the options do not accept 0.)
_add_wordlist_entry(o, wordlist, path) ==
    IF wordlist.error \/ Contains(wordlist.items, path) THEN wordlist
    ELSE [items |-> Append(wordlist.items, path),
          error |-> o.wordlist_max_size > 0 /\ Len(wordlist.items) + 1 > o.wordlist_max_size]

Wordlists(o, paths) ==
    LET after[i \in 0..Len(paths)] ==
            IF i = 0 THEN Start ELSE _add_wordlist_entry(o, after[i - 1], paths[i])
    IN  after

AddAll(o, paths) == Wordlists(o, paths)[Len(paths)]

\* EXTENSION_RECOGNITION_REGEX: a word and one to three extensions at the end.
HasExtension(line) ==
    LET end == IF Ends(line, "~") THEN Len(line) - 1 ELSE Len(line)
    IN  \E n \in 1..3 : /\ end > 2 * n
                        /\ Word(line[end - 2 * n])
                        /\ \A k \in 1..n : Ascii(line[end - 2 * (k - 1)]) /\ line[end - 2 * k + 1] = "."

Extended(o, base) == [i \in DOMAIN o.extensions |-> base \o <<".", o.extensions[i]>>]

Forced(o, line) == o.force_extensions /\ ~Has(line, ".") /\ ~Ends(line, "/")

Overwritten(o, line) ==
    /\ o.overwrite_extensions
    /\ \A e \in ToSet(o.extensions) \cup EXCLUDE_OVERWRITE_EXTENSIONS : ~Ends(line, e)
    /\ ~Has(line, "?") /\ ~Has(line, "#")
    /\ HasExtension(line)

\* The entries one rendered line stands for.
Entries(o, line) ==
    <<line>> \o (IF o.is_blacklist THEN <<>>
                 ELSE IF Forced(o, line) THEN <<line \o <<"/">>>> \o Extended(o, line)
                 ELSE IF Overwritten(o, line) THEN Extended(o, Before(line, {"."}))
                 ELSE <<>>)

\* Prefixes and suffixes: what is altered replaces the list, unless nothing is.
Altered(o, path) ==
    LET prefixed(p) == IF path[1] \in {"/", p} THEN <<>> ELSE <<<<p>> \o path>>
        suffixed(s) == IF Ends(path, "/") \/ Has(path, "?") \/ Has(path, "#") \/ Ends(path, s)
                       THEN <<>> ELSE <<path \o <<s>>>>
    IN  FlattenSeq([i \in DOMAIN o.prefixes |-> prefixed(o.prefixes[i])])
        \o FlattenSeq([i \in DOMAIN o.suffixes |-> suffixed(o.suffixes[i])])

alter(o, wordlist) ==
    LET altered == AddAll(o, FlattenSeq([i \in DOMAIN wordlist.items |-> Altered(o, wordlist.items[i])]))
    IN  IF wordlist.error \/ altered.items = <<>> THEN wordlist ELSE altered

\* lower(), upper() and capitalize(), of one word that they change.
Cased(o, path) ==
    [i \in DOMAIN path |->
        IF path[i] \notin {"Word", "word"} THEN path[i]
        ELSE CASE o.letters = "lowercase" -> "word"
               [] o.letters = "uppercase" -> "WORD"
               [] o.letters = "capitalization" -> (IF i = 1 THEN "Word" ELSE "word")
               [] OTHER -> path[i]]

python_generate(o, text) ==
    LET rendered == FlattenSeq([i \in DOMAIN text |-> expand_template_line(o, lstrip_once(text[i], "/"))])
        wordlist == AddAll(o, FlattenSeq([i \in DOMAIN rendered |->
                        IF is_valid_path(o, rendered[i]) THEN Entries(o, rendered[i]) ELSE <<>>]))
        final == IF o.is_blacklist THEN wordlist ELSE alter(o, wordlist)
    IN  IF final.error THEN [error |-> TRUE, items |-> <<>>]
        ELSE [error |-> FALSE, items |-> [i \in DOMAIN final.items |-> Cased(o, final.items[i])]]

(***************************************************************************)
(* The Rust generator.                                                     *)
(***************************************************************************)
expand_ext(o, line) ==
    IF \E i \in 1..(Len(line) - 2) : SubSeq(line, i, i + 2) = <<"%", "ext", "%">>
    THEN [i \in DOMAIN o.extensions |-> Substitute(line, "ext", <<o.extensions[i]>>)]
    ELSE <<line>>

is_valid(o, line) ==
    /\ line # <<>>
    /\ line[1] # "#"
    /\ ~\E e \in o.exclude_extensions :
          Len(clean_path(line)) >= 2 /\ IsSuffix(<<".", e>>, clean_path(line))

\* The parts of tail, which starts at start, between its dots.
has_extension_recognition_match(line) ==
    LET candidate == IF Ends(line, "~") THEN SubSeq(line, 1, Len(line) - 1) ELSE line
    IN  \E start \in DOMAIN candidate :
            LET tail == SubSeq(candidate, start, Len(candidate))
                dots == {i \in DOMAIN tail : tail[i] = "."}
            IN  /\ Cardinality(dots) \in 1..3
                /\ Before(tail, {"."}) # <<>>
                /\ \A i \in DOMAIN tail : i \notin dots => Ascii(tail[i])
                /\ \A i \in dots : i + 1 \in DOMAIN tail \ dots /\ i + 2 \in dots \cup {Len(tail) + 1}

should_overwrite_extension(o, line) ==
    /\ ~Ends(line, "/") /\ ~Has(line, "?") /\ ~Has(line, "#")
    /\ \A e \in ToSet(o.extensions) \cup EXCLUDE_OVERWRITE_EXTENSIONS : ~Ends(line, e)
    /\ has_extension_recognition_match(line)

\* A dot anywhere in the path is taken for an extension.
native_entries_dotted(o, line) ==
    <<line>> \o (IF Forced(o, line) THEN <<line \o <<"/">>>> \o Extended(o, line)
                 ELSE IF o.overwrite_extensions /\ Has(line, ".") THEN Extended(o, Before(line, {"."}))
                 ELSE <<>>)

native_entries(o, line) ==
    <<line>> \o (IF Forced(o, line) THEN <<line \o <<"/">>>> \o Extended(o, line)
                 ELSE IF o.overwrite_extensions /\ should_overwrite_extension(o, line)
                 THEN Extended(o, Before(line, {"."}))
                 ELSE <<>>)

generate_wordlist_items(o, file) ==
    LET rendered == FlattenSeq([i \in DOMAIN file |-> expand_ext(o, lstrip_once(file[i], "/"))])
        wordlist == AddAll(o, FlattenSeq([i \in DOMAIN rendered |->
                        IF is_valid(o, rendered[i]) THEN native_entries(o, rendered[i]) ELSE <<>>]))
        final == IF o.prefixes # <<>> \/ o.suffixes # <<>> THEN alter(o, wordlist) ELSE wordlist
    IN  IF final.error THEN [error |-> TRUE, items |-> <<>>]
        ELSE [error |-> FALSE, items |-> [i \in DOMAIN final.items |-> Cased(o, final.items[i])]]

\* Blacklists, and files with placeholders that Rust does not know, are left to
\* Python.
_requires_python_template_expansion(file) ==
    \E i \in DOMAIN file : \E j \in DOMAIN FindTokens(file[i]) :
        LET name == FindTokens(file[i])[j] IN is_template_token(name) /\ name # <<"ext">>

native_generate(o, file) ==
    IF o.is_blacklist \/ _requires_python_template_expansion(file)
    THEN python_generate(o, get_lines(file))
    ELSE generate_wordlist_items(o, file)

(***************************************************************************)
(* The specification: files are read, then a backend generates.            *)
(***************************************************************************)
GenerationInit ==
    /\ options \in AllOptions
    /\ lines = <<>>
    /\ generated = [b \in Backends |-> NotYet]

ReadLine ==
    /\ Len(lines) < MaxLines
    /\ \A b \in Backends : generated[b] = NotYet
    /\ \E line \in AllLines : lines' = Append(lines, line)
    /\ UNCHANGED <<options, generated>>

generate(b) ==
    /\ generated[b] = NotYet
    /\ generated' = [generated EXCEPT ![b] = IF b = "python" THEN python_generate(options, get_lines(lines))
                                             ELSE native_generate(options, lines)]
    /\ UNCHANGED <<options, lines>>

Generated == \A b \in Backends : generated[b] # NotYet

Done == Generated /\ UNCHANGED generationVars

GenerationNext == ReadLine \/ (\E b \in Backends : generate(b)) \/ Done

GenerationSpec == GenerationInit /\ [][GenerationNext]_generationVars

(***************************************************************************)
(* What a wordlist stands for, as a set.                                   *)
(***************************************************************************)
\* The placeholders that are seen in a line take each of their values, the one
\* that is seen first before the other.
Seen(line, name) == Contains(FindTokens(line), <<name>>)

SubFirst(line) ==
    \E i \in DOMAIN FindTokens(line) :
        /\ FindTokens(line)[i] = <<"sub">>
        /\ \A j \in 1..i : FindTokens(line)[j] # <<"ext">>

Given(o, rendered, name) == {Substitute(s, name, v) : s \in rendered, v \in ToSet(_resolve_token(o, name))}

Renderings(o, line) ==
    LET given(S, name) == IF Seen(line, name) THEN Given(o, S, name) ELSE S
    IN  IF SubFirst(line) THEN given(given({line}, "sub"), "ext") ELSE given(given({line}, "ext"), "sub")

Promised(o, text) ==
    LET stems == {s \in UNION {Renderings(o, lstrip_once(text[i], "/")) : i \in DOMAIN text} :
                    is_valid_path(o, s)}
        full == UNION {ToSet(Entries(o, s)) : s \in stems}
        altered == IF o.is_blacklist THEN {} ELSE UNION {ToSet(Altered(o, p)) : p \in full}
    IN  [paths |-> {Cased(o, p) : p \in IF altered = {} THEN full ELSE altered},
         error |-> \/ Cardinality(full) > o.wordlist_max_size
                   \/ Cardinality(altered) > o.wordlist_max_size]

(***************************************************************************)
(* Properties.                                                             *)
(***************************************************************************)
\* Whatever the order of duplicates, expansions and alterations, the wordlist
\* is exactly what the lines promise, each path once (twice only when a case
\* option makes two paths equal, since duplicates are removed before it), and
\* generation fails exactly when the limit is exceeded.
GeneratesExactly ==
    generated["python"] # NotYet =>
        /\ generated["python"].error = Promised(options, get_lines(lines)).error
        /\ ~generated["python"].error =>
              /\ ToSet(generated["python"].items) = Promised(options, get_lines(lines)).paths
              /\ options.letters = "keep" => IsInjective(generated["python"].items)

\* %ext% is in the line but TOKEN_RE spends its first % on another name.
HiddenTag(line) ==
    /\ \E i \in 1..(Len(line) - 2) : SubSeq(line, i, i + 2) = <<"%", "ext", "%">>
    /\ ~Contains(FindTokens(line), <<"ext">>)

\* A word that ends outside ASCII stands before a dot, in a path the line stands
\* for: it may be a base for \w, and is none for is_word_character.
ForeignBase(path) == \E i \in 1..(Len(path) - 1) : path[i] = "kana" /\ path[i + 1] = "."

Foreign(o, line) == \E path \in ToSet(expand_template_line(o, lstrip_once(line, "/"))) : ForeignBase(path)

\* The Rust generator and the Python one make the same list, in the same order,
\* of the same files, or both refuse: a scan does not depend on the backend that
\* --wordlist-backend=auto picked, except for lines with a hidden %EXT%, with a
\* separator that only Python knows, or with a base only Python recognises.
BackendsAgree ==
    Generated =>
        \/ \E i \in DOMAIN lines :
              HiddenTag(lines[i]) \/ Has(lines[i], "sep") \/ Foreign(options, lines[i])
        \/ generated["python"] = generated["native"]
=============================================================================
