---------------------------- MODULE HttpResponse ----------------------------
(***************************************************************************)
(* What dirsearch keeps of one HTTP answer: lib/connection/response.py and *)
(* the part of native/src/result.rs and transport.rs that builds the same  *)
(* data in Rust.                                                           *)
(*                                                                         *)
(* An answer on the wire is a record w:                                    *)
(*   status, media ("text" or "other"), charset ("none", "utf8", "latin"   *)
(*   or "unknown"), location (a sequence of tokens), tags (the values of   *)
(*   one header, possibly sent several times), clen (Content-Length or     *)
(*   NoLength), encoded (a Content- or Transfer-Encoding is declared),     *)
(*   elapsed (milliseconds), hostile (a regular expression runs into the   *)
(*   native backtracking limit on it) and body, the decoded bytes.         *)
(* The bytes that the code tells apart are: "a", "b" (letters), "d1", "d2" *)
(* (volatile values: identifiers, timestamps), "p" (where the server       *)
(* reflects the requested path), " ", "\n", "nul" (a control byte, the     *)
(* mark of a binary body), "fs" (one of the separators 0x1c to 0x1f, which *)
(* are control bytes too) and "hi" (a byte that is not valid UTF-8).       *)
(***************************************************************************)
EXTENDS Integers, Sequences, FiniteSets, SequencesExt

CONSTANTS
    MaxResponseSize,    \* MAX_RESPONSE_SIZE: bytes kept of a body
    IterChunkSize       \* ITER_CHUNK_SIZE: bytes per chunk of the stream

ASSUME SizesAssumption ==
    /\ MaxResponseSize \in Nat \ {0}
    /\ IterChunkSize \in Nat \ {0}

NoLength == -1

\* The reflected path stands for the path of the request.
Rendered(s, path) == [i \in DOMAIN s |-> IF s[i] = "p" THEN path ELSE s[i]]

\* str.replace(path, mark), and with no mark: the path is removed, and a text
\* without it stays as it is.
ReplacePath(s, path, mark) == [i \in DOMAIN s |-> IF s[i] = path THEN mark ELSE s[i]]
RemovePath(s, path) == IF Contains(s, path) THEN SelectSeq(s, LAMBDA c : c # path) ELSE s

\* replace_path (lib/utils/common.py): only a path that no word character
\* follows is replaced.  A path starts with "/", which is none.
WordTokens == {"a", "b", "d1", "d2", "e"}
PathEnds(s, i) == i = Len(s) \/ s[i + 1] \notin WordTokens
replace_path(s, path, mark) ==
    [i \in DOMAIN s |-> IF s[i] = path /\ PathEnds(s, i) THEN mark ELSE s[i]]

\* "pattern in text" and, patterns being literals, re.search.
Occurs(pattern, text) ==
    \E i \in 0..(Len(text) - Len(pattern)) : SubSeq(text, i + 1, i + Len(pattern)) = pattern

(***************************************************************************)
(* Headers.  Python joins a repeated header into one line; the native      *)
(* filter sees one line for each occurrence.                               *)
(***************************************************************************)
response_headers_text(tags) ==
    IF tags = <<>> THEN <<>>
    ELSE <<"x:">> \o FoldLeft(LAMBDA text, v : IF text = <<>> THEN <<v>> ELSE text \o <<",", v>>,
                              <<>>, tags)

native_headers_to_text(tags) ==
    FoldLeft(LAMBDA text, v : IF text = <<>> THEN <<"x:", v>> ELSE text \o <<"\n", "x:", v>>,
             <<>>, tags)

get_response_length(clen, bodyLength) == IF clen >= 0 THEN clen ELSE bodyLength

_decoded_content_length(w) == IF w.encoded THEN NoLength ELSE w.clen

\* A declared charset that Python has no codec for decodes as UTF-8.
_is_known_charset(charset) == charset \in {"utf8", "latin"}

_should_decode_binary_text(w) == w.media = "text" /\ _is_known_charset(w.charset)

(***************************************************************************)
(* Text.                                                                   *)
(***************************************************************************)
is_binary(body) == \E i \in DOMAIN body : body[i] \in {"nul", "fs"}

\* bytes.decode(encoding, errors): "replace" keeps a mark for an invalid byte,
\* "ignore" drops it, and Latin-1 has a letter for every byte.
Decode(body, encoding, errors) ==
    IF encoding = "latin" THEN ReplacePath(body, "hi", "e")
    ELSE IF errors = "replace" THEN ReplacePath(body, "hi", "?")
    ELSE RemovePath(body, "hi")

_decode_response_body(body, encoding, decodeBinaryText) ==
    IF is_binary(body) /\ ~decodeBinaryText
    THEN <<>>
    ELSE Decode(body, IF _is_known_charset(encoding) THEN encoding ELSE "utf8", "replace")

Text(r) == IF r.content # <<>> THEN r.content ELSE Decode(r.body, "utf8", "ignore")

Spaces == {" ", "\n", "fs"}

\* str.split(): the words of a text.
Split(text) ==
    LET next(acc, c) == IF c \in Spaces
                       THEN [words |-> IF acc.word = <<>> THEN acc.words
                                       ELSE Append(acc.words, acc.word),
                             word |-> <<>>]
                       ELSE [acc EXCEPT !.word = Append(@, c)]
    IN  next(FoldLeft(next, [words |-> <<>>, word |-> <<>>], text), " ").words

WordCount(text) == Len(Split(text))

\* word_count in filters.rs: for split_whitespace() the separators 0x1c to 0x1f
\* are no white space but part of a word.
native_word_count(text) == WordCount(ReplacePath(text, "fs", "nul"))

LineCount(text) ==
    IF text = <<>> THEN 0 ELSE Cardinality({i \in DOMAIN text : text[i] = "\n"}) + 1

\* Volatile values become one mark and white space is collapsed; the words of
\* the normalised text are all that is ever read of it.
normalize_dynamic_content(text) ==
    Split([i \in DOMAIN text |-> IF text[i] \in {"d1", "d2"} THEN "__DYNAMIC__" ELSE text[i]])

(***************************************************************************)
(* _BodyCapture: at most MaxResponseSize bytes are read, and of a binary   *)
(* body with a declared length only the first chunks are kept; "digest" is *)
(* the SHA-256 of everything read, modelled by what was hashed.            *)
(***************************************************************************)
Chunks(body) ==
    [i \in 1..((Len(body) + IterChunkSize - 1) \div IterChunkSize) |->
        SubSeq(body, (i - 1) * IterChunkSize + 1,
               IF i * IterChunkSize < Len(body) THEN i * IterChunkSize ELSE Len(body))]

NewCapture == [body |-> <<>>, hashing |-> FALSE, digest |-> <<>>, read |-> 0,
               stopped |-> FALSE, complete |-> FALSE]

\* The digest covers only the chunks after the first ones.
add_short(cap, chunk, w, full) ==
    LET remaining == MaxResponseSize - cap.read
        captured == SubSeq(chunk, 1, IF remaining < Len(chunk) THEN remaining ELSE Len(chunk))
        body == IF cap.hashing THEN cap.body ELSE cap.body \o captured
        read == cap.read + Len(captured)
        stop == Len(captured) < Len(chunk) \/ read >= MaxResponseSize
    IN  IF cap.stopped THEN cap ELSE
        [body |-> body,
         hashing |-> cap.hashing \/ (~full /\ w.clen # NoLength /\ is_binary(body)),
         digest |-> cap.digest,
         read |-> read,
         stopped |-> stop,
         complete |-> stop /\ Len(captured) = Len(chunk) /\ _decoded_content_length(w) = read]

add(cap, chunk, w, full) ==
    LET remaining == MaxResponseSize - cap.read
        captured == SubSeq(chunk, 1, IF remaining < Len(chunk) THEN remaining ELSE Len(chunk))
        body == IF cap.hashing THEN cap.body ELSE cap.body \o captured
        read == cap.read + Len(captured)
        starts == ~cap.hashing /\ ~full /\ w.clen # NoLength /\ is_binary(body)
        stop == Len(captured) < Len(chunk) \/ read >= MaxResponseSize
    IN  IF cap.stopped THEN cap ELSE
        [body |-> body,
         hashing |-> cap.hashing \/ starts,
         digest |-> IF cap.hashing THEN cap.digest \o captured
                    ELSE IF starts THEN body ELSE <<>>,
         read |-> read,
         stopped |-> stop,
         complete |-> stop /\ Len(captured) = Len(chunk) /\ _decoded_content_length(w) = read]

\* The capture after each chunk of the stream.
Capturing(w, body, full) ==
    LET after[i \in 0..Len(Chunks(body))] ==
            IF i = 0 THEN NewCapture ELSE add(after[i - 1], Chunks(body)[i], w, full)
    IN  after

\* The stream is read to its end, or until add() refuses a chunk.
Captured(w, body, full) ==
    LET cap == Capturing(w, body, full)[Len(Chunks(body))]
    IN  IF cap.stopped THEN cap ELSE [cap EXCEPT !.complete = TRUE]

(***************************************************************************)
(* BaseResponse and its two constructors.                                  *)
(***************************************************************************)
BaseResponse(w, path, cap, length, content) ==
    [path |-> path, status |-> w.status, media |-> w.media, tags |-> w.tags,
     clen |-> w.clen, elapsed |-> w.elapsed, redirect |-> Rendered(w.location, path),
     body |-> cap.body, complete |-> cap.complete, hashed |-> cap.hashing,
     digest |-> cap.digest, length |-> length, content |-> content]

\* Response and AsyncResponse: requests guesses Latin-1 for a text without a
\* charset, httpx guesses UTF-8 (GuessLatin says which client it is).
Response(w, path, full, guessLatin) ==
    LET decodeBinary == _should_decode_binary_text(w)
        cap == Captured(w, Rendered(w.body, path), full \/ decodeBinary)
        encoding == IF w.charset # "none" THEN w.charset
                    ELSE IF guessLatin /\ w.media = "text" THEN "latin" ELSE "utf8"
    IN  BaseResponse(w, path, cap, get_response_length(w.clen, Len(cap.body)),
                     _decode_response_body(cap.body, encoding, decodeBinary))

(***************************************************************************)
(* The native side: transport.rs reads the whole stream and keeps a        *)
(* bounded prefix, result.rs takes the declared length before the read     *)
(* one, and NativeResponse is built from what the engine returns.          *)
(***************************************************************************)
read_decoded_body(body) ==
    [body |-> SubSeq(body, 1, IF Len(body) < MaxResponseSize THEN Len(body) ELSE MaxResponseSize),
     length |-> Len(body)]

native_response_length(w, bodyLength) == IF w.clen >= 0 THEN w.clen ELSE bodyLength

NativeResponse(w, path) ==
    LET raw == read_decoded_body(Rendered(w.body, path))
    IN  BaseResponse(w, path,
                     [NewCapture EXCEPT !.body = raw.body, !.complete = Len(raw.body) = raw.length],
                     native_response_length(w, raw.length),
                     _decode_response_body(raw.body, w.charset, _should_decode_binary_text(w)))

(***************************************************************************)
(* Comparing responses.                                                    *)
(***************************************************************************)
_body_fingerprint(r) == IF r.hashed THEN r.digest ELSE r.body

has_same_body(r, s) ==
    /\ r.complete
    /\ s.complete
    /\ IF r.hashed \/ s.hashed
       THEN _body_fingerprint(r) = _body_fingerprint(s)
       ELSE r.body = s.body

SameResponse(r, s) ==
    r.status = s.status /\ r.redirect = s.redirect /\ has_same_body(r, s)

\* The fingerprint of --filter-threshold does not see the reflected path.
filter_fingerprint(r) ==
    <<r.status, IF r.content # <<>> THEN RemovePath(replace_path(r.content, r.path, ""), "")
                ELSE _body_fingerprint(r)>>
=============================================================================
