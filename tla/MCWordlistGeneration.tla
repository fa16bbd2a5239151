------------------------ MODULE MCWordlistGeneration ------------------------
(***************************************************************************)
(* Options and lines for WordlistGeneration: every option with the lines   *)
(* it applies to, does not apply to, and applies to by mistake.            *)
(***************************************************************************)
EXTENDS WordlistGeneration

Plain == [extensions |-> <<"php", "asp">>, force_extensions |-> FALSE, overwrite_extensions |-> FALSE,
          exclude_extensions |-> {}, prefixes |-> <<>>, suffixes |-> <<>>, letters |-> "keep",
          is_blacklist |-> FALSE, wordlist_max_size |-> 50]

MCOptions ==
    {Plain,
     [Plain EXCEPT !.force_extensions = TRUE, !.exclude_extensions = {"asp"}],
     [Plain EXCEPT !.overwrite_extensions = TRUE, !.letters = "lowercase"],
     [Plain EXCEPT !.force_extensions = TRUE, !.overwrite_extensions = TRUE, !.is_blacklist = TRUE],
     [Plain EXCEPT !.prefixes = <<"word", "php">>, !.suffixes = <<"~">>],
     [Plain EXCEPT !.suffixes = <<"css", "~">>, !.overwrite_extensions = TRUE],
     [Plain EXCEPT !.prefixes = <<"word">>, !.force_extensions = TRUE, !.letters = "capitalization"],
     [Plain EXCEPT !.extensions = <<>>, !.force_extensions = TRUE, !.letters = "uppercase"],
     [Plain EXCEPT !.wordlist_max_size = 2, !.prefixes = <<"php">>],
     [Plain EXCEPT !.wordlist_max_size = 3, !.force_extensions = TRUE]}

MCLines ==
    {<<>>, <<"/">>, <<"#", "word">>, <<"word">>, <<"/", "Word">>, <<"word", "/">>,
     <<"word", ".", "asp">>, <<"word", ".", "bak", "~">>, <<"word", ".", "css">>,
     <<"/", ".", "bak">>, <<"word", ".", "/", "word">>, <<"word", "?", "bak", ".", "bak">>,
     <<"word", ".", "bak", ".", "bak", ".", "bak", ".", "bak">>,
     <<"word", ".", "%", "ext", "%">>, <<"%", "ext", "%", "ext", "%">>, <<"%", "word", "%", "ext", "%">>,
     <<"%", "sub", "%", ".", "%", "ext", "%">>, <<"%", "none", "%">>, <<"%", "%", "sub", "%">>,
     <<"%", "sub", "%", "ext", "%", "%", "ext", "%">>, <<"%", "ext", "%", "sub", "%", "%", "sub", "%">>,
     <<"kana", ".", "bak">>, <<"word", ".", "kana">>, <<"%", "kana", "%", "ext", "%">>, <<"word", "sep", "/", "bak">>}

MCSubjects == <<<<"user">>, <<"word">>>>
=============================================================================
