---------------------------- MODULE MCNativeScan ----------------------------
(* TLC instances of NativeScan: a short wordlist, and one path that only    *)
(* crawling finds.                                                          *)
EXTENDS NativeScan

CONSTANTS a, b, x

MCPaths == {a, b, x}
MCTwo == <<a, b>>
MCThree == <<a, b, a>>
MCLink == [p \in MCPaths |-> IF p = b THEN x ELSE NoPath]
=============================================================================
