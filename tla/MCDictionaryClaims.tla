------------------------- MODULE MCDictionaryClaims -------------------------
(* TLC instance of DictionaryClaims with the native request backend: a      *)
(* wordlist with a duplicate entry, one path that only discovery finds and  *)
(* one that is never valid.  MCAsyncScan covers the claims of tasks.        *)
EXTENDS DictionaryClaims

CONSTANTS a, b, x, bad

MCPaths == {a, b, x, bad}
MCValidPaths == {a, b, x}
MCWordlist == <<a, b, a>>

\* Spec when NativeRequests: no worker ever claims a single path.
BatchNext ==
  \/ ClaimBatch
  \/ \E count \in 1 .. ChunkSize : ReleaseBatch(count) \/ ReleaseRange(count)
  \/ Requeue
  \/ \E p \in Paths : Discover(p)
  \/ Save
  \/ Resume
  \/ NextDirectory

MCSpec == Init /\ [][BatchNext]_vars
=============================================================================
