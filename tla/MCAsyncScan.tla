----------------------------- MODULE MCAsyncScan -----------------------------
(* Two tasks, two words and a path that only crawling finds.                *)
EXTENDS AsyncScan

CONSTANTS a, b, x

MCPaths == {a, b, x}
MCWordlist == <<a, b>>
=============================================================================
