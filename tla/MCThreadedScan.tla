--------------------------- MODULE MCThreadedScan ---------------------------
(* TLC instances of ThreadedScan: recursion from the root finds one further *)
(* directory at either of two paths; crawling one path yields another.      *)
EXTENDS ThreadedScan

CONSTANTS a, b, x, root, other, sub

MCPaths == {a, b, x}
MCOne == <<a>>
MCTwo == <<a, b>>
MCDirs == {root, other, sub}
MCRoot == <<root>>
MCRootOther == <<root, other>>
MCChild ==
  [d \in MCDirs |->
     [p \in MCPaths |-> IF d = root /\ p # b THEN sub ELSE NoDir]]
MCLink == [p \in MCPaths |-> IF p = a THEN x ELSE NoPath]
=============================================================================
