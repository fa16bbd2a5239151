--------------------------- MODULE MCResultChunks ---------------------------
(* TLC instance of ResultChunks. *)
EXTENDS ResultChunks
CONSTANTS w1, w2
=============================================================================
