------------------------- MODULE MCStructuredReport -------------------------
(* TLC instance of StructuredReport: equal rows may be saved more than once. *)
EXTENDS StructuredReport
=============================================================================
