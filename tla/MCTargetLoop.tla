----------------------------- MODULE MCTargetLoop -----------------------------
(* Two targets, two start directories and one that recursion finds.          *)
EXTENDS TargetLoop

MCTargets == <<"t", "u">>
MCSubdirs == <<"r", "x">>
MCLegacy == Legacy
=============================================================================
