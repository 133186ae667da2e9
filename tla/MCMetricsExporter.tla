------------------------- MODULE MCMetricsExporter -------------------------
(***************************************************************************)
(* MetricsExporter with the checks of the script.                          *)
(***************************************************************************)
EXTENDS MetricsExporter, TLC

CONSTANTS r1, r2

TwoRuns     == {r1, r2}
Script      == <<"disk", "load">>
SymmetricTwo == Permutations(TwoRuns)
=============================================================================
