--------------------------- MODULE MCAnteSetup ---------------------------
(* Model-checking instance of AnteSetup: a 4-bit gas type (signed range *)
(* -8..7), limits on both sides of the sign boundary, and MaxGas values *)
(* of "no limit", zero and one in range.                                  *)
EXTENDS AnteSetup

MCGasLimits == {0, 1, 7, 8, 15}
MCMaxGases == {-1, 0, 5}
=============================================================================
