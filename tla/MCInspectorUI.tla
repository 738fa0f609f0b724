--------------------------- MODULE MCInspectorUI ---------------------------
(* InspectorUI for TLC: requests are numbers, so there is nothing to name   *)
(* and no symmetry to use.                                                  *)
EXTENDS InspectorUI
=============================================================================
