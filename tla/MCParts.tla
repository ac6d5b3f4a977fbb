------------------------------ MODULE MCParts ------------------------------
(***************************************************************************)
(* Small instances of the components.                                      *)
(***************************************************************************)
EXTENDS Components, TLC

CONSTANTS i1, i2, l1, l2, a, p1, p2, r1

Combinations == <<"bold-bay", "bold-bear", "calm-bay", "calm-bear">>
==============================================================================
