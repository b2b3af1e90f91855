------------------------------ MODULE MCLinkStore ------------------------------
(***************************************************************************)
(* Instance of LinkStore for TLC: two links of the same name and one       *)
(* without a name.                                                         *)
(***************************************************************************)
EXTENDS LinkStore

CONSTANTS a1, a2, b

MCName == [l \in {a1, a2, b} |-> IF l = b THEN NONE ELSE "A"]
================================================================================
