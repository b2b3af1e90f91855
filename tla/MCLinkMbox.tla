------------------------------- MODULE MCLinkMbox -------------------------------
(***************************************************************************)
(* An instance of LinkMbox for TLC: one server link and one client link,   *)
(* on channels of their own.                                               *)
(***************************************************************************)
EXTENDS LinkMbox

CONSTANTS s, k, f1, t1, f2, t2

MCFrom == [l \in Links |-> IF l = s THEN f1 ELSE f2]
MCTo == [l \in Links |-> IF l = s THEN t1 ELSE t2]
=================================================================================
