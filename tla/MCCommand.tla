------------------------------- MODULE MCCommand -------------------------------
(***************************************************************************)
(* Instances of Command for TLC.                                           *)
(***************************************************************************)
EXTENDS Command, TLC

CONSTANTS c1, c2, c3, c4

MCCmds2 == {c1, c2}
MCCmds4 == {c1, c2, c3, c4}

(* One command that is answered with a reply, one the server rejects, and  *)
(* ones without a reply, which may be exchanged for one another.           *)
MCMsgType == [c \in Cmds |-> CASE c = c1 -> "PING"
                               [] c = c2 -> "OTHER"
                               [] OTHER -> "NOP"]
MCSymmetry == Permutations({c3, c4})
================================================================================
