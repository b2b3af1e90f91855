------------------------------- MODULE MCSelfTest -------------------------------
(***************************************************************************)
(* Instance of SelfTest for TLC.                                           *)
(***************************************************************************)
EXTENDS SelfTest
=================================================================================
