--------------------------------- MODULE MCRtps ---------------------------------
(***************************************************************************)
(* Instance of Rtps for TLC.                                               *)
(***************************************************************************)
EXTENDS Rtps
=================================================================================
