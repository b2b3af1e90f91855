------------------------------ MODULE MCLinkShmem ------------------------------
(***************************************************************************)
(* Instances of LinkShmem for TLC.                                         *)
(***************************************************************************)
EXTENDS LinkShmem
================================================================================
