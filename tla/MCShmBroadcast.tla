------------------------------- MODULE MCShmBroadcast -------------------------------
(***************************************************************************)
(* Instance of ShmBroadcast for TLC.                                       *)
(***************************************************************************)
EXTENDS ShmBroadcast
=============================================================================
