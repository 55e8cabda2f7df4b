---------------------------------- MODULE MCDPWaves ----------------------------------
(***************************************************************************)
(* DPWaves on small instances.                                             *)
(***************************************************************************)
EXTENDS DPWaves
=============================================================================
