------------------------- MODULE MCProtocolSession --------------------------
(***************************************************************************)
(* ProtocolSession for TLC.                                                *)
(***************************************************************************)
EXTENDS ProtocolSession
=============================================================================
