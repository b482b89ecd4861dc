----------------------------- MODULE MCHandshake -----------------------------
(***************************************************************************)
(* Values of Handshake's constants for TLC.                                *)
(***************************************************************************)
EXTENDS Handshake

CONSTANT a
=============================================================================
