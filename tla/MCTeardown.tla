----------------------------- MODULE MCTeardown -----------------------------
(***************************************************************************)
(* Values of Teardown's constants for TLC.                                 *)
(***************************************************************************)
EXTENDS Teardown

CONSTANTS a, b
=============================================================================
