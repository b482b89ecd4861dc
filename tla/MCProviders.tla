----------------------------- MODULE MCProviders -----------------------------
(***************************************************************************)
(* Values of the providers' constants for TLC.                             *)
(***************************************************************************)
EXTENDS Providers

CONSTANTS m, n, a10,            \* names: two of ours and a hand-managed machine
          small, large          \* flavors

AnyOrder == {<<small, large>>}
=============================================================================
