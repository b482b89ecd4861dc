---------------------------- MODULE MCController ----------------------------
(***************************************************************************)
(* Values of Controller's constants for TLC.                               *)
(***************************************************************************)
EXTENDS Controller, TLC

CONSTANTS a, b, c,      \* machine names
          ovh, vultr    \* providers

OneCloud == [n \in Names |-> ovh]
TwoClouds == [n \in Names |-> IF n = b THEN vultr ELSE ovh]

OnePool == <<"gpu">>
TwoPools == <<"gpu", "cpu">>

\* Every pool may rent everywhere, ovh first.
OvhOnly == [q \in Pools |-> <<ovh>>]
OvhFirst == [q \in Pools |-> <<ovh, vultr>>]

NoFloor == [q \in Pools |-> 0]
FloorOfOne == [q \in Pools |-> 1]
Unlimited == [q \in Pools |-> 0]
OneForGpu == [q \in Pools |-> IF q = "gpu" THEN 1 ELSE 0]
TwoAndOne == [q \in Pools |-> IF q = "gpu" THEN 2 ELSE 1]
BatchOfOne == [q \in Providers |-> 1]
BatchOfTwo == [q \in Providers |-> 2]

SomeNames == Permutations(Names)
=============================================================================
