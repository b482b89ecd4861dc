----------------------------- MODULE MCPacking -----------------------------
(***************************************************************************)
(* Values of Packing's constants for TLC.                                  *)
(***************************************************************************)
EXTENDS Packing, TLC

Cpu == "cpu"
Slots == "pods"
Gpu == "gpu"

V(c, s, g) == Cpu :> c @@ Slots :> s @@ Gpu :> g

ThreeDims == {Cpu, Slots, Gpu}

\* Every pod takes one of "pods".
SomeWants == {V(c, 1, g) : c \in 1 .. 3, g \in 0 .. 1}
SomeFrees == {V(2, 2, 0), V(3, 1, 1)}
SomeShapeLists == {<<>>, <<V(4, 9, 0)>>, <<V(4, 3, 0)>>, <<V(4, 2, 1)>>,
                   <<V(2, 2, 0), V(4, 3, 1)>>}
=============================================================================
