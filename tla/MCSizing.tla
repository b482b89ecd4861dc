----------------------------- MODULE MCSizing -----------------------------
(***************************************************************************)
(* Values of Sizing's constants for TLC.                                   *)
(***************************************************************************)
EXTENDS Sizing, TLC

Cpu == "cpu"
Slots == "pods"
Gpu == "gpu"

V(c, s, g) == Cpu :> c @@ Slots :> s @@ Gpu :> g

ThreeDims == {Cpu, Slots, Gpu}
SomeWants == {V(3, 1, 0), V(1, 1, 1)}
NoFrees == {}

\* One cpu is held back; the pods a machine may hold are not the provider's.
TwoPods == V(0, 2, 0)
OneCpu == V(1, 0, 0)

\* DaemonSets are kept off virtual nodes, or one pod of theirs slips through.
NoDaemons == {Nothing}
ADaemon == {Nothing, V(2, 1, 0)}

Small == V(2, 2, 1)
Large == V(4, 2, 1)

\* Every flavor is reported with all a pod may ask for, and has that or more: a
\* machine that has joined holds any one pod.
FullyReported == {[reported |-> <<V(3, 0, 1), V(5, 0, 1)>>,
                   real |-> <<Large, V(4, 2, 2)>>]}

\* The same, and the small one turns out to be too small for one of the pods.
TwoSizes == {[reported |-> <<V(3, 0, 1), V(5, 0, 1)>>, real |-> <<Small, Large>>]}

\* No flavor is known; its GPUs are not in the provider's table; it is no larger
\* than what the pool holds back.
NotReported == {[reported |-> <<>>, real |-> <<Large>>],
                [reported |-> <<V(5, 0, 0)>>, real |-> <<Large>>],
                [reported |-> <<V(1, 0, 1)>>, real |-> <<V(0, 2, 1)>>]}

\* Two pods, one of which fits either flavor and the other only the first.
EvenWants == {V(4, 1, 1), V(1, 1, 4)}
OneFitsAll == {[reported |-> <<V(5, 0, 4), V(5, 0, 1)>>, real |-> <<V(4, 2, 4), V(4, 2, 1)>>]}

\* What the theorem on pods rented for supposes: of every catalog but the unknown ones.
ASSUME CatalogsAgree == AsReported \/ Catalogs = NotReported

KnownLists == {ShapesFor(c.reported) : c \in Catalogs}
=============================================================================
